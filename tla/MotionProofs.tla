----------------------------- MODULE MotionProofs -----------------------------
(***************************************************************************)
(* What is proved of the way of a move.  The toolhead, for every choice of *)
(* its times, delays, durations and bounds: its types, that the step       *)
(* generators never learn of a move too late (MovesInOrder), that the      *)
(* steps are done when the position is set (SetAtRest), that somebody is   *)
(* always going to flush the steps that are left (FlushArmed) and, when    *)
(* the reactor is late by no more than the times allow, that they are      *)
(* flushed before the micro-controller gets to them (InTime).  Then the    *)
(* idle timeout knows of the moves (BusyKnown) and turns the motors off at *)
(* rest (OffAtRest).  Every operator keeps a state of the toolhead good    *)
(* and lets it only go on; the actions apply operators.  G-code knows      *)
(* where the toolhead is, excluded objects leave it where g-code wants it, *)
(* and a probe is down when it has to be and up when nothing runs.         *)
(***************************************************************************)
EXTENDS MCMotion, IdleTimeout, TLAPS

-----------------------------------------------------------------------------
(* The invariant.                                                          *)

\* What is generated and flushed is known to min_restart_time.
Counted(t) == /\ t \in ToolHeadState
              /\ t.generated <= t.min_restart_time
              /\ t.last_flush_time <= t.min_restart_time

\* The print time is ahead of the steps that have been generated.
StepsDone(t) == t.min_restart_time + t.kin_flush_delay <= t.print_time

Armed(t) ==
  /\ t.state = "Drip" => t.flush_timer = Never /\ ~t.do_kick
  /\ t.state # "Drip" => (t.do_kick <=> t.flush_timer = Never)
  /\ t.do_kick => t.last_flush_time >= t.need_flush_time

Good(t) == /\ Counted(t) /\ Armed(t)
           /\ t.state \in {"main", "Drip"} => StepsDone(t)
           /\ t.state # "Drip" => t.trapq.end <= t.print_time

\* The toolhead goes on from t to u: moves are appended where it was or later.
Follows(t, u) ==
  /\ u.kin_flush_delay = t.kin_flush_delay
  /\ t.print_time <= u.print_time
  /\ t.min_restart_time <= u.min_restart_time
  /\ u.do_kick => t.do_kick
  /\ u.trapq.start # t.trapq.start =>
       /\ t.print_time <= u.trapq.start
       /\ t.min_restart_time + t.kin_flush_delay <= u.trapq.start

DripState ==
  /\ th.state = "Drip" <=> greenlet.at = "drip"
  /\ greenlet.at = "drip" => th.trapq.end = greenlet.drip

IInv == TypeOK /\ Good(th) /\ DripState

\* What the fields of u have in common with those of t.
SameMode(t, u) ==
  /\ u.state = t.state /\ u.kin_flush_delay = t.kin_flush_delay
  /\ u.queue = t.queue /\ u.trapq = t.trapq
SameSteps(t, u) ==
  /\ u.generated = t.generated /\ u.min_restart_time = t.min_restart_time
  /\ u.last_flush_time = t.last_flush_time
SameFlush(t, u) ==
  /\ u.flush_timer = t.flush_timer /\ u.do_kick = t.do_kick
  /\ u.need_flush_time = t.need_flush_time

-----------------------------------------------------------------------------
(* Types.                                                                  *)

LEMMA ConstantTypes ==
  /\ BUFFER_TIME_LOW \in Nat /\ BUFFER_TIME_HIGH \in Nat
  /\ BUFFER_TIME_START \in Nat /\ BGFLUSH_LOW_TIME \in Nat
  /\ BGFLUSH_BATCH_TIME \in Nat /\ BGFLUSH_EXTRA_TIME \in Nat
  /\ MIN_KIN_TIME \in Nat /\ STEPCOMPRESS_FLUSH_TIME \in Nat
  /\ LOOKAHEAD_FLUSH_TIME \in Nat /\ DRIP_SEGMENT_TIME \in Nat
  /\ DRIP_TIME \in Nat /\ TENTH \in Nat /\ SECOND \in Nat
  /\ Never \notin Int
BY ToolHeadAssumption

LEMMA FieldTypes ==
  ASSUME NEW t \in ToolHeadState
  PROVE  /\ t.print_time \in Nat /\ t.last_flush_time \in Nat
         /\ t.kin_flush_delay \in Delays /\ t.kin_flush_delay \in Nat
         /\ t.min_restart_time \in Nat /\ t.generated \in Nat
         /\ t.need_flush_time \in Nat /\ t.step_gen_time \in Nat
         /\ t.do_kick \in BOOLEAN /\ t.flush_timer \in Int \union {Never}
         /\ t.queue \in Nat /\ t.junction_flush \in Int
         /\ t.can_pause \in BOOLEAN
         /\ t.state \in {"NeedPrime", "Priming", "main", "Drip"}
         /\ t.priming_timer \in Int \union {Never}
         /\ t.need_check_pause \in Int \union {Never}
         /\ t.trapq \in Stretch /\ t.trapq.start \in Nat
         /\ t.trapq.end \in Nat /\ t.trapq.rest \in Nat
BY ToolHeadAssumption DEF ToolHeadState, Stretch

(* To follow is a preorder of the states of the toolhead.                  *)
LEMMA FollowsTwice ==
  ASSUME NEW t \in ToolHeadState, NEW u \in ToolHeadState,
         NEW v \in ToolHeadState, Follows(t, u), Follows(u, v)
  PROVE  Follows(t, v)
BY FieldTypes DEF Follows

-----------------------------------------------------------------------------
(* The time that is flushed.                                               *)

(* Steps are generated up to the time flushed, or a little further but not *)
(* beyond the print time.                                                  *)
LEMMA FlushTime ==
  ASSUME NEW t, Counted(t), NEW to \in Int, NEW u, u = AdvanceFlushTime(t, to)
  PROVE  /\ Counted(u) /\ SameMode(t, u) /\ SameFlush(t, u)
         /\ u.print_time = t.print_time
         /\ t.min_restart_time <= u.min_restart_time
         /\ t.last_flush_time <= u.last_flush_time /\ to <= u.last_flush_time
         /\ to <= t.print_time - t.kin_flush_delay /\ StepsDone(t) => StepsDone(u)
         /\ u.generated >= u.last_flush_time
<1> DEFINE
      flush == Later(to, t.last_flush_time)
      want  == Sooner(flush + STEPCOMPRESS_FLUSH_TIME,
                      t.print_time - t.kin_flush_delay)
      steps == Later(want, flush)
      a     == Later(t.generated, steps)
      b     == Later(t.min_restart_time, steps)
<1>t. /\ t \in ToolHeadState
      /\ t.print_time \in Nat /\ t.last_flush_time \in Nat
      /\ t.kin_flush_delay \in Nat
      /\ t.min_restart_time \in Nat /\ t.generated \in Nat
      /\ STEPCOMPRESS_FLUSH_TIME \in Nat
  BY FieldTypes, ConstantTypes DEF Counted
<1>1. /\ flush \in Nat /\ flush >= to /\ flush >= t.last_flush_time
      /\ flush = to \/ flush = t.last_flush_time
  BY <1>t DEF Later
<1>w. want \in Int /\ want <= t.print_time - t.kin_flush_delay
  <2> HIDE DEF flush
  <2> QED BY <1>t, <1>1 DEF Sooner
<1>2. /\ steps \in Nat /\ steps >= flush
      /\ steps = flush \/ steps <= t.print_time - t.kin_flush_delay
  <2> HIDE DEF flush, want
  <2> QED BY <1>t, <1>1, <1>w DEF Later
<1>3. a \in Nat /\ a >= steps /\ (a = t.generated \/ a = steps)
  <2> HIDE DEF steps
  <2> QED BY <1>t, <1>2 DEF Later
<1>4. /\ b \in Nat /\ b >= steps /\ b >= t.min_restart_time
      /\ b = t.min_restart_time \/ b = steps
  <2> HIDE DEF steps
  <2> QED BY <1>t, <1>2 DEF Later
<1>5. flush \in Nat /\ a \in Nat /\ b \in Nat
  BY <1>1, <1>3, <1>4
<1>f. u = [t EXCEPT !.last_flush_time = flush, !.generated = a,
                   !.min_restart_time = b]
  BY DEF AdvanceFlushTime
<1> HIDE DEF flush, want, steps, a, b
<1>6. /\ u \in ToolHeadState /\ u.last_flush_time = flush /\ u.generated = a
      /\ u.min_restart_time = b /\ u.print_time = t.print_time
      /\ SameMode(t, u) /\ SameFlush(t, u)
  <2>1. t \in ToolHeadState
    BY DEF Counted
  <2>2. u \in ToolHeadState
    BY <1>5, <1>f, <2>1 DEF ToolHeadState
  <2>3. /\ u.last_flush_time = flush /\ u.generated = a /\ u.min_restart_time = b
        /\ u.print_time = t.print_time
    BY <1>f, <2>1 DEF ToolHeadState
  <2>4. SameMode(t, u)
    BY <1>f, <2>1 DEF ToolHeadState, SameMode
  <2>5. SameFlush(t, u)
    BY <1>f, <2>1 DEF ToolHeadState, SameFlush
  <2> QED BY <2>2, <2>3, <2>4, <2>5
<1>7. Counted(u)
  BY <1>t, <1>1, <1>2, <1>3, <1>4, <1>6 DEF Counted
<1>8. ASSUME to <= t.print_time - t.kin_flush_delay, StepsDone(t)
      PROVE  StepsDone(u)
  BY <1>t, <1>1, <1>2, <1>4, <1>6, <1>8 DEF StepsDone, Counted, SameMode
<1> QED BY <1>t, <1>1, <1>2, <1>3, <1>4, <1>6, <1>7, <1>8

(* The print time goes on to the end of the moves.                         *)
LEMMA MoveTime ==
  ASSUME NEW t, Counted(t), NEW to \in Nat, NEW u, u = AdvanceMoveTime(t, to)
  PROVE  /\ Counted(u) /\ SameMode(t, u) /\ SameFlush(t, u)
         /\ u.print_time = Later(t.print_time, to)
         /\ u.print_time >= t.print_time /\ u.print_time >= to
         /\ t.min_restart_time <= u.min_restart_time
         /\ t.last_flush_time <= u.last_flush_time
         /\ StepsDone(t) => StepsDone(u)
<1> DEFINE print == Later(t.print_time, to)
           p     == [t EXCEPT !.print_time = print]
           upto  == print - t.kin_flush_delay - STEPCOMPRESS_FLUSH_TIME
<1>t. /\ t \in ToolHeadState /\ t.print_time \in Nat
      /\ t.kin_flush_delay \in Nat /\ t.min_restart_time \in Nat
      /\ STEPCOMPRESS_FLUSH_TIME \in Nat
  BY FieldTypes, ConstantTypes DEF Counted
<1>1. print \in Nat /\ print >= t.print_time /\ print >= to
  BY <1>t DEF Later
<1>2. u = AdvanceFlushTime(p, upto)
  BY DEF AdvanceMoveTime
<1> HIDE DEF print
<1>3. /\ p \in ToolHeadState /\ p.print_time = print
      /\ SameMode(t, p) /\ SameSteps(t, p) /\ SameFlush(t, p)
  BY <1>t, <1>1 DEF ToolHeadState, SameMode, SameSteps, SameFlush
<1> HIDE DEF p
<1>4. Counted(p) /\ (StepsDone(t) => StepsDone(p))
  BY <1>t, <1>1, <1>3 DEF Counted, StepsDone, SameMode, SameSteps
<1>5. upto \in Int /\ upto <= p.print_time - p.kin_flush_delay
  BY <1>t, <1>1, <1>3 DEF SameMode
<1> HIDE DEF upto
<1>6. /\ Counted(u) /\ SameMode(p, u) /\ SameFlush(p, u)
      /\ u.print_time = p.print_time
      /\ p.min_restart_time <= u.min_restart_time
      /\ p.last_flush_time <= u.last_flush_time
      /\ StepsDone(p) => StepsDone(u)
  BY <1>2, <1>4, <1>5, FlushTime
<1>7. SameMode(t, u) /\ SameFlush(t, u)
  BY <1>3, <1>6 DEF SameMode, SameFlush
<1> QED BY <1>1, <1>3, <1>4, <1>6, <1>7 DEF SameSteps, print

(* The print time is put ahead of the steps that have been generated.      *)
LEMMA PrintTime ==
  ASSUME NEW t, Counted(t), now \in Nat, NEW u, u = CalcPrintTime(t)
  PROVE  /\ Counted(u) /\ SameMode(t, u) /\ SameSteps(t, u) /\ SameFlush(t, u)
         /\ StepsDone(u) /\ t.print_time <= u.print_time
<1> DEFINE kin   == Later(now + MIN_KIN_TIME, t.min_restart_time)
                    + t.kin_flush_delay
           least == Later(now + BUFFER_TIME_START, kin)
<1>t. /\ t \in ToolHeadState /\ t.print_time \in Nat
      /\ t.kin_flush_delay \in Nat /\ t.min_restart_time \in Nat
      /\ MIN_KIN_TIME \in Nat /\ BUFFER_TIME_START \in Nat
  BY FieldTypes, ConstantTypes DEF Counted
<1>1. kin \in Nat /\ kin >= t.min_restart_time + t.kin_flush_delay
  BY <1>t DEF Later
<1>2. least \in Nat /\ least >= kin
  <2> HIDE DEF kin
  <2> QED BY <1>t, <1>1 DEF Later
<1>3. u = IF least > t.print_time
          THEN [t EXCEPT !.print_time = least, !.synced = least] ELSE t
  BY DEF CalcPrintTime
<1> HIDE DEF kin, least
<1>4. /\ u \in ToolHeadState
      /\ u.print_time = IF least > t.print_time THEN least ELSE t.print_time
      /\ SameMode(t, u) /\ SameSteps(t, u) /\ SameFlush(t, u)
  <2>1. CASE least > t.print_time
    <3>1. u = [t EXCEPT !.print_time = least, !.synced = least]
      BY <1>3, <2>1
    <3>2. u \in ToolHeadState /\ u.print_time = least
      BY <1>t, <1>2, <3>1 DEF ToolHeadState
    <3>3. SameMode(t, u)
      BY <1>t, <3>1 DEF ToolHeadState, SameMode
    <3>4. SameSteps(t, u)
      BY <1>t, <3>1 DEF ToolHeadState, SameSteps
    <3>5. SameFlush(t, u)
      BY <1>t, <3>1 DEF ToolHeadState, SameFlush
    <3> QED BY <2>1, <3>2, <3>3, <3>4, <3>5
  <2>2. CASE ~(least > t.print_time)
    BY <1>t, <1>3, <2>2 DEF SameMode, SameSteps, SameFlush
  <2> QED BY <2>1, <2>2
<1> QED BY <1>t, <1>1, <1>2, <1>4 DEF Counted, StepsDone, SameMode, SameSteps

-----------------------------------------------------------------------------
(* Moves get their print time.                                             *)

\* u differs from t in what is of no concern for flushing and for the order
\* of moves, or the toolhead is no longer in its main state.
Alike(t, u) ==
  /\ u \in ToolHeadState
  /\ SameSteps(t, u) /\ SameFlush(t, u)
  /\ u.print_time = t.print_time /\ u.kin_flush_delay = t.kin_flush_delay
  /\ u.trapq = t.trapq
  /\ \/ u.state = t.state
     \/ t.state # "Drip" /\ u.state \in {"NeedPrime", "Priming"}

LEMMA AlikeGood ==
  ASSUME NEW t, Good(t), NEW u, Alike(t, u)
  PROVE  Good(u) /\ Follows(t, u)
<1>t. /\ t \in ToolHeadState /\ t.print_time \in Nat
      /\ t.min_restart_time \in Nat
  BY FieldTypes DEF Good, Counted
<1>1. Counted(u) /\ Armed(u)
  BY DEF Good, Counted, Armed, Alike, SameSteps, SameFlush
<1>2. Follows(t, u)
  BY <1>t DEF Follows, Alike, SameSteps, SameFlush
<1>3. u.state \in {"main", "Drip"} => StepsDone(u)
  BY DEF Good, StepsDone, Alike, SameSteps
<1>4. u.state # "Drip" => u.trapq.end <= u.print_time
  BY DEF Good, Alike
<1> QED BY <1>1, <1>2, <1>3, <1>4 DEF Good

LEMMA ArmedStays ==
  ASSUME NEW t \in ToolHeadState, NEW u \in ToolHeadState, Armed(t),
         u.state = t.state \/ (t.state # "Drip" /\ u.state # "Drip"),
         SameFlush(t, u), t.last_flush_time <= u.last_flush_time
  PROVE  Armed(u)
BY FieldTypes DEF Armed, SameFlush

LEMMA Resync ==
  ASSUME NEW t, Counted(t), t.state = "main" => StepsDone(t), now \in Nat,
         NEW u, u = Resynced(t)
  PROVE  /\ Counted(u) /\ StepsDone(u) /\ SameSteps(t, u) /\ SameFlush(t, u)
         /\ u.kin_flush_delay = t.kin_flush_delay /\ u.queue = t.queue
         /\ u.trapq = t.trapq /\ t.print_time <= u.print_time
         /\ u.state = IF t.state = "Drip" THEN "Drip" ELSE "main"
<1>t. /\ t \in ToolHeadState /\ t.print_time \in Nat
      /\ t.state \in {"NeedPrime", "Priming", "main", "Drip"}
  BY FieldTypes DEF Counted
<1>1. CASE t.state = "main"
  <2>1. u = t
    BY <1>1 DEF Resynced
  <2> QED BY <1>t, <1>1, <2>1 DEF SameSteps, SameFlush
<1>2. CASE t.state = "Drip"
  <2>1. u = CalcPrintTime(t)
    BY <1>2 DEF Resynced
  <2> QED BY <1>2, <2>1, PrintTime DEF SameMode
<1>3. CASE t.state \in {"NeedPrime", "Priming"}
  <2> DEFINE v == -1
             m == [t EXCEPT !.state = "main", !.need_check_pause = v]
  <2>1. u = CalcPrintTime(m)
    BY <1>3 DEF Resynced
  <2>v. v \in Int \union {Never}
    OBVIOUS
  <2> HIDE DEF v
  <2>2. /\ m \in ToolHeadState /\ SameSteps(t, m) /\ SameFlush(t, m)
        /\ m.kin_flush_delay = t.kin_flush_delay /\ m.queue = t.queue
        /\ m.trapq = t.trapq /\ m.print_time = t.print_time
        /\ m.state = "main"
    BY <1>t, <2>v DEF ToolHeadState, SameSteps, SameFlush
  <2> HIDE DEF m
  <2>3. Counted(m)
    BY <2>2 DEF Counted, SameSteps
  <2>4. /\ Counted(u) /\ SameMode(m, u) /\ SameSteps(m, u) /\ SameFlush(m, u)
        /\ StepsDone(u) /\ m.print_time <= u.print_time
    BY <2>1, <2>3, PrintTime
  <2> QED BY <1>3, <2>2, <2>4 DEF SameMode, SameSteps, SameFlush
<1> QED BY <1>t, <1>1, <1>2, <1>3

LEMMA AppendedIs ==
  ASSUME NEW t, Counted(t), NEW d \in Nat, NEW u, u = Appended(t, d)
  PROVE  /\ Counted(u) /\ SameSteps(t, u) /\ SameFlush(t, u)
         /\ u.kin_flush_delay = t.kin_flush_delay /\ u.queue = t.queue
         /\ u.state = t.state /\ u.print_time = t.print_time
         /\ u.trapq.start = t.print_time /\ u.trapq.end = t.print_time + d
<1> DEFINE q == [start |-> t.print_time, end |-> t.print_time + d,
                 rest |-> t.print_time + d + t.kin_flush_delay]
<1>t. /\ t \in ToolHeadState /\ t.print_time \in Nat
      /\ t.kin_flush_delay \in Nat
  BY FieldTypes DEF Counted
<1>1. q \in Stretch /\ q.start = t.print_time /\ q.end = t.print_time + d
  BY <1>t DEF Stretch
<1>2. u = [t EXCEPT !.trapq = q]
  BY DEF Appended
<1> HIDE DEF q
<1>3. /\ u \in ToolHeadState /\ SameSteps(t, u) /\ SameFlush(t, u)
      /\ u.kin_flush_delay = t.kin_flush_delay /\ u.queue = t.queue
      /\ u.state = t.state /\ u.print_time = t.print_time /\ u.trapq = q
  BY <1>t, <1>1, <1>2 DEF ToolHeadState, SameSteps, SameFlush
<1> QED BY <1>1, <1>3 DEF Counted, SameSteps

(* Activity is noted: the flush timer is going to see it.                  *)
LEMMA Note ==
  ASSUME NEW t, Counted(t), Armed(t), now \in Nat, NEW time \in Nat,
         NEW u, u = NoteActivity(t, time)
  PROVE  /\ Counted(u) /\ Armed(u) /\ SameMode(t, u) /\ SameSteps(t, u)
         /\ u.print_time = t.print_time /\ ~u.do_kick
<1> DEFINE need == Later(t.need_flush_time, time)
           gen  == Later(t.step_gen_time, time)
           wake == IF t.do_kick THEN now ELSE t.flush_timer
<1>t. /\ t \in ToolHeadState /\ t.need_flush_time \in Nat
      /\ t.step_gen_time \in Nat /\ t.do_kick \in BOOLEAN
      /\ t.flush_timer \in Int \union {Never}
  BY FieldTypes DEF Counted
<1>1. need \in Nat /\ gen \in Nat
  BY <1>t DEF Later
<1>2. wake \in Int \union {Never}
  BY <1>t
<1> DEFINE no == FALSE
<1>3. u = [t EXCEPT !.need_flush_time = need, !.step_gen_time = gen,
                    !.do_kick = no, !.flush_timer = wake]
  BY DEF NoteActivity
<1>k. no \in BOOLEAN /\ ~no
  OBVIOUS
<1> HIDE DEF need, gen, wake, no
<1>4. /\ u \in ToolHeadState /\ SameMode(t, u) /\ SameSteps(t, u)
      /\ u.print_time = t.print_time /\ u.do_kick = no /\ u.flush_timer = wake
  <2>1. u \in ToolHeadState
    <3> DEFINE t1 == [t EXCEPT !.need_flush_time = need]
               t2 == [t1 EXCEPT !.step_gen_time = gen]
               t3 == [t2 EXCEPT !.do_kick = no]
    <3>1. t1 \in ToolHeadState
      BY <1>t, <1>1 DEF ToolHeadState
    <3> HIDE DEF t1
    <3>2. t2 \in ToolHeadState
      BY <1>1, <3>1 DEF ToolHeadState
    <3> HIDE DEF t2
    <3>3. t3 \in ToolHeadState
      BY <1>k, <3>2 DEF ToolHeadState
    <3> HIDE DEF t3
    <3>4. u = [t3 EXCEPT !.flush_timer = wake]
      BY <1>t, <1>3 DEF t1, t2, t3
    <3> QED  BY <1>2, <3>3, <3>4 DEF ToolHeadState
  <2>2. SameMode(t, u) /\ SameSteps(t, u) /\ u.print_time = t.print_time
    BY <1>t, <1>3 DEF ToolHeadState, SameMode, SameSteps
  <2>3. u.do_kick = no
    BY <1>t, <1>3 DEF ToolHeadState
  <2>4. u.flush_timer = wake
    BY <1>t, <1>3 DEF ToolHeadState
  <2> QED BY <2>1, <2>2, <2>3, <2>4
<1>5. Armed(u)
  <2>1. CASE t.do_kick
    BY <1>4, <1>k, <2>1, ConstantTypes DEF Armed, SameMode, wake
  <2>2. CASE ~t.do_kick
    BY <1>4, <1>k, <2>2 DEF Armed, SameMode, wake
  <2> QED BY <2>1, <2>2
<1> QED BY <1>4, <1>5, <1>k DEF Counted, SameSteps

(* Moves are appended after all that has been generated.                   *)
LEMMA Process ==
  ASSUME NEW t, Good(t), t.state # "Drip", now \in Nat, NEW d \in Nat,
         NEW u, u = ProcessMoves(t, d)
  PROVE  Good(u) /\ Follows(t, u) /\ u.state = "main" /\ u.queue = t.queue
<1> DEFINE r == Resynced(t)
           a == Appended(r, d)
           n == NoteActivity(a, a.trapq.rest)
<1>u. u = AdvanceMoveTime(n, a.trapq.end)
  BY DEF ProcessMoves
<1>r. /\ Counted(r) /\ StepsDone(r) /\ SameSteps(t, r) /\ SameFlush(t, r)
      /\ r.kin_flush_delay = t.kin_flush_delay /\ r.queue = t.queue
      /\ r.trapq = t.trapq /\ t.print_time <= r.print_time
      /\ r.state = "main"
  BY Resync DEF Good
<1> HIDE DEF r
<1>a. /\ Counted(a) /\ SameSteps(r, a) /\ SameFlush(r, a)
      /\ a.kin_flush_delay = r.kin_flush_delay /\ a.queue = r.queue
      /\ a.state = r.state /\ a.print_time = r.print_time
      /\ a.trapq.start = r.print_time /\ a.trapq.end = r.print_time + d
  BY <1>r, AppendedIs
<1> HIDE DEF a
<1>1. Armed(a)
  BY <1>r, <1>a DEF Good, Armed, SameSteps, SameFlush
<1>2. /\ a \in ToolHeadState /\ a.trapq.rest \in Nat /\ a.trapq.end \in Nat
      /\ r.print_time \in Nat /\ t.print_time \in Nat
      /\ t.min_restart_time \in Nat /\ t.kin_flush_delay \in Nat
  BY <1>r, <1>a, FieldTypes DEF Counted, Good
<1>n. /\ Counted(n) /\ Armed(n) /\ SameMode(a, n) /\ SameSteps(a, n)
      /\ n.print_time = a.print_time /\ ~n.do_kick
  BY <1>a, <1>1, <1>2, Note
<1> HIDE DEF n
<1>3. StepsDone(n)
  BY <1>r, <1>a, <1>n DEF StepsDone, SameSteps, SameMode
<1>4. /\ Counted(u) /\ SameMode(n, u) /\ SameFlush(n, u)
      /\ u.print_time >= n.print_time /\ u.print_time >= a.trapq.end
      /\ n.min_restart_time <= u.min_restart_time
      /\ n.last_flush_time <= u.last_flush_time
      /\ StepsDone(u)
  BY <1>u, <1>2, <1>n, <1>3, MoveTime
<1>5. Armed(u)
  BY <1>n, <1>4, ArmedStays DEF Counted, SameMode
<1>6. u.state = "main" /\ u.queue = t.queue /\ u.trapq = a.trapq
  BY <1>r, <1>a, <1>n, <1>4 DEF SameMode
<1>7. Good(u)
  BY <1>4, <1>5, <1>6 DEF Good
<1>8. t.min_restart_time + t.kin_flush_delay <= r.print_time
  BY <1>r DEF StepsDone, SameSteps
<1>9. /\ u.kin_flush_delay = t.kin_flush_delay
      /\ u.trapq.start = r.print_time
      /\ t.min_restart_time <= u.min_restart_time /\ ~u.do_kick
  BY <1>r, <1>a, <1>n, <1>4, <1>6 DEF SameMode, SameSteps, SameFlush
<1>10. t.print_time <= u.print_time
  <2>1. u.print_time \in Nat
    BY <1>4, FieldTypes DEF Counted
  <2> QED BY <1>r, <1>a, <1>n, <1>2, <1>4, <2>1
<1> QED BY <1>r, <1>6, <1>7, <1>8, <1>9, <1>10 DEF Follows

-----------------------------------------------------------------------------
(* Flushing.                                                               *)

LEMMA GoesOn ==
  ASSUME NEW t, Good(t), NEW u, Good(u), Follows(t, u), NEW v, Alike(u, v)
  PROVE  Good(v) /\ Follows(t, v)
<1>1. Good(v) /\ Follows(u, v)
  BY AlikeGood
<1> QED BY <1>1, FollowsTwice DEF Good, Counted

LEMMA Flushes ==
  ASSUME NEW t, Good(t), t.state # "Drip", now \in Nat, NEW u, u = Flush(t)
  PROVE  Good(u) /\ Follows(t, u) /\ u.queue = 0 /\ u.state # "Drip"
<1> DEFINE f == [t EXCEPT !.junction_flush = LOOKAHEAD_FLUSH_TIME, !.queue = 0]
<1>1. t \in ToolHeadState /\ LOOKAHEAD_FLUSH_TIME \in Int
  BY ConstantTypes DEF Good, Counted
<1>2. Alike(t, f) /\ f.queue = 0 /\ f.state = t.state
  BY <1>1 DEF Alike, ToolHeadState, SameSteps, SameFlush
<1>3. u = IF t.queue = 0 THEN f ELSE ProcessMoves(f, t.queue)
  BY DEF Flush
<1> HIDE DEF f
<1>4. Good(f) /\ Follows(t, f)
  BY <1>2, AlikeGood
<1>5. CASE t.queue = 0
  BY <1>2, <1>3, <1>4, <1>5
<1>6. CASE t.queue # 0
  <2>1. t.queue \in Nat /\ u = ProcessMoves(f, t.queue)
    BY <1>1, <1>3, <1>6, FieldTypes
  <2>2. Good(u) /\ Follows(f, u) /\ u.state = "main" /\ u.queue = f.queue
    BY <1>2, <1>4, <2>1, Process
  <2>3. Follows(t, u)
    BY <1>4, <2>2, FollowsTwice DEF Good, Counted
  <2> QED BY <1>2, <2>2, <2>3
<1> QED BY <1>5, <1>6

LEMMA LookaheadFlushes ==
  ASSUME NEW t, Good(t), t.state # "Drip", now \in Nat,
         NEW u, u = FlushLookahead(t)
  PROVE  Good(u) /\ Follows(t, u) /\ u.queue = 0 /\ u.state = "NeedPrime"
<1> DEFINE f == Flush(t)
           v == -1
<1>1. Good(f) /\ Follows(t, f) /\ f.queue = 0 /\ f.state # "Drip"
  BY Flushes
<1>2. u = [f EXCEPT !.state = "NeedPrime", !.need_check_pause = v,
                    !.junction_flush = BUFFER_TIME_HIGH]
  BY DEF FlushLookahead
<1>3. v \in Int \union {Never} /\ BUFFER_TIME_HIGH \in Int
  BY ConstantTypes
<1> HIDE DEF f, v
<1>4. f \in ToolHeadState
  BY <1>1 DEF Good, Counted
<1>5. Alike(f, u) /\ u.queue = 0 /\ u.state = "NeedPrime"
  <2>1. u \in ToolHeadState
    BY <1>2, <1>3, <1>4 DEF ToolHeadState
  <2>2. /\ u.queue = f.queue /\ u.state = "NeedPrime" /\ u.print_time = f.print_time
        /\ u.kin_flush_delay = f.kin_flush_delay /\ u.trapq = f.trapq
    BY <1>2, <1>4 DEF ToolHeadState
  <2>3. SameSteps(f, u)
    BY <1>2, <1>4 DEF ToolHeadState, SameSteps
  <2>4. SameFlush(f, u)
    BY <1>2, <1>4 DEF ToolHeadState, SameFlush
  <2> QED BY <1>1, <2>1, <2>2, <2>3, <2>4 DEF Alike
<1> QED BY <1>1, <1>5, GoesOn

(* What flush_step_generation does after the lookahead queue is flushed.   *)
LEMMA StepsGenerated ==
  ASSUME NEW f, Good(f), f.state = "NeedPrime", NEW u,
         u = [AdvanceFlushTime(f, f.step_gen_time)
                EXCEPT !.min_restart_time = Later(@, f.print_time)]
  PROVE  /\ Good(u) /\ Follows(f, u) /\ u.state = "NeedPrime"
         /\ u.queue = f.queue /\ u.trapq = f.trapq
<1> DEFINE a == AdvanceFlushTime(f, f.step_gen_time)
           m == Later(a.min_restart_time, f.print_time)
<1>1. /\ f \in ToolHeadState /\ f.step_gen_time \in Int
      /\ f.print_time \in Nat /\ f.min_restart_time \in Nat
  BY FieldTypes DEF Good, Counted
<1>2. /\ Counted(a) /\ SameMode(f, a) /\ SameFlush(f, a)
      /\ a.print_time = f.print_time
      /\ f.min_restart_time <= a.min_restart_time
      /\ f.last_flush_time <= a.last_flush_time
  BY <1>1, FlushTime DEF Good
<1>3. u = [a EXCEPT !.min_restart_time = m]
  OBVIOUS
<1> HIDE DEF a
<1>4. /\ a \in ToolHeadState /\ a.min_restart_time \in Nat
      /\ a.last_flush_time \in Nat /\ a.generated \in Nat
  BY <1>2, FieldTypes DEF Counted
<1>5. m \in Nat /\ m >= a.min_restart_time
  BY <1>1, <1>4 DEF Later
<1> HIDE DEF m
<1>6. /\ u \in ToolHeadState /\ SameMode(a, u) /\ SameFlush(a, u)
      /\ u.print_time = a.print_time /\ u.min_restart_time = m
      /\ u.generated = a.generated /\ u.last_flush_time = a.last_flush_time
  BY <1>3, <1>4, <1>5 DEF ToolHeadState, SameMode, SameFlush
<1>7. Counted(u)
  BY <1>2, <1>4, <1>5, <1>6 DEF Counted
<1>8. SameMode(f, u) /\ SameFlush(f, u) /\ u.print_time = f.print_time
  BY <1>2, <1>6 DEF SameMode, SameFlush
<1>9. Armed(u)
  BY <1>1, <1>2, <1>6, <1>8, ArmedStays DEF Good, SameMode
<1>10. Follows(f, u)
  BY <1>1, <1>2, <1>4, <1>5, <1>6, <1>8 DEF Follows, SameMode, SameFlush
<1> QED BY <1>7, <1>8, <1>9, <1>10 DEF Good, SameMode

LEMMA StepGeneration ==
  ASSUME NEW t, Good(t), t.state # "Drip", now \in Nat,
         NEW u, u = FlushStepGeneration(t)
  PROVE  Good(u) /\ Follows(t, u) /\ u.queue = 0 /\ u.state = "NeedPrime"
<1> DEFINE f == FlushLookahead(t)
<1>1. Good(f) /\ Follows(t, f) /\ f.queue = 0 /\ f.state = "NeedPrime"
  BY LookaheadFlushes
<1>2. u = [AdvanceFlushTime(f, f.step_gen_time)
             EXCEPT !.min_restart_time = Later(@, f.print_time)]
  BY DEF FlushStepGeneration
<1> HIDE DEF f
<1>3. Good(u) /\ Follows(f, u) /\ u.state = "NeedPrime" /\ u.queue = f.queue
  BY <1>1, <1>2, StepsGenerated
<1> QED BY <1>1, <1>3, FollowsTwice DEF Good, Counted

LEMMA LastMove ==
  ASSUME NEW t, Good(t), t.state # "Drip", now \in Nat,
         NEW u, u = LastMoveTime(t)
  PROVE  Good(u) /\ Follows(t, u) /\ u.queue = 0 /\ u.state # "Drip"
<1>1. CASE t.state = "main"
  BY <1>1, Flushes DEF LastMoveTime
<1>2. CASE t.state # "main"
  <2> DEFINE f == FlushLookahead(t)
  <2>1. Good(f) /\ Follows(t, f) /\ f.queue = 0 /\ f.state = "NeedPrime"
    BY LookaheadFlushes
  <2>2. u = CalcPrintTime(f)
    BY <1>2 DEF LastMoveTime
  <2> HIDE DEF f
  <2>3. /\ Counted(u) /\ SameMode(f, u) /\ SameSteps(f, u) /\ SameFlush(f, u)
        /\ StepsDone(u) /\ f.print_time <= u.print_time
    BY <2>1, <2>2, PrintTime DEF Good
  <2>4. /\ f \in ToolHeadState /\ u \in ToolHeadState
        /\ f.print_time \in Nat /\ u.print_time \in Nat
        /\ f.min_restart_time \in Nat /\ f.last_flush_time \in Nat
        /\ f.trapq.end \in Nat
    BY <2>1, <2>3, FieldTypes DEF Good, Counted
  <2>5. Armed(u)
    BY <2>1, <2>3, <2>4, ArmedStays DEF Good, SameMode, SameSteps
  <2>6. Good(u)
    BY <2>1, <2>3, <2>4, <2>5 DEF Good, SameMode
  <2>7. Follows(f, u)
    BY <2>3, <2>4 DEF Follows, SameMode, SameSteps, SameFlush
  <2> QED BY <2>1, <2>3, <2>4, <2>6, <2>7, FollowsTwice
          DEF SameMode, Good, Counted
<1> QED BY <1>1, <1>2

LEMMA Dwells ==
  ASSUME NEW t, Good(t), t.state # "Drip", now \in Nat, NEW d \in Nat,
         NEW u, u = Dwelt(t, d)
  PROVE  Good(u) /\ Follows(t, u) /\ u.queue = 0 /\ u.state # "Drip"
<1> DEFINE l == LastMoveTime(t)
           to == l.print_time + d
<1>1. Good(l) /\ Follows(t, l) /\ l.queue = 0 /\ l.state # "Drip"
  BY LastMove
<1>2. u = AdvanceMoveTime(l, to)
  BY DEF Dwelt
<1> HIDE DEF l
<1>3. /\ l \in ToolHeadState /\ l.print_time \in Nat
      /\ l.min_restart_time \in Nat /\ l.trapq.end \in Nat
  BY <1>1, FieldTypes DEF Good, Counted
<1>4. to \in Nat
  BY <1>3
<1> HIDE DEF to
<1>5. /\ Counted(u) /\ SameMode(l, u) /\ SameFlush(l, u)
      /\ u.print_time >= l.print_time
      /\ l.min_restart_time <= u.min_restart_time
      /\ l.last_flush_time <= u.last_flush_time
      /\ StepsDone(l) => StepsDone(u)
  BY <1>1, <1>2, <1>4, MoveTime DEF Good
<1>6. u \in ToolHeadState /\ u.print_time \in Nat
  BY <1>5, FieldTypes DEF Counted
<1>7. Armed(u)
  BY <1>1, <1>3, <1>5, <1>6, ArmedStays DEF Good, SameMode
<1>8. Good(u)
  BY <1>1, <1>3, <1>5, <1>6, <1>7 DEF Good, SameMode
<1>9. Follows(l, u)
  BY <1>3, <1>5, <1>6 DEF Follows, SameMode, SameFlush
<1> QED BY <1>1, <1>3, <1>5, <1>6, <1>8, <1>9, FollowsTwice
        DEF SameMode, Good, Counted

(* A move is added to the lookahead queue, and some may leave it.          *)
LEMMA Adds ==
  ASSUME NEW t, Good(t), t.state # "Drip", now \in Nat, NEW d \in Nat,
         NEW u \in Added(t, d)
  PROVE  Good(u) /\ Follows(t, u) /\ u.state # "Drip"
<1>1. t \in ToolHeadState /\ t.queue \in Nat /\ t.junction_flush \in Int
  BY FieldTypes DEF Good, Counted
<1>2. CASE t.queue = 0
  <2>1. u = [t EXCEPT !.queue = d]
    BY <1>2 DEF Added
  <2>2. Alike(t, u) /\ u.state = t.state
    BY <1>1, <2>1 DEF Alike, ToolHeadState, SameSteps, SameFlush
  <2> QED BY <2>2, AlikeGood
<1>3. CASE t.queue # 0 /\ t.junction_flush > d
  <2> DEFINE q == t.queue + d
             j == t.junction_flush - d
  <2>1. u = [t EXCEPT !.queue = q, !.junction_flush = j]
    BY <1>3 DEF Added
  <2>2. q \in Nat /\ j \in Int
    BY <1>1
  <2> HIDE DEF q, j
  <2>3. Alike(t, u) /\ u.state = t.state
    BY <1>1, <2>1, <2>2 DEF Alike, ToolHeadState, SameSteps, SameFlush
  <2> QED BY <2>3, AlikeGood
<1>4. CASE t.queue # 0 /\ ~(t.junction_flush > d)
  <2> DEFINE f == [t EXCEPT !.junction_flush = LOOKAHEAD_FLUSH_TIME]
             g(q) == [f EXCEPT !.queue = q]
  <2>1. f \in ToolHeadState /\ f.queue = t.queue
    BY <1>1, ConstantTypes DEF ToolHeadState
  <2>2. \A q \in Nat : Alike(t, g(q)) /\ g(q).state = t.state
    <3>1. Alike(t, f) /\ f.state = t.state
      BY <1>1, ConstantTypes DEF Alike, ToolHeadState, SameSteps, SameFlush
    <3> HIDE DEF f
    <3> TAKE q \in Nat
    <3>2. Alike(f, g(q)) /\ g(q).state = f.state
      BY <2>1 DEF Alike, ToolHeadState, SameSteps, SameFlush
    <3> QED BY <3>1, <3>2 DEF Alike, SameSteps, SameFlush
  <2>3. u = g(f.queue + d) \/ \E p \in 1..t.queue :
                                u = ProcessMoves(g(f.queue + d - p), p)
    BY <1>4 DEF Added
  <2> HIDE DEF f, g
  <2>4. CASE u = g(f.queue + d)
    <3>1. f.queue + d \in Nat
      BY <1>1, <2>1
    <3> QED BY <2>2, <2>4, <3>1, AlikeGood
  <2>5. ASSUME NEW p \in 1..t.queue, u = ProcessMoves(g(f.queue + d - p), p)
        PROVE  Good(u) /\ Follows(t, u) /\ u.state # "Drip"
    <3> DEFINE q == f.queue + d - p
    <3>1. q \in Nat /\ p \in Nat /\ u = ProcessMoves(g(q), p)
      BY <1>1, <2>1, <2>5
    <3> HIDE DEF q
    <3>2. Good(g(q)) /\ Follows(t, g(q)) /\ g(q).state # "Drip"
      BY <2>2, <3>1, AlikeGood
    <3>3. Good(u) /\ Follows(g(q), u) /\ u.state = "main"
      BY <3>1, <3>2, Process
    <3> QED BY <3>2, <3>3, FollowsTwice DEF Good, Counted
  <2> QED BY <2>3, <2>4, <2>5
<1> QED BY <1>1, <1>2, <1>3, <1>4

-----------------------------------------------------------------------------
(* The end of a command.                                                   *)

GreenletState == [at : {"idle", "pause", "wait", "drip"}, wake : Int, drip : Nat]

Ordered(t, u) ==
  u.trapq.start # t.trapq.start =>
    /\ u.trapq.start >= t.trapq.end
    /\ u.trapq.start >= t.generated + t.kin_flush_delay

\* What a step that leaves the toolhead in a good state does.
GoodStep == /\ Good(th') /\ Ordered(th, th') /\ DripState'
            /\ greenlet' \in GreenletState /\ completed' \in BOOLEAN

\* A command that has come to t ends or waits.
Ends(t) == /\ Good(th') /\ Follows(t, th') /\ DripState'
           /\ greenlet' \in GreenletState /\ completed' \in BOOLEAN

LEMMA FollowsOrdered ==
  ASSUME NEW t, Good(t), t.state # "Drip", NEW u, Counted(u), Follows(t, u)
  PROVE  Ordered(t, u)
BY FieldTypes DEF Good, Counted, Follows, Ordered

LEMMA IdleIs == Idle \in GreenletState /\ Idle.at = "idle"
BY DEF Idle, GreenletState

(* The drip mode ends: everything is flushed and the timer is armed.       *)
LEMMA DripEnds ==
  ASSUME NEW t, Counted(t), t.state = "Drip", t.queue = 0, ~t.do_kick,
         t.trapq.end <= t.print_time, now \in Nat, NEW u, u = DripEnded(t)
  PROVE  /\ Good(u) /\ Follows(t, u) /\ u.state = "NeedPrime"
         /\ u.trapq = t.trapq
<1> DEFINE x == [t EXCEPT !.flush_timer = now]
           f == FlushLookahead(x)
           l == [x EXCEPT !.junction_flush = LOOKAHEAD_FLUSH_TIME, !.queue = 0]
           v == -1
<1>t. /\ t \in ToolHeadState /\ now \in Int /\ now \in Int \union {Never}
      /\ LOOKAHEAD_FLUSH_TIME \in Int /\ BUFFER_TIME_HIGH \in Int
      /\ v \in Int \union {Never}
  BY ConstantTypes DEF Counted
<1>1. /\ x \in ToolHeadState /\ SameMode(t, x) /\ SameSteps(t, x)
      /\ x.print_time = t.print_time /\ x.flush_timer = now
      /\ x.do_kick = t.do_kick
  BY <1>t DEF ToolHeadState, SameMode, SameSteps
<1>2. f = [Flush(x) EXCEPT !.state = "NeedPrime", !.need_check_pause = v,
                           !.junction_flush = BUFFER_TIME_HIGH]
  BY DEF FlushLookahead
<1>u. u = [AdvanceFlushTime(f, f.step_gen_time)
             EXCEPT !.min_restart_time = Later(@, f.print_time)]
  BY DEF DripEnded, FlushStepGeneration
<1>3. Flush(x) = l
  <2>1. x.queue = 0
    BY <1>1 DEF SameMode
  <2> QED BY <2>1 DEF Flush
<1> HIDE DEF x, f, v
<1>4. /\ l \in ToolHeadState /\ SameSteps(x, l) /\ SameFlush(x, l)
      /\ l.kin_flush_delay = x.kin_flush_delay /\ l.trapq = x.trapq
      /\ l.print_time = x.print_time
  BY <1>t, <1>1 DEF ToolHeadState, SameSteps, SameFlush
<1> HIDE DEF l
<1>5. /\ f \in ToolHeadState /\ SameSteps(l, f) /\ SameFlush(l, f)
      /\ f.kin_flush_delay = l.kin_flush_delay /\ f.trapq = l.trapq
      /\ f.print_time = l.print_time /\ f.state = "NeedPrime"
  BY <1>t, <1>2, <1>3, <1>4 DEF ToolHeadState, SameSteps, SameFlush
<1>6. /\ SameSteps(t, f) /\ f.kin_flush_delay = t.kin_flush_delay
      /\ f.trapq = t.trapq /\ f.print_time = t.print_time
      /\ ~f.do_kick /\ f.flush_timer = now
  BY <1>1, <1>4, <1>5 DEF SameSteps, SameFlush, SameMode
<1>7. Armed(f)
  BY <1>5, <1>6, <1>t, ConstantTypes DEF Armed
<1>8. Good(f)
  BY <1>5, <1>6, <1>7 DEF Good, Counted, SameSteps
<1>9. Follows(t, f)
  BY <1>6, <1>t, FieldTypes DEF Follows, SameSteps
<1>10. /\ Good(u) /\ Follows(f, u) /\ u.state = "NeedPrime"
       /\ u.trapq = f.trapq
  BY <1>u, <1>5, <1>8, StepsGenerated
<1> QED BY <1>5, <1>6, <1>9, <1>10, <1>t, FollowsTwice DEF Good, Counted

(* The drip mode begins, or the move is refused.                           *)
LEMMA DripBegins ==
  ASSUME NEW t, Good(t), t.state # "Drip", now \in Nat, completed \in BOOLEAN,
         NEW d \in Nat, BeginDrip(t, d)
  PROVE  Ends(t)
<1> DEFINE l == Flush(t)
           no == FALSE
           f == [l EXCEPT !.state = "Drip", !.need_check_pause = Never,
                          !.flush_timer = Never, !.do_kick = no,
                          !.junction_flush = BUFFER_TIME_HIGH]
           r == Resynced(f)
           a == Appended(r, d)
<1>l. Good(l) /\ Follows(t, l) /\ l.queue = 0 /\ l.state # "Drip"
  BY Flushes
<1>n. no \in BOOLEAN /\ ~no
  OBVIOUS
<1>b. \/ /\ th' = DripEnded(f) /\ greenlet' = Idle /\ completed' = completed
      \/ /\ th' = [a EXCEPT !.queue = d,
                            !.junction_flush = LOOKAHEAD_FLUSH_TIME]
         /\ greenlet' = [at |-> "drip", wake |-> now, drip |-> a.trapq.end]
         /\ completed' = FALSE
  BY DEF BeginDrip
<1> HIDE DEF l, no
<1>t. l \in ToolHeadState /\ BUFFER_TIME_HIGH \in Int
      /\ LOOKAHEAD_FLUSH_TIME \in Int /\ l.print_time \in Nat
      /\ l.min_restart_time \in Nat /\ l.kin_flush_delay \in Nat
  BY <1>l, ConstantTypes, FieldTypes DEF Good, Counted
<1>1. /\ f \in ToolHeadState /\ SameSteps(l, f) /\ f.print_time = l.print_time
      /\ f.kin_flush_delay = l.kin_flush_delay /\ f.trapq = l.trapq
      /\ f.queue = l.queue /\ f.state = "Drip"
  BY <1>t, <1>n DEF ToolHeadState, SameSteps
<1>2. f.flush_timer = Never /\ f.do_kick = no
  BY <1>t, <1>n DEF ToolHeadState
<1> HIDE DEF f
<1>3. Counted(f) /\ f.trapq.end <= f.print_time
  BY <1>l, <1>1 DEF Good, Counted, SameSteps
<1>4. Follows(l, f)
  BY <1>1, <1>2, <1>n, <1>t DEF Follows, SameSteps
<1>5. Follows(t, f)
  BY <1>l, <1>1, <1>4, FollowsTwice DEF Good, Counted
<1>6. CASE th' = DripEnded(f) /\ greenlet' = Idle /\ completed' = completed
  <2>1. Good(th') /\ Follows(f, th') /\ th'.state = "NeedPrime"
    BY <1>1, <1>2, <1>3, <1>6, <1>l, <1>n, DripEnds
  <2>2. Follows(t, th')
    BY <1>1, <1>5, <2>1, FollowsTwice DEF Good, Counted
  <2> QED BY <1>6, <2>1, <2>2, IdleIs DEF Ends, DripState
<1>7. CASE /\ th' = [a EXCEPT !.queue = d,
                              !.junction_flush = LOOKAHEAD_FLUSH_TIME]
           /\ greenlet' = [at |-> "drip", wake |-> now, drip |-> a.trapq.end]
           /\ completed' = FALSE
  <2>1. /\ Counted(r) /\ StepsDone(r) /\ SameSteps(f, r) /\ SameFlush(f, r)
        /\ r.kin_flush_delay = f.kin_flush_delay
        /\ f.print_time <= r.print_time /\ r.state = "Drip"
    BY <1>1, <1>3, Resync
  <2> HIDE DEF r
  <2>2. /\ Counted(a) /\ SameSteps(r, a) /\ SameFlush(r, a)
        /\ a.kin_flush_delay = r.kin_flush_delay /\ a.state = r.state
        /\ a.print_time = r.print_time /\ a.trapq.start = r.print_time
    BY <2>1, AppendedIs
  <2> HIDE DEF a
  <2>3. a \in ToolHeadState /\ a.trapq.end \in Nat
    BY <2>2, FieldTypes DEF Counted
  <2>4. /\ th' \in ToolHeadState /\ SameSteps(a, th') /\ SameFlush(a, th')
        /\ th'.kin_flush_delay = a.kin_flush_delay /\ th'.state = a.state
        /\ th'.print_time = a.print_time /\ th'.trapq = a.trapq
    BY <1>7, <1>t, <2>3 DEF ToolHeadState, SameSteps, SameFlush
  <2>5. SameSteps(f, th') /\ SameFlush(f, th') /\ th'.state = "Drip"
    BY <2>1, <2>2, <2>4 DEF SameSteps, SameFlush
  <2>6. Counted(th') /\ Armed(th')
    BY <1>2, <1>3, <1>n, <2>4, <2>5 DEF Counted, SameSteps, SameFlush, Armed
  <2>7. StepsDone(th')
    BY <2>1, <2>2, <2>4 DEF StepsDone, SameSteps
  <2>8. Follows(f, th')
    BY <1>1, <1>t, <2>1, <2>2, <2>4, <2>5
       DEF Follows, SameSteps, SameFlush, StepsDone
  <2>9. Follows(t, th')
    BY <1>1, <1>5, <2>4, <2>8, FollowsTwice DEF Good, Counted
  <2>10. /\ greenlet' \in GreenletState /\ greenlet'.at = "drip"
         /\ greenlet'.drip = a.trapq.end
    BY <1>7, <2>3 DEF GreenletState
  <2>11. DripState'
    BY <2>4, <2>5, <2>10 DEF DripState
  <2>12. completed' \in BOOLEAN
    BY <1>7
  <2> QED BY <2>5, <2>6, <2>7, <2>9, <2>10, <2>11, <2>12 DEF Ends, Good
<1> QED BY <1>b, <1>6, <1>7

LEMMA Continues ==
  ASSUME NEW t, Good(t), t.state # "Drip", now \in Nat, completed \in BOOLEAN,
         NEW d \in Nat, Continue(t, d)
  PROVE  Ends(t)
<1>1. CASE d = 0
  <2>1. th' = t /\ greenlet' = Idle /\ completed' = completed
    BY <1>1 DEF Continue
  <2>2. Follows(t, t)
    BY FieldTypes DEF Follows, Good, Counted
  <2> QED BY <2>1, <2>2, IdleIs DEF Ends, DripState
<1>2. CASE d # 0
  BY <1>2, DripBegins DEF Continue
<1> QED BY <1>1, <1>2

LEMMA PauseLoops ==
  ASSUME NEW t, Good(t), t.state # "Drip", now \in Nat, completed \in BOOLEAN,
         NEW d \in Nat, PauseLoop(t, d)
  PROVE  Ends(t)
<1> DEFINE ahead == t.print_time - now - BUFFER_TIME_HIGH
           due   == now + BUFFER_TIME_HIGH + TENTH
           p(x)  == [t EXCEPT !.need_check_pause = x]
<1>t. /\ t \in ToolHeadState /\ t.print_time \in Nat /\ SECOND \in Nat
      /\ BUFFER_TIME_HIGH \in Nat /\ TENTH \in Nat
  BY FieldTypes, ConstantTypes DEF Good, Counted
<1>1. /\ ahead \in Int /\ due \in Int /\ due \in Int \union {Never}
      /\ Never \in Int \union {Never}
  BY <1>t
<1>2. ASSUME NEW x \in Int \union {Never}, Continue(p(x), d)
      PROVE  Ends(t)
  <2>1. Alike(t, p(x)) /\ p(x).state = t.state
    BY <1>t DEF Alike, ToolHeadState, SameSteps, SameFlush
  <2> HIDE DEF p
  <2>2. Good(p(x)) /\ Follows(t, p(x))
    BY <2>1, AlikeGood
  <2>3. Ends(p(x))
    BY <1>2, <2>1, <2>2, Continues
  <2> QED BY <2>2, <2>3, FollowsTwice DEF Ends, Good, Counted
<1>3. CASE ahead <= 0 /\ Continue(IF t.state = "main" THEN p(due) ELSE t, d)
  <2>1. CASE t.state = "main"
    BY <1>1, <1>2, <1>3, <2>1
  <2>2. CASE t.state # "main"
    BY <1>3, <2>2, Continues
  <2> QED BY <2>1, <2>2
<1>4. CASE Continue(p(Never), d)
  BY <1>1, <1>2, <1>4
<1>5. CASE /\ th' = t /\ completed' = completed
           /\ greenlet' = [at |-> "pause", wake |-> now + Sooner(SECOND, ahead),
                           drip |-> d]
  <2> DEFINE wake == now + Sooner(SECOND, ahead)
  <2>1. wake \in Int
    BY <1>t, <1>1 DEF Sooner
  <2>2. greenlet' = [at |-> "pause", wake |-> wake, drip |-> d]
    BY <1>5
  <2> HIDE DEF wake
  <2>3. greenlet' \in GreenletState /\ greenlet'.at = "pause"
    BY <2>1, <2>2 DEF GreenletState
  <2>4. Follows(t, t)
    BY FieldTypes DEF Follows, Good, Counted
  <2> QED BY <1>5, <2>3, <2>4 DEF Ends, DripState
<1> QED BY <1>3, <1>4, <1>5 DEF PauseLoop

LEMMA ChecksPause ==
  ASSUME NEW t, Good(t), t.state # "Drip", now \in Nat, completed \in BOOLEAN,
         NEW d \in Nat, CheckPause(t, d)
  PROVE  Ends(t)
<1> DEFINE p == Primed(t)
<1>1. PauseLoop(p, d)
  BY DEF CheckPause
<1>2. CASE t.state = "main"
  BY <1>1, <1>2, PauseLoops DEF Primed
<1>3. CASE t.state # "main"
  <2> DEFINE v == -1
             wake == now + Later(TENTH, t.print_time - now - BUFFER_TIME_LOW)
  <2>1. p = [t EXCEPT !.state = "Priming", !.need_check_pause = v,
                      !.priming_timer = wake]
    BY <1>3 DEF Primed
  <2>2. t \in ToolHeadState /\ t.print_time \in Nat
    BY FieldTypes DEF Good, Counted
  <2>3. v \in Int \union {Never} /\ wake \in Int \union {Never}
    BY <2>2, ConstantTypes DEF Later
  <2> HIDE DEF p, v, wake
  <2>4. Alike(t, p) /\ p.state = "Priming"
    BY <2>1, <2>2, <2>3 DEF Alike, ToolHeadState, SameSteps, SameFlush
  <2>5. Good(p) /\ Follows(t, p)
    BY <2>4, AlikeGood
  <2>6. Ends(p)
    BY <1>1, <2>4, <2>5, PauseLoops
  <2> QED BY <2>5, <2>6, FollowsTwice DEF Ends, Good, Counted
<1> QED BY <1>2, <1>3

-----------------------------------------------------------------------------
(* The steps of the specification.                                         *)

LEMMA NothingTold ==
  ASSUME IInv
  PROVE  /\ Good(TH) /\ Follows(th, TH) /\ Alike(th, TH) /\ SameMode(th, TH)
         /\ SameSteps(th, TH) /\ SameFlush(th, TH) /\ TH \in ToolHeadState
         /\ TH.print_time = th.print_time
<1>1. th \in ToolHeadState
  BY DEF IInv, Good, Counted
<1>2. /\ Alike(th, TH) /\ SameMode(th, TH) /\ SameSteps(th, TH)
      /\ SameFlush(th, TH)
  BY <1>1 DEF TH, Alike, ToolHeadState, SameMode, SameSteps, SameFlush
<1> HIDE DEF TH
<1>3. Good(TH) /\ Follows(th, TH)
  BY <1>2, AlikeGood DEF IInv
<1> QED BY <1>2, <1>3 DEF Alike

LEMMA Typed ==
  ASSUME IInv
  PROVE  /\ now \in Nat /\ now \in Int /\ greenlet \in GreenletState
         /\ greenlet.wake \in Int /\ greenlet.drip \in Nat
         /\ completed \in BOOLEAN /\ given \in 0..MaxCommands
         /\ \A d \in Durations : d \in Nat
         /\ \A d \in Delays : d \in Nat
<1>1. /\ now \in Nat /\ greenlet \in GreenletState /\ completed \in BOOLEAN
      /\ given \in 0..MaxCommands
  BY DEF IInv, TypeOK, GreenletState
<1>2. greenlet.wake \in Int /\ greenlet.drip \in Nat
  BY <1>1 DEF GreenletState
<1> QED BY <1>1, <1>2, ToolHeadAssumption

LEMMA AtIdle ==
  ASSUME IInv, greenlet.at # "drip"
  PROVE  th.state # "Drip" /\ TH.state # "Drip"
BY NothingTold DEF IInv, DripState, SameMode

(* A step from a toolhead that is not dripping.                            *)
LEMMA EndsGood ==
  ASSUME IInv, th.state # "Drip", NEW t, t \in ToolHeadState, Follows(th, t),
         Ends(t)
  PROVE  GoodStep
<1>1. th \in ToolHeadState /\ th' \in ToolHeadState
  BY DEF IInv, Ends, Good, Counted
<1>2. Follows(th, th')
  BY <1>1, FollowsTwice DEF Ends
<1>3. Ordered(th, th')
  BY <1>1, <1>2, FollowsOrdered DEF IInv, Ends, Good
<1> QED BY <1>3 DEF Ends, GoodStep

LEMMA WaitLoops ==
  ASSUME NEW t, Good(t), t.state # "Drip", now \in Nat, completed \in BOOLEAN,
         WaitLoop(t)
  PROVE  Ends(t)
<1>1. th' = t /\ completed' = completed
  BY DEF WaitLoop
<1>2. greenlet' \in GreenletState /\ greenlet'.at # "drip"
  <2> DEFINE wait == [at |-> "wait", wake |-> now + TENTH, drip |-> 0]
  <2>1. wait \in GreenletState /\ wait.at # "drip"
    BY ConstantTypes DEF GreenletState
  <2>2. greenlet' = wait \/ greenlet' = Idle
    BY DEF WaitLoop
  <2> QED BY <2>1, <2>2, IdleIs
<1>3. Follows(t, t)
  BY FieldTypes DEF Follows, Good, Counted
<1> QED BY <1>1, <1>2, <1>3 DEF Ends, DripState

LEMMA CommandsGood ==
  ASSUME IInv, GiveCommand
  PROVE  GoodStep
<1>i. /\ greenlet = Idle /\ greenlet.at # "drip"
  BY IdleIs DEF GiveCommand, Command, Move, Dwell, DripMove, GetLastMoveTime,
                SetPosition, WaitMoves, NoteScanTime
<1>t. /\ now \in Nat /\ completed \in BOOLEAN /\ th.state # "Drip"
      /\ TH.state # "Drip" /\ Good(TH) /\ Follows(th, TH)
      /\ th \in ToolHeadState /\ TH \in ToolHeadState
      /\ \A d \in Durations : d \in Nat
      /\ \A d \in Delays : d \in Nat
  BY <1>i, NothingTold, Typed, AtIdle DEF IInv, Good, Counted
<1>e. ASSUME NEW u, Good(u), Follows(TH, u), Ends(u)
      PROVE  GoodStep
  <2>1. u \in ToolHeadState /\ Follows(th, u)
    BY <1>t, <1>e, FollowsTwice DEF Good, Counted
  <2> QED BY <1>t, <1>e, <2>1, EndsGood
<1>1. ASSUME NEW d \in Durations, Move(d)
      PROVE  GoodStep
  <2>1. PICK u \in Added(TH, d) :
          IF PauseDue(u) THEN CheckPause(u, 0) ELSE Continue(u, 0)
    BY <1>1 DEF Move
  <2>2. Good(u) /\ Follows(TH, u) /\ u.state # "Drip"
    BY <1>t, Adds
  <2>3. Ends(u)
    BY <1>t, <2>1, <2>2, ChecksPause, Continues
  <2> QED BY <1>e, <2>2, <2>3
<1>2. ASSUME NEW d \in Durations, Dwell(d)
      PROVE  GoodStep
  <2>1. Good(Dwelt(TH, d)) /\ Follows(TH, Dwelt(TH, d))
        /\ Dwelt(TH, d).state # "Drip"
    BY <1>t, Dwells
  <2>2. Ends(Dwelt(TH, d))
    BY <1>t, <1>2, <2>1, ChecksPause DEF Dwell
  <2> QED BY <1>e, <2>1, <2>2
<1>3. ASSUME NEW d \in Durations, DripMove(d)
      PROVE  GoodStep
  <2> DEFINE u == Dwelt(TH, th.kin_flush_delay)
  <2>1. th.kin_flush_delay \in Nat
    BY <1>t, FieldTypes
  <2>2. Good(u) /\ Follows(TH, u) /\ u.state # "Drip"
    BY <1>t, <2>1, Dwells
  <2>3. CheckPause(u, d)
    BY <1>3 DEF DripMove
  <2> HIDE DEF u
  <2>4. Ends(u)
    BY <1>t, <2>2, <2>3, ChecksPause
  <2> QED BY <1>e, <2>2, <2>4
<1>4. ASSUME GetLastMoveTime
      PROVE  GoodStep
  <2> DEFINE u == LastMoveTime(TH)
  <2>1. Good(u) /\ Follows(TH, u) /\ u.state # "Drip"
    BY <1>t, LastMove
  <2>2. Continue(u, 0)
    BY <1>4 DEF GetLastMoveTime
  <2> HIDE DEF u
  <2>3. Ends(u)
    BY <1>t, <2>1, <2>2, Continues
  <2> QED BY <1>e, <2>1, <2>3
<1>5. ASSUME SetPosition
      PROVE  GoodStep
  <2> DEFINE u == FlushStepGeneration(TH)
  <2>1. Good(u) /\ Follows(TH, u) /\ u.state = "NeedPrime"
    BY <1>t, StepGeneration
  <2>2. Continue(u, 0)
    BY <1>5 DEF SetPosition
  <2> HIDE DEF u
  <2>3. Ends(u)
    BY <1>t, <2>1, <2>2, Continues
  <2> QED BY <1>e, <2>1, <2>3
<1>6. ASSUME WaitMoves
      PROVE  GoodStep
  <2> DEFINE u == FlushLookahead(TH)
  <2>1. Good(u) /\ Follows(TH, u) /\ u.state = "NeedPrime"
    BY <1>t, LookaheadFlushes
  <2>2. WaitLoop(u)
    BY <1>6 DEF WaitMoves
  <2> HIDE DEF u
  <2>3. Ends(u)
    BY <1>t, <2>1, <2>2, WaitLoops
  <2> QED BY <1>e, <2>1, <2>3
<1>7. ASSUME NEW d \in Delays, NoteScanTime(d)
      PROVE  GoodStep
  <2> DEFINE u == FlushStepGeneration(TH)
             w == [u EXCEPT !.kin_flush_delay = d]
  <2>1. Good(u) /\ Follows(TH, u) /\ u.state = "NeedPrime"
    BY <1>t, StepGeneration
  <2>2. Continue(w, 0)
    BY <1>7 DEF NoteScanTime
  <2> HIDE DEF u
  <2>3. u \in ToolHeadState /\ Follows(th, u)
    BY <1>t, <2>1, FollowsTwice DEF Good, Counted
  <2>4. /\ w \in ToolHeadState /\ SameSteps(u, w) /\ SameFlush(u, w)
        /\ w.print_time = u.print_time /\ w.trapq = u.trapq
        /\ w.state = "NeedPrime"
    BY <2>1, <2>3 DEF ToolHeadState, SameSteps, SameFlush
  <2> HIDE DEF w
  <2>5. Good(w)
    BY <2>1, <2>4 DEF Good, Counted, Armed, SameSteps, SameFlush
  <2>6. /\ th' = w /\ greenlet' = Idle /\ completed' = completed
    BY <2>2 DEF Continue
  <2>7. Ordered(th, u)
    BY <1>t, <2>1, <2>3, FollowsOrdered DEF IInv, Good
  <2>8. Ordered(th, th')
    BY <2>4, <2>6, <2>7 DEF Ordered
  <2> QED BY <1>t, <2>4, <2>5, <2>6, <2>8, IdleIs DEF GoodStep, DripState
<1> QED BY <1>1, <1>2, <1>3, <1>4, <1>5, <1>6, <1>7 DEF GiveCommand

LEMMA WaitersGood ==
  ASSUME IInv, Resume \/ WaitMore
  PROVE  GoodStep
<1>t. /\ now \in Nat /\ completed \in BOOLEAN /\ greenlet.drip \in Nat
      /\ th.state # "Drip" /\ TH.state # "Drip" /\ Good(TH)
      /\ Follows(th, TH) /\ TH \in ToolHeadState
  BY NothingTold, Typed, AtIdle DEF Resume, WaitMore
<1>1. Ends(TH)
  BY <1>t, PauseLoops, WaitLoops DEF Resume, WaitMore
<1> QED BY <1>t, <1>1, EndsGood

(* The drip mode feeds the move in pieces.                                 *)
LEMMA DripIs ==
  ASSUME IInv, greenlet.at = "drip"
  PROVE  /\ th.state = "Drip" /\ TH.state = "Drip" /\ ~TH.do_kick
         /\ TH.flush_timer = Never /\ StepsDone(TH) /\ Counted(TH) /\ Armed(TH)
         /\ TH.trapq = th.trapq /\ th.trapq.end = greenlet.drip
         /\ TH.kin_flush_delay = th.kin_flush_delay
         /\ th.trapq.start \in Nat /\ th.print_time \in Nat
         /\ th.kin_flush_delay \in Nat
<1>1. th.state = "Drip" /\ th.trapq.end = greenlet.drip
  BY DEF IInv, DripState
<1>2. Good(TH) /\ SameMode(th, TH)
  BY NothingTold
<1>3. th \in ToolHeadState
  BY DEF IInv, Good, Counted
<1> QED BY <1>1, <1>2, <1>3, FieldTypes DEF Good, Armed, SameMode

LEMMA DripsGood ==
  ASSUME IInv, DripSegment \/ DripStops \/ DripDone \/ Complete
  PROVE  GoodStep
<1>d. greenlet.at = "drip"
  BY DEF DripSegment, DripStops, DripDone, Complete, Dripping
<1>t. /\ th.state = "Drip" /\ TH.state = "Drip" /\ ~TH.do_kick
      /\ TH.flush_timer = Never /\ StepsDone(TH) /\ Counted(TH) /\ Armed(TH)
      /\ TH.trapq = th.trapq /\ th.trapq.end = greenlet.drip
      /\ TH.kin_flush_delay = th.kin_flush_delay
      /\ th.trapq.start \in Nat /\ th.print_time \in Nat
      /\ th.kin_flush_delay \in Nat /\ TH.print_time = th.print_time
      /\ TH \in ToolHeadState /\ SameSteps(th, TH) /\ Good(TH)
  BY <1>d, DripIs, NothingTold
<1>g. /\ now \in Nat /\ completed \in BOOLEAN /\ greenlet \in GreenletState
      /\ greenlet.wake \in Int /\ greenlet.drip \in Nat
  BY Typed
<1>w. \A w \in Int : /\ [greenlet EXCEPT !.wake = w] \in GreenletState
                     /\ [greenlet EXCEPT !.wake = w].at = "drip"
                     /\ [greenlet EXCEPT !.wake = w].drip = greenlet.drip
  BY <1>d, <1>g DEF GreenletState
<1>s. ASSUME th' = TH, NEW w \in Int, completed' \in BOOLEAN,
             greenlet' = [greenlet EXCEPT !.wake = w]
      PROVE  GoodStep
  <2>1. Good(th') /\ Ordered(th, th')
    BY <1>t, <1>s DEF Ordered
  <2>2. DripState'
    BY <1>t, <1>s, <1>w DEF DripState
  <2> QED BY <1>s, <1>w, <2>1, <2>2 DEF GoodStep
\* Either the end of the move or the end of the drip mode.
<1>e. ASSUME NEW x, Counted(x), x.state = "Drip", x.queue = 0, ~x.do_kick,
             x.trapq.end <= x.print_time, x.trapq.start = th.trapq.start,
             th' = DripEnded(x), greenlet' = Idle, completed' = FALSE
      PROVE  GoodStep
  <2>1. Good(th') /\ th'.state = "NeedPrime" /\ th'.trapq = x.trapq
    BY <1>e, <1>g, DripEnds
  <2>2. Ordered(th, th')
    BY <1>e, <2>1 DEF Ordered
  <2> QED BY <1>e, <2>1, <2>2, IdleIs DEF GoodStep, DripState
<1>1. CASE DripSegment
  <2> DEFINE wait == th.print_time - now
                     - (DRIP_TIME + STEPCOMPRESS_FLUSH_TIME + th.kin_flush_delay)
             to == Sooner(th.print_time + DRIP_SEGMENT_TIME, greenlet.drip)
             n == NoteActivity(TH, to + th.kin_flush_delay)
  <2>1. wait \in Int /\ to \in Nat /\ to + th.kin_flush_delay \in Nat
    BY <1>t, <1>g, ConstantTypes DEF Sooner
  <2>2. \/ /\ th' = TH /\ greenlet' = [greenlet EXCEPT !.wake = now + wait]
        \/ /\ th' = AdvanceMoveTime(n, to) /\ greenlet' = greenlet
    BY <1>1 DEF DripSegment
  <2>3. completed' = completed
    BY <1>1 DEF DripSegment
  <2> HIDE DEF wait, to
  <2>4. CASE th' = TH /\ greenlet' = [greenlet EXCEPT !.wake = now + wait]
    <3>1. now + wait \in Int /\ completed' \in BOOLEAN
      BY <1>g, <2>1, <2>3
    <3> QED BY <1>s, <2>4, <3>1
  <2>5. CASE th' = AdvanceMoveTime(n, to) /\ greenlet' = greenlet
    <3>1. /\ Counted(n) /\ Armed(n) /\ SameMode(TH, n) /\ SameSteps(TH, n)
          /\ n.print_time = TH.print_time /\ ~n.do_kick
      BY <1>t, <1>g, <2>1, Note
    <3> HIDE DEF n
    <3>2. StepsDone(n)
      BY <1>t, <3>1 DEF StepsDone, SameMode, SameSteps
    <3>3. /\ Counted(th') /\ SameMode(n, th') /\ SameFlush(n, th')
          /\ n.last_flush_time <= th'.last_flush_time /\ StepsDone(th')
      BY <2>1, <2>5, <3>1, <3>2, MoveTime
    <3>4. Armed(th')
      BY <3>1, <3>3, ArmedStays DEF Counted, SameMode
    <3>5. th'.state = "Drip" /\ th'.trapq = th.trapq
      BY <1>t, <3>1, <3>3 DEF SameMode
    <3>6. Good(th') /\ Ordered(th, th')
      BY <3>3, <3>4, <3>5 DEF Good, Ordered
    <3>7. DripState'
      BY <1>d, <1>t, <2>5, <3>5 DEF DripState
    <3> QED BY <1>g, <2>3, <2>5, <3>6, <3>7 DEF GoodStep
  <2> QED BY <2>2, <2>4, <2>5
<1>2. CASE DripStops
  <2> DEFINE q == Truncated(TH.trapq, th.generated)
             x == [TH EXCEPT !.queue = 0, !.trapq = q]
  <2>1. /\ th' = DripEnded(x) /\ greenlet' = Idle /\ completed' = FALSE
    BY <1>2 DEF DripStops
  <2>2. /\ th.trapq \in Stretch /\ th.generated \in Nat
        /\ th.trapq.end \in Nat /\ th.trapq.rest \in Nat
        /\ th.min_restart_time \in Nat /\ th \in ToolHeadState
    BY FieldTypes DEF IInv, Good, Counted
  <2>3. /\ q \in Stretch /\ q.end <= th.generated
        /\ q.start = th.trapq.start
    <3> DEFINE end  == Sooner(th.trapq.end, th.generated)
               rest == Sooner(th.trapq.rest, th.generated)
    <3>1. end \in Nat /\ rest \in Nat /\ end <= th.generated
      BY <2>2 DEF Sooner
    <3>2. q = [th.trapq EXCEPT !.end = end, !.rest = rest]
      BY <1>t DEF Truncated
    <3> HIDE DEF q, end, rest
    <3> QED BY <2>2, <3>1, <3>2 DEF Stretch
  <2>4. th.generated <= th.print_time
    BY <1>t, <2>2 DEF Counted, StepsDone, SameSteps
  <2> HIDE DEF q
  <2>5. /\ x \in ToolHeadState /\ SameSteps(TH, x) /\ SameFlush(TH, x)
        /\ x.state = "Drip" /\ x.queue = 0 /\ x.trapq = q
        /\ x.print_time = TH.print_time
    BY <1>t, <2>3 DEF ToolHeadState, SameSteps, SameFlush
  <2> HIDE DEF x
  <2>6. Counted(x) /\ ~x.do_kick /\ x.trapq.end <= x.print_time
    BY <1>t, <2>2, <2>3, <2>4, <2>5, FieldTypes
       DEF Counted, SameSteps, SameFlush, Stretch
  <2> QED BY <1>e, <2>1, <2>3, <2>5, <2>6
<1>3. CASE DripDone
  <2> DEFINE n == NoteActivity(TH, greenlet.drip + th.kin_flush_delay)
             a == AdvanceMoveTime(n, greenlet.drip)
             x == [a EXCEPT !.queue = 0]
  <2>1. /\ th' = DripEnded(x) /\ greenlet' = Idle /\ completed' = FALSE
    BY <1>3 DEF DripDone
  <2>2. greenlet.drip + th.kin_flush_delay \in Nat
    BY <1>t, <1>g
  <2>3. /\ Counted(n) /\ Armed(n) /\ SameMode(TH, n) /\ ~n.do_kick
    BY <1>t, <1>g, <2>2, Note
  <2> HIDE DEF n
  <2>4. /\ Counted(a) /\ SameMode(n, a) /\ SameFlush(n, a)
        /\ a.print_time >= greenlet.drip
    BY <1>g, <2>3, MoveTime
  <2> HIDE DEF a
  <2>5. /\ a.state = "Drip" /\ ~a.do_kick /\ a.trapq = th.trapq
        /\ a \in ToolHeadState
    BY <1>t, <2>3, <2>4 DEF SameMode, SameFlush, Counted
  <2>6. /\ x \in ToolHeadState /\ SameSteps(a, x) /\ SameFlush(a, x)
        /\ x.state = "Drip" /\ x.queue = 0 /\ x.trapq = a.trapq
        /\ x.print_time = a.print_time
    BY <2>5 DEF ToolHeadState, SameSteps, SameFlush
  <2> HIDE DEF x
  <2>7. Counted(x) /\ ~x.do_kick
    BY <2>4, <2>5, <2>6 DEF Counted, SameSteps, SameFlush
  <2>8. x.trapq.end <= x.print_time /\ x.trapq.start = th.trapq.start
    BY <1>t, <1>g, <2>4, <2>5, <2>6, FieldTypes
  <2> QED BY <1>e, <2>1, <2>6, <2>7, <2>8
<1>4. CASE Complete
  <2>1. Sooner(greenlet.wake, now) \in Int
    BY <1>g DEF Sooner
  <2>2. /\ th' = TH /\ completed' \in BOOLEAN
        /\ greenlet' = [greenlet EXCEPT !.wake = Sooner(@, now)]
    BY <1>4 DEF Complete
  <2> QED BY <1>s, <2>1, <2>2
<1> QED BY <1>1, <1>2, <1>3, <1>4

(* The timers and the shutdown.                                            *)
LEMMA OthersStay ==
  ASSUME IInv, Good(th'), Ordered(th, th'), UNCHANGED <<greenlet, completed>>,
         \/ th'.state = th.state /\ th'.trapq.end = th.trapq.end
         \/ th.state # "Drip" /\ th'.state # "Drip"
  PROVE  GoodStep
<1>1. DripState'
  BY DEF IInv, DripState
<1> QED BY <1>1, Typed DEF GoodStep

LEMMA PrimingGood ==
  ASSUME IInv, PrimingHandler
  PROVE  GoodStep
<1> DEFINE t == [TH EXCEPT !.priming_timer = Never]
<1>1. /\ th' = IF t.state = "Priming" THEN FlushLookahead(t) ELSE t
      /\ UNCHANGED <<greenlet, completed>>
  BY DEF PrimingHandler
<1>2. Alike(TH, t) /\ t.state = TH.state
  BY NothingTold DEF Alike, ToolHeadState, SameSteps, SameFlush
<1> HIDE DEF t
<1>3. /\ Good(t) /\ Follows(TH, t) /\ t.state = th.state /\ t.trapq = th.trapq
      /\ TH \in ToolHeadState /\ th \in ToolHeadState /\ t \in ToolHeadState
      /\ now \in Nat /\ Good(th) /\ Follows(th, TH)
  BY <1>2, NothingTold, Typed, AlikeGood DEF SameMode, Alike, IInv, Good, Counted
<1>4. CASE t.state = "Priming"
  <2>1. Good(th') /\ Follows(t, th') /\ th'.state = "NeedPrime"
    BY <1>1, <1>3, <1>4, LookaheadFlushes
  <2>2. th' \in ToolHeadState /\ Counted(th')
    BY <2>1 DEF Good, Counted
  <2>3. Follows(th, t)
    BY <1>3, FollowsTwice
  <2>4. Follows(th, th')
    BY <1>3, <2>1, <2>2, <2>3, FollowsTwice
  <2>5. Ordered(th, th')
    BY <1>3, <1>4, <2>2, <2>4, FollowsOrdered
  <2> QED BY <1>1, <1>3, <1>4, <2>1, <2>5, OthersStay
<1>5. CASE t.state # "Priming"
  <2>1. th' = t
    BY <1>1, <1>5
  <2>2. Ordered(th, th')
    BY <1>3, <2>1 DEF Ordered
  <2> QED BY <1>1, <1>3, <2>1, <2>2, OthersStay
<1> QED BY <1>4, <1>5

(* Queues are flushed when the toolhead neither runs normally nor drips.   *)
LEMMA QueuesFlushed ==
  ASSUME NEW t, Good(t), t.state \in {"NeedPrime", "Priming"}, ~t.do_kick,
         now \in Nat, NEW u, u = FlushQueues(t)
  PROVE  Good(u) /\ u.trapq = t.trapq /\ u.state = t.state
<1> DEFINE end == t.need_flush_time + BGFLUSH_EXTRA_TIME
           to  == Sooner(end, now + BGFLUSH_LOW_TIME + BGFLUSH_BATCH_TIME)
           a   == IF t.last_flush_time - now > BGFLUSH_LOW_TIME
                  THEN t ELSE AdvanceFlushTime(t, to)
           f   == IF t.last_flush_time >= end THEN t ELSE a
           yes == TRUE
           wake == f.last_flush_time - BGFLUSH_LOW_TIME
<1>t. /\ t \in ToolHeadState /\ t.need_flush_time \in Nat
      /\ t.print_time \in Nat /\ t.trapq.end \in Nat
      /\ BGFLUSH_EXTRA_TIME \in Nat /\ BGFLUSH_LOW_TIME \in Nat
      /\ BGFLUSH_BATCH_TIME \in Nat
  BY FieldTypes, ConstantTypes DEF Good, Counted
<1>1. end \in Int /\ to \in Int
  BY <1>t DEF Sooner
<1>2. u = IF f.last_flush_time >= end
          THEN [f EXCEPT !.do_kick = yes, !.flush_timer = Never]
          ELSE [f EXCEPT !.flush_timer = wake]
  BY DEF FlushQueues
<1>3. f = t \/ f = AdvanceFlushTime(t, to)
  OBVIOUS
<1>y. yes \in BOOLEAN /\ yes
  OBVIOUS
<1> HIDE DEF f, to, yes
<1>4. /\ Counted(f) /\ SameMode(t, f) /\ SameFlush(t, f)
      /\ f.print_time = t.print_time
  <2>1. CASE f = t
    BY <2>1 DEF Good, SameMode, SameFlush
  <2>2. CASE f = AdvanceFlushTime(t, to)
    BY <1>1, <2>2, FlushTime DEF Good
  <2> QED BY <1>3, <2>1, <2>2
<1>5. /\ f \in ToolHeadState /\ f.last_flush_time \in Nat /\ wake \in Int
      /\ wake \in Int \union {Never} /\ Never \in Int \union {Never}
      /\ wake # Never
  BY <1>t, <1>4, FieldTypes, ConstantTypes DEF Counted
<1> HIDE DEF wake
<1>6. CASE f.last_flush_time >= end
  <2>1. u = [f EXCEPT !.do_kick = yes, !.flush_timer = Never]
    BY <1>2, <1>6
  <2>2. u \in ToolHeadState
    BY <1>5, <1>y, <2>1 DEF ToolHeadState
  <2>3. /\ SameMode(f, u) /\ SameSteps(f, u) /\ u.print_time = f.print_time
        /\ u.need_flush_time = f.need_flush_time
    BY <1>5, <2>1 DEF ToolHeadState, SameMode, SameSteps
  <2>4. u.flush_timer = Never
    BY <1>5, <2>1 DEF ToolHeadState
  <2>5. u.do_kick = yes
    BY <1>5, <2>1 DEF ToolHeadState
  <2>6. u.last_flush_time >= u.need_flush_time
    BY <1>t, <1>4, <1>5, <1>6, <2>3 DEF SameFlush, SameSteps
  <2>7. Counted(u)
    BY <1>4, <2>2, <2>3 DEF Counted, SameSteps
  <2>8. u.state = t.state /\ u.trapq = t.trapq /\ u.print_time = t.print_time
    BY <1>4, <2>3 DEF SameMode
  <2>9. Armed(u)
    BY <1>y, <2>4, <2>5, <2>6, <2>8 DEF Armed
  <2> QED BY <2>7, <2>8, <2>9 DEF Good
<1>7. CASE ~(f.last_flush_time >= end)
  <2>1. u = [f EXCEPT !.flush_timer = wake]
    BY <1>2, <1>7
  <2>2. /\ u \in ToolHeadState /\ SameMode(f, u) /\ SameSteps(f, u)
        /\ u.print_time = f.print_time /\ u.flush_timer = wake
    BY <1>5, <2>1 DEF ToolHeadState, SameMode, SameSteps
  <2>3. u.do_kick = f.do_kick
    BY <1>5, <2>1 DEF ToolHeadState
  <2>4. Counted(u)
    BY <1>4, <2>2 DEF Counted, SameSteps
  <2>5. u.state = t.state /\ u.trapq = t.trapq /\ u.print_time = t.print_time
    BY <1>4, <2>2 DEF SameMode
  <2>6. Armed(u)
    BY <1>4, <1>5, <2>2, <2>3, <2>5 DEF Armed, SameFlush
  <2> QED BY <2>4, <2>5, <2>6 DEF Good
<1> QED BY <1>6, <1>7

LEMMA FlushGood ==
  ASSUME IInv, FlushHandler
  PROVE  GoodStep
<1>1. /\ th.flush_timer # Never
      /\ UNCHANGED <<greenlet, completed>>
      /\ th' = IF RunningNormally(th)
               THEN [TH EXCEPT !.flush_timer = th.print_time - BUFFER_TIME_LOW]
               ELSE FlushQueues(IF th.state = "main" THEN FlushLookahead(TH)
                                ELSE TH)
  BY DEF FlushHandler, Due
<1>t. /\ Good(th) /\ Good(TH) /\ Follows(th, TH) /\ SameMode(th, TH)
      /\ SameFlush(th, TH) /\ SameSteps(th, TH) /\ now \in Nat
      /\ th \in ToolHeadState /\ TH \in ToolHeadState
      /\ TH.print_time = th.print_time /\ th.print_time \in Nat
      /\ th.state \in {"NeedPrime", "Priming", "main", "Drip"}
  BY NothingTold, Typed, FieldTypes DEF IInv, Good, Counted
<1>2. /\ th.state # "Drip" /\ ~th.do_kick /\ ~TH.do_kick
      /\ TH.state = th.state
  BY <1>1, <1>t DEF Good, Armed, SameFlush, SameMode
<1>3. CASE RunningNormally(th)
  <2> DEFINE wake == th.print_time - BUFFER_TIME_LOW
  <2>1. th' = [TH EXCEPT !.flush_timer = wake]
    BY <1>1, <1>3
  <2>2. wake \in Int \union {Never} /\ wake # Never
    BY <1>t, ConstantTypes
  <2> HIDE DEF wake
  <2>3. /\ th' \in ToolHeadState /\ SameMode(TH, th') /\ SameSteps(TH, th')
        /\ th'.print_time = TH.print_time /\ th'.flush_timer = wake
    BY <1>t, <2>1, <2>2 DEF ToolHeadState, SameMode, SameSteps
  <2>4. th'.do_kick = TH.do_kick
    BY <1>t, <2>1 DEF ToolHeadState
  <2>5. Counted(th')
    BY <1>t, <2>3 DEF Good, Counted, SameSteps
  <2>6. Armed(th')
    BY <1>2, <2>2, <2>3, <2>4 DEF Armed, SameMode
  <2>7. Good(th')
    BY <1>t, <1>2, <2>3, <2>5, <2>6 DEF Good, StepsDone, SameMode, SameSteps
  <2>8. th'.trapq = th.trapq /\ th'.state = th.state
    BY <1>t, <2>3 DEF SameMode
  <2>9. Ordered(th, th')
    BY <2>8 DEF Ordered
  <2> QED BY <1>1, <2>7, <2>8, <2>9, OthersStay
<1>4. CASE ~RunningNormally(th) /\ th.state = "main"
  <2> DEFINE l == FlushLookahead(TH)
  <2>1. Good(l) /\ Follows(TH, l) /\ l.state = "NeedPrime"
    BY <1>t, <1>2, LookaheadFlushes
  <2>2. th' = FlushQueues(l)
    BY <1>1, <1>4
  <2> HIDE DEF l
  <2>3. l \in ToolHeadState /\ Counted(l) /\ ~l.do_kick
    BY <1>2, <2>1 DEF Good, Counted, Follows
  <2>4. Ordered(th, l)
    <3>1. Follows(th, l)
      BY <1>t, <2>1, <2>3, FollowsTwice
    <3> QED BY <1>t, <1>2, <2>3, <3>1, FollowsOrdered
  <2>5. Good(th') /\ th'.trapq = l.trapq /\ th'.state = l.state
    BY <1>t, <2>1, <2>2, <2>3, QueuesFlushed
  <2>6. Ordered(th, th')
    BY <2>4, <2>5 DEF Ordered
  <2> QED BY <1>1, <1>2, <2>1, <2>5, <2>6, OthersStay
<1>5. CASE ~RunningNormally(th) /\ th.state # "main"
  <2>1. th' = FlushQueues(TH)
    BY <1>1, <1>5
  <2>2. TH.state \in {"NeedPrime", "Priming"}
    BY <1>t, <1>2, <1>5
  <2>3. Good(th') /\ th'.trapq = TH.trapq /\ th'.state = TH.state
    BY <1>t, <1>2, <2>1, <2>2, QueuesFlushed
  <2>4. Ordered(th, th')
    BY <1>t, <2>3 DEF Ordered, SameMode
  <2> QED BY <1>1, <1>2, <2>3, <2>4, OthersStay
<1> QED BY <1>3, <1>4, <1>5

LEMMA ShutdownGood ==
  ASSUME IInv, Shutdown
  PROVE  GoodStep
<1> DEFINE no == FALSE
<1>1. /\ th' = [TH EXCEPT !.can_pause = no, !.queue = 0,
                          !.junction_flush = LOOKAHEAD_FLUSH_TIME]
      /\ UNCHANGED <<greenlet, completed>>
  BY DEF Shutdown
<1>2. no \in BOOLEAN
  OBVIOUS
<1> HIDE DEF no
<1>t. TH \in ToolHeadState /\ LOOKAHEAD_FLUSH_TIME \in Int
  BY NothingTold, ConstantTypes
<1>3. th' \in ToolHeadState
  BY <1>1, <1>2, <1>t DEF ToolHeadState
<1>4. /\ SameSteps(TH, th') /\ SameFlush(TH, th')
      /\ th'.print_time = TH.print_time /\ th'.state = TH.state
      /\ th'.kin_flush_delay = TH.kin_flush_delay /\ th'.trapq = TH.trapq
  BY <1>1, <1>t DEF ToolHeadState, SameSteps, SameFlush
<1>5. Good(th')
  BY <1>3, <1>4, NothingTold, AlikeGood DEF Alike
<1>6. th'.state = th.state /\ th'.trapq = th.trapq
  BY <1>4, NothingTold DEF SameMode
<1>7. Ordered(th, th')
  BY <1>6 DEF Ordered
<1> QED BY <1>1, <1>5, <1>6, <1>7, OthersStay

LEMMA TickGood ==
  ASSUME IInv, Tick
  PROVE  GoodStep
<1>1. th' = TH /\ UNCHANGED <<greenlet, completed>>
  BY DEF Tick, Elapse
<1>2. Good(th') /\ th'.state = th.state /\ th'.trapq = th.trapq
  BY <1>1, NothingTold DEF SameMode
<1>3. Ordered(th, th')
  BY <1>2 DEF Ordered
<1> QED BY <1>1, <1>2, <1>3, OthersStay

-----------------------------------------------------------------------------
(* The theorems.                                                           *)

LEMMA InitGood == Init => IInv
<1> SUFFICES ASSUME Init PROVE IInv
  OBVIOUS
<1>1. /\ FirstDelay \in Delays /\ BUFFER_TIME_HIGH \in Int
      /\ MaxCommands \in Nat
  BY ToolHeadAssumption
<1>2. Idle \in GreenletState /\ Idle.at = "idle"
  BY IdleIs
<1>3. /\ now \in Nat /\ greenlet = Idle /\ completed \in BOOLEAN
      /\ given \in 0..MaxCommands
  <2>1. now = 0 /\ greenlet = Idle /\ given = 0
    BY DEF Init
  <2>2. completed \in BOOLEAN
    BY DEF Init
  <2> QED BY <1>1, <2>1, <2>2
<1>4. th \in ToolHeadState
  <2> DEFINE v == -1
             yes == TRUE
             q == [start |-> 0, end |-> 0, rest |-> 0]
  <2>1. /\ v \in Int \union {Never} /\ yes \in BOOLEAN /\ q \in Stretch
        /\ Never \in Int \union {Never}
    BY DEF Stretch
  <2>2. th = [state |-> "NeedPrime", print_time |-> 0,
              last_flush_time |-> 0, need_flush_time |-> 0,
              min_restart_time |-> 0, step_gen_time |-> 0,
              kin_flush_delay |-> FirstDelay, need_check_pause |-> v,
              do_kick |-> yes, flush_timer |-> Never, priming_timer |-> Never,
              can_pause |-> yes, queue |-> 0,
              junction_flush |-> BUFFER_TIME_HIGH, generated |-> 0,
              trapq |-> q, synced |-> 0]
    BY DEF Init
  <2> HIDE DEF v, yes, q
  <2> QED BY <1>1, <2>1, <2>2 DEF ToolHeadState
<1>5. /\ th.state = "NeedPrime" /\ th.generated = 0 /\ th.print_time = 0
      /\ th.min_restart_time = 0 /\ th.last_flush_time = 0
      /\ th.need_flush_time = 0 /\ th.trapq.end = 0
      /\ th.flush_timer = Never
  BY DEF Init
<1>6. th.do_kick
  BY DEF Init
<1>7. Counted(th) /\ Armed(th)
  BY <1>4, <1>5, <1>6 DEF Counted, Armed
<1>8. Good(th)
  BY <1>5, <1>7 DEF Good
<1>9. TypeOK
  BY <1>2, <1>3, <1>4 DEF TypeOK, GreenletState
<1>10. DripState
  BY <1>2, <1>3, <1>5 DEF DripState
<1> QED BY <1>8, <1>9, <1>10 DEF IInv

LEMMA NextGood ==
  ASSUME IInv, [Next]_vars
  PROVE  IInv' /\ Ordered(th, th')
<1>1. CASE UNCHANGED vars
  BY <1>1 DEF vars, IInv, TypeOK, Good, Counted, Armed, StepsDone, DripState,
              Ordered
<1>2. CASE Next /\ ~UNCHANGED vars
  <2>1. GoodStep
    <3>1. CASE GiveCommand
      BY <3>1, CommandsGood
    <3>2. CASE Resume \/ WaitMore
      BY <3>2, WaitersGood
    <3>3. CASE DripSegment \/ DripStops \/ DripDone \/ Complete
      BY <3>3, DripsGood
    <3>4. CASE PrimingHandler \/ FlushHandler
      BY <3>4, PrimingGood, FlushGood
    <3>5. CASE Shutdown \/ Tick
      BY <3>5, ShutdownGood, TickGood
    <3> QED BY <1>2, <3>1, <3>2, <3>3, <3>4, <3>5 DEF Next, Work, AtRest
  <2>2. now' \in Nat
    <3>1. now' = now \/ now' = now + 1
      BY <1>2 DEF Next, GiveCommand, Work, Move, Dwell, DripMove,
                  GetLastMoveTime, SetPosition, WaitMoves, NoteScanTime,
                  Command, Resume, WaitMore, DripSegment, DripStops, DripDone,
                  PrimingHandler, FlushHandler, Complete, Shutdown, Tick,
                  Elapse, AtRest, vars
    <3> QED BY <3>1, Typed
  <2>3. given' \in 0..MaxCommands
    <3>1. given' = given \/ (given < MaxCommands /\ given' = given + 1)
      BY <1>2 DEF Next, GiveCommand, Work, Move, Dwell, DripMove,
                  GetLastMoveTime, SetPosition, WaitMoves, NoteScanTime,
                  Command, Resume, WaitMore, DripSegment, DripStops, DripDone,
                  PrimingHandler, FlushHandler, Complete, Shutdown, Tick,
                  Elapse, AtRest, vars
    <3> QED BY <3>1, Typed, ToolHeadAssumption
  <2>4. TypeOK'
    BY <2>1, <2>2, <2>3 DEF GoodStep, TypeOK, Good, Counted, GreenletState
  <2> QED BY <2>1, <2>4 DEF GoodStep, IInv
<1> QED BY <1>1, <1>2

LEMMA Inductive == Spec => []IInv
<1>1. IInv /\ [Next]_vars => IInv'
  BY NextGood
<1> QED BY <1>1, InitGood, PTL DEF Spec

(* Type correctness of the toolhead.                                       *)
THEOREM ToolHeadTypes == Spec => []TypeOK
<1>1. IInv => TypeOK
  BY DEF IInv
<1> QED BY <1>1, Inductive, PTL

(* Somebody flushes the steps that are left: the flush timer is armed, or  *)
(* the drip mode is at work.                                               *)
THEOREM ToolHeadFlushArmed == Spec => []FlushArmed
<1>1. IInv => FlushArmed
  BY DEF IInv, Good, Armed, DripState, FlushArmed
<1> QED BY <1>1, Inductive, PTL

(* Whatever is ordered and whenever the timers fire, moves are appended    *)
(* behind the ones before and behind the steps already generated.          *)
THEOREM ToolHeadMovesInOrder == Spec => MovesInOrder
<1> DEFINE Step ==
      th'.trapq.start # th.trapq.start =>
        /\ th'.trapq.start >= th.trapq.end
        /\ th'.trapq.start >= th.generated + th.kin_flush_delay
<1>1. IInv /\ [Next]_vars => [Step]_vars
  BY NextGood DEF Ordered
<1> QED BY <1>1, Inductive, PTL DEF Spec, MovesInOrder

-----------------------------------------------------------------------------
(* Everything is at rest when the position is set.  The step generators     *)
(* know how far the smoothed movement goes on: to where it comes to rest    *)
(* step_gen_time was noted, or steps are generated that far.  While a drip  *)
(* move is fed this is not so, it is noted when the move is done.           *)
Rested(t) == \/ t.trapq.rest <= t.step_gen_time
             \/ t.trapq.rest <= t.generated

DripRest ==
  /\ th.state # "Drip" => Rested(th)
  /\ th.state = "Drip" =>
       th.trapq.rest = greenlet.drip + th.kin_flush_delay

Tracks(t, u) ==
  /\ u.trapq = t.trapq
  /\ t.generated <= u.generated /\ t.step_gen_time <= u.step_gen_time
SameRest(t, u) ==
  /\ u.trapq = t.trapq
  /\ u.generated = t.generated /\ u.step_gen_time = t.step_gen_time

LEMMA RestStays ==
  ASSUME NEW t \in ToolHeadState, NEW u \in ToolHeadState, Tracks(t, u),
         Rested(t)
  PROVE  Rested(u)
BY FieldTypes DEF Tracks, Rested

LEMMA TracksTwice ==
  ASSUME NEW t \in ToolHeadState, NEW u \in ToolHeadState,
         NEW v \in ToolHeadState, Tracks(t, u), Tracks(u, v)
  PROVE  Tracks(t, v)
BY FieldTypes DEF Tracks

LEMMA SameTracks ==
  ASSUME NEW t \in ToolHeadState, NEW u, SameRest(t, u)
  PROVE  Tracks(t, u)
BY FieldTypes DEF Tracks, SameRest

LEMMA FlushTimeRest ==
  ASSUME NEW t, Counted(t), NEW to \in Int, NEW u, u = AdvanceFlushTime(t, to)
  PROVE  Tracks(t, u)
<1> DEFINE
      flush == Later(to, t.last_flush_time)
      want  == Sooner(flush + STEPCOMPRESS_FLUSH_TIME,
                      t.print_time - t.kin_flush_delay)
      steps == Later(want, flush)
      a     == Later(t.generated, steps)
      b     == Later(t.min_restart_time, steps)
<1>t. /\ t \in ToolHeadState
      /\ t.print_time \in Nat /\ t.last_flush_time \in Nat
      /\ t.kin_flush_delay \in Nat /\ t.generated \in Nat
      /\ t.step_gen_time \in Nat
      /\ STEPCOMPRESS_FLUSH_TIME \in Nat
  BY FieldTypes, ConstantTypes DEF Counted
<1>1. flush \in Int
  BY <1>t DEF Later
<1>2. want \in Int
  <2> HIDE DEF flush
  <2> QED BY <1>t, <1>1 DEF Sooner
<1>3. steps \in Int
  <2> HIDE DEF flush, want
  <2> QED BY <1>1, <1>2 DEF Later
<1>4. t.generated <= a
  <2> HIDE DEF steps
  <2> QED BY <1>t, <1>3 DEF Later
<1>5. u = [t EXCEPT !.last_flush_time = flush, !.generated = a,
                   !.min_restart_time = b]
  BY DEF AdvanceFlushTime
<1> HIDE DEF flush, a, b
<1>6. u.trapq = t.trapq /\ u.step_gen_time = t.step_gen_time
  BY <1>t, <1>5 DEF ToolHeadState
<1>7. u.generated = a
  BY <1>t, <1>5 DEF ToolHeadState
<1> QED BY <1>t, <1>4, <1>6, <1>7 DEF Tracks

LEMMA MoveTimeRest ==
  ASSUME NEW t, Counted(t), NEW to \in Nat, NEW u, u = AdvanceMoveTime(t, to)
  PROVE  Tracks(t, u)
<1> DEFINE print == Later(t.print_time, to)
           p     == [t EXCEPT !.print_time = print]
           upto  == print - t.kin_flush_delay - STEPCOMPRESS_FLUSH_TIME
<1>t. /\ t \in ToolHeadState /\ t.print_time \in Nat
      /\ t.kin_flush_delay \in Nat /\ STEPCOMPRESS_FLUSH_TIME \in Nat
  BY FieldTypes, ConstantTypes DEF Counted
<1>1. print \in Nat
  BY <1>t DEF Later
<1>2. u = AdvanceFlushTime(p, upto)
  BY DEF AdvanceMoveTime
<1> HIDE DEF print
<1>3. /\ p \in ToolHeadState /\ SameSteps(t, p) /\ SameRest(t, p)
  BY <1>t, <1>1 DEF ToolHeadState, SameSteps, SameRest
<1>4. upto \in Int
  BY <1>t, <1>1
<1> HIDE DEF p, upto
<1>5. Counted(p)
  BY <1>3 DEF Counted, SameSteps
<1>6. Tracks(p, u)
  BY <1>2, <1>4, <1>5, FlushTimeRest
<1> QED BY <1>3, <1>6 DEF Tracks, SameRest

LEMMA PrintTimeRest ==
  ASSUME NEW t, Counted(t), NEW u, u = CalcPrintTime(t)
  PROVE  SameRest(t, u)
<1> DEFINE kin   == Later(now + MIN_KIN_TIME, t.min_restart_time)
                    + t.kin_flush_delay
           least == Later(now + BUFFER_TIME_START, kin)
<1>1. u = IF least > t.print_time
          THEN [t EXCEPT !.print_time = least, !.synced = least] ELSE t
  BY DEF CalcPrintTime
<1> HIDE DEF least
<1>2. t \in ToolHeadState
  BY DEF Counted
<1>3. CASE u = [t EXCEPT !.print_time = least, !.synced = least]
  BY <1>2, <1>3 DEF ToolHeadState, SameRest
<1>4. CASE u = t
  BY <1>4 DEF SameRest
<1> QED BY <1>1, <1>3, <1>4

LEMMA NoteRest ==
  ASSUME NEW t, Counted(t), NEW time \in Nat, NEW u, u = NoteActivity(t, time)
  PROVE  Tracks(t, u) /\ time <= u.step_gen_time
<1> DEFINE need == Later(t.need_flush_time, time)
           gen  == Later(t.step_gen_time, time)
           wake == IF t.do_kick THEN now ELSE t.flush_timer
           no   == FALSE
<1>1. t \in ToolHeadState /\ t.step_gen_time \in Nat /\ t.generated \in Nat
  BY FieldTypes DEF Counted
<1>2. gen >= time /\ gen >= t.step_gen_time
  BY <1>1 DEF Later
<1>3. u = [t EXCEPT !.need_flush_time = need, !.step_gen_time = gen,
                    !.do_kick = no, !.flush_timer = wake]
  BY DEF NoteActivity
<1> HIDE DEF need, gen, wake, no
<1>4. u.trapq = t.trapq /\ u.generated = t.generated
  BY <1>1, <1>3 DEF ToolHeadState
<1>5. u.step_gen_time = gen
  BY <1>1, <1>3 DEF ToolHeadState
<1> QED BY <1>1, <1>2, <1>4, <1>5 DEF Tracks

LEMMA ResyncRest ==
  ASSUME NEW t, Counted(t), NEW u, u = Resynced(t)
  PROVE  SameRest(t, u)
<1>t. t \in ToolHeadState /\ t.state \in {"NeedPrime", "Priming", "main", "Drip"}
  BY FieldTypes DEF Counted
<1>1. CASE t.state = "main"
  BY <1>1 DEF Resynced, SameRest
<1>2. CASE t.state = "Drip"
  BY <1>2, PrintTimeRest DEF Resynced
<1>3. CASE t.state \in {"NeedPrime", "Priming"}
  <2> DEFINE v == -1
             m == [t EXCEPT !.state = "main", !.need_check_pause = v]
  <2>1. u = CalcPrintTime(m)
    BY <1>3 DEF Resynced
  <2>2. v \in Int \union {Never}
    OBVIOUS
  <2> HIDE DEF v
  <2>3. m \in ToolHeadState /\ SameSteps(t, m) /\ SameRest(t, m)
    BY <1>t, <2>2 DEF ToolHeadState, SameSteps, SameRest
  <2> HIDE DEF m
  <2>4. Counted(m)
    BY <2>3 DEF Counted, SameSteps
  <2> QED BY <2>1, <2>3, <2>4, PrintTimeRest DEF SameRest
<1> QED BY <1>t, <1>1, <1>2, <1>3

LEMMA AppendedRest ==
  ASSUME NEW t \in ToolHeadState, NEW d \in Nat, NEW u, u = Appended(t, d)
  PROVE  u.trapq.rest = u.trapq.end + t.kin_flush_delay
<1> DEFINE q == [start |-> t.print_time, end |-> t.print_time + d,
                 rest |-> t.print_time + d + t.kin_flush_delay]
<1>1. u = [t EXCEPT !.trapq = q]
  BY DEF Appended
<1>2. q.rest = q.end + t.kin_flush_delay
  OBVIOUS
<1> HIDE DEF q
<1>3. u.trapq = q
  BY <1>1 DEF ToolHeadState
<1> QED BY <1>2, <1>3

LEMMA ProcessRest ==
  ASSUME NEW t, Good(t), t.state # "Drip", now \in Nat, NEW d \in Nat,
         NEW u, u = ProcessMoves(t, d)
  PROVE  Rested(u)
<1> DEFINE r == Resynced(t)
           a == Appended(r, d)
           n == NoteActivity(a, a.trapq.rest)
<1>u. u = AdvanceMoveTime(n, a.trapq.end)
  BY DEF ProcessMoves
<1>1. Counted(r) /\ SameSteps(t, r) /\ SameFlush(t, r) /\ r.state = "main"
  BY Resync DEF Good
<1> HIDE DEF r
<1>2. /\ Counted(a) /\ SameSteps(r, a) /\ SameFlush(r, a)
      /\ a.state = r.state
  BY <1>1, AppendedIs
<1> HIDE DEF a
<1>3. Armed(a)
  BY <1>1, <1>2 DEF Good, Armed, SameSteps, SameFlush
<1>4. a.trapq.rest \in Nat /\ a.trapq.end \in Nat
  BY <1>2, FieldTypes DEF Counted
<1>5. Counted(n) /\ Tracks(a, n) /\ a.trapq.rest <= n.step_gen_time
  BY <1>2, <1>3, <1>4, Note, NoteRest
<1> HIDE DEF n
<1>6. Rested(n)
  BY <1>5 DEF Rested, Tracks
<1>7. Tracks(n, u) /\ Counted(u)
  BY <1>u, <1>4, <1>5, MoveTime, MoveTimeRest
<1> QED BY <1>5, <1>6, <1>7, RestStays DEF Counted

LEMMA FlushRest ==
  ASSUME NEW t, Good(t), t.state # "Drip", Rested(t), now \in Nat,
         NEW u, u = Flush(t)
  PROVE  Rested(u)
<1> DEFINE f == [t EXCEPT !.junction_flush = LOOKAHEAD_FLUSH_TIME, !.queue = 0]
<1>1. t \in ToolHeadState /\ LOOKAHEAD_FLUSH_TIME \in Int /\ t.queue \in Nat
  BY ConstantTypes, FieldTypes DEF Good, Counted
<1>2. /\ f \in ToolHeadState /\ SameSteps(t, f) /\ SameFlush(t, f)
      /\ f.print_time = t.print_time /\ f.kin_flush_delay = t.kin_flush_delay
      /\ f.trapq = t.trapq /\ f.state = t.state
  BY <1>1 DEF ToolHeadState, SameSteps, SameFlush
<1>3. f.step_gen_time = t.step_gen_time
  BY <1>1 DEF ToolHeadState
<1>4. u = IF t.queue = 0 THEN f ELSE ProcessMoves(f, t.queue)
  BY DEF Flush
<1> HIDE DEF f
<1>5. Good(f)
  BY <1>2, AlikeGood DEF Alike
<1>6. Rested(f)
  BY <1>2, <1>3 DEF Rested, SameSteps
<1> QED BY <1>1, <1>2, <1>4, <1>5, <1>6, ProcessRest

LEMMA LookaheadRest ==
  ASSUME NEW t, Good(t), t.state # "Drip", Rested(t), now \in Nat,
         NEW u, u = FlushLookahead(t)
  PROVE  Rested(u)
<1> DEFINE f == Flush(t)
           v == -1
<1>1. Good(f) /\ Rested(f)
  BY Flushes, FlushRest
<1>2. u = [f EXCEPT !.state = "NeedPrime", !.need_check_pause = v,
                    !.junction_flush = BUFFER_TIME_HIGH]
  BY DEF FlushLookahead
<1> HIDE DEF f, v
<1>3. SameRest(f, u)
  BY <1>1, <1>2 DEF Good, Counted, ToolHeadState, SameRest
<1> QED BY <1>1, <1>3 DEF Rested, SameRest

(* flush_step_generation goes as far as step_gen_time.                     *)
LEMMA GeneratedRest ==
  ASSUME NEW f, Good(f), Rested(f), NEW u,
         u = [AdvanceFlushTime(f, f.step_gen_time)
                EXCEPT !.min_restart_time = Later(@, f.print_time)]
  PROVE  Rested(u) /\ u.generated >= u.trapq.rest
<1> DEFINE a == AdvanceFlushTime(f, f.step_gen_time)
           m == Later(a.min_restart_time, f.print_time)
<1>1. /\ f \in ToolHeadState /\ f.step_gen_time \in Int
      /\ f.generated \in Nat /\ f.trapq.rest \in Nat
  BY FieldTypes DEF Good, Counted
<1>2. /\ Counted(a) /\ f.step_gen_time <= a.last_flush_time
      /\ a.generated >= a.last_flush_time /\ Tracks(f, a)
  BY <1>1, FlushTime, FlushTimeRest DEF Good
<1>3. u = [a EXCEPT !.min_restart_time = m]
  OBVIOUS
<1> HIDE DEF a, m
<1>4. a \in ToolHeadState /\ a.generated \in Nat /\ a.last_flush_time \in Nat
  BY <1>2, FieldTypes DEF Counted
<1>5. u.generated = a.generated /\ u.trapq = f.trapq
  BY <1>2, <1>3, <1>4 DEF ToolHeadState, Tracks
<1>6. f.trapq.rest <= a.generated
  BY <1>1, <1>2, <1>4 DEF Tracks, Rested
<1>7. u.generated >= u.trapq.rest
  BY <1>1, <1>4, <1>5, <1>6
<1> QED BY <1>5, <1>6, <1>7 DEF Rested

LEMMA StepGenerationRest ==
  ASSUME NEW t, Good(t), t.state # "Drip", Rested(t), now \in Nat,
         NEW u, u = FlushStepGeneration(t)
  PROVE  Rested(u) /\ u.generated >= u.trapq.rest
<1> DEFINE f == FlushLookahead(t)
<1>1. Good(f) /\ Rested(f)
  BY LookaheadFlushes, LookaheadRest
<1>2. u = [AdvanceFlushTime(f, f.step_gen_time)
             EXCEPT !.min_restart_time = Later(@, f.print_time)]
  BY DEF FlushStepGeneration
<1> HIDE DEF f
<1> QED BY <1>1, <1>2, GeneratedRest

LEMMA LastMoveRest ==
  ASSUME NEW t, Good(t), t.state # "Drip", Rested(t), now \in Nat,
         NEW u, u = LastMoveTime(t)
  PROVE  Rested(u)
<1>1. CASE t.state = "main"
  BY <1>1, FlushRest DEF LastMoveTime
<1>2. CASE t.state # "main"
  <2> DEFINE f == FlushLookahead(t)
  <2>1. Good(f) /\ Rested(f)
    BY LookaheadFlushes, LookaheadRest
  <2>2. u = CalcPrintTime(f)
    BY <1>2 DEF LastMoveTime
  <2> HIDE DEF f
  <2>3. SameRest(f, u)
    BY <2>1, <2>2, PrintTimeRest DEF Good
  <2> QED BY <2>1, <2>3 DEF Rested, SameRest
<1> QED BY <1>1, <1>2

LEMMA DweltRest ==
  ASSUME NEW t, Good(t), t.state # "Drip", Rested(t), now \in Nat,
         NEW d \in Nat, NEW u, u = Dwelt(t, d)
  PROVE  Rested(u)
<1> DEFINE l == LastMoveTime(t)
           to == l.print_time + d
<1>1. Good(l) /\ Rested(l)
  BY LastMove, LastMoveRest
<1>2. u = AdvanceMoveTime(l, to)
  BY DEF Dwelt
<1> HIDE DEF l
<1>3. l \in ToolHeadState /\ l.print_time \in Nat
  BY <1>1, FieldTypes DEF Good, Counted
<1>4. to \in Nat
  BY <1>3
<1> HIDE DEF to
<1>5. Tracks(l, u) /\ u \in ToolHeadState
  BY <1>1, <1>2, <1>4, MoveTime, MoveTimeRest DEF Good, Counted
<1> QED BY <1>1, <1>3, <1>5, RestStays

LEMMA AddedRest ==
  ASSUME NEW t, Good(t), t.state # "Drip", Rested(t), now \in Nat,
         NEW d \in Nat, NEW u \in Added(t, d)
  PROVE  Rested(u)
<1>1. t \in ToolHeadState /\ t.queue \in Nat
  BY FieldTypes DEF Good, Counted
<1>2. CASE t.queue = 0
  <2>1. u = [t EXCEPT !.queue = d]
    BY <1>2 DEF Added
  <2>2. SameRest(t, u)
    BY <1>1, <2>1 DEF ToolHeadState, SameRest
  <2> QED BY <2>2 DEF Rested, SameRest
<1>3. CASE t.queue # 0 /\ t.junction_flush > d
  <2> DEFINE q == t.queue + d
             j == t.junction_flush - d
  <2>1. u = [t EXCEPT !.queue = q, !.junction_flush = j]
    BY <1>3 DEF Added
  <2> HIDE DEF q, j
  <2>2. SameRest(t, u)
    BY <1>1, <2>1 DEF ToolHeadState, SameRest
  <2> QED BY <2>2 DEF Rested, SameRest
<1>4. CASE t.queue # 0 /\ ~(t.junction_flush > d)
  <2> DEFINE f == [t EXCEPT !.junction_flush = LOOKAHEAD_FLUSH_TIME]
             g(q) == [f EXCEPT !.queue = q]
  <2>1. /\ f \in ToolHeadState /\ f.queue = t.queue /\ Alike(t, f)
        /\ f.state = t.state
    BY <1>1, ConstantTypes DEF Alike, ToolHeadState, SameSteps, SameFlush
  <2>2. SameRest(t, f)
    BY <1>1 DEF ToolHeadState, SameRest
  <2>3. u = g(f.queue + d) \/ \E p \in 1..t.queue :
                                u = ProcessMoves(g(f.queue + d - p), p)
    BY <1>4 DEF Added
  <2> HIDE DEF f
  <2>4. \A q \in Nat : /\ Alike(f, g(q)) /\ g(q).state = f.state
                       /\ SameRest(f, g(q))
    BY <2>1 DEF Alike, ToolHeadState, SameSteps, SameFlush, SameRest
  <2> HIDE DEF g
  <2>5. CASE u = g(f.queue + d)
    <3>1. f.queue + d \in Nat
      BY <1>1, <2>1
    <3> QED BY <2>2, <2>4, <2>5, <3>1 DEF Rested, SameRest
  <2>6. ASSUME NEW p \in 1..t.queue, u = ProcessMoves(g(f.queue + d - p), p)
        PROVE  Rested(u)
    <3> DEFINE q == f.queue + d - p
    <3>1. q \in Nat /\ p \in Nat /\ u = ProcessMoves(g(q), p)
      BY <1>1, <2>1, <2>6
    <3> HIDE DEF q
    <3>2. Good(f)
      BY <2>1, AlikeGood
    <3>3. Good(g(q)) /\ g(q).state # "Drip"
      BY <2>1, <2>4, <3>1, <3>2, AlikeGood
    <3> QED BY <3>1, <3>3, ProcessRest
  <2> QED BY <2>3, <2>5, <2>6
<1> QED BY <1>1, <1>2, <1>3, <1>4

LEMMA DripEndedRest ==
  ASSUME NEW t, Counted(t), t.state = "Drip", t.queue = 0, ~t.do_kick,
         t.trapq.end <= t.print_time, Rested(t), now \in Nat,
         NEW u, u = DripEnded(t)
  PROVE  Rested(u)
<1> DEFINE x == [t EXCEPT !.flush_timer = now]
           l == [x EXCEPT !.junction_flush = LOOKAHEAD_FLUSH_TIME, !.queue = 0]
           f == FlushLookahead(x)
           v == -1
<1>t. /\ t \in ToolHeadState /\ now \in Int \union {Never}
      /\ LOOKAHEAD_FLUSH_TIME \in Int /\ BUFFER_TIME_HIGH \in Int
      /\ v \in Int \union {Never}
  BY ConstantTypes DEF Counted
<1>1. /\ x \in ToolHeadState /\ SameSteps(t, x) /\ SameRest(t, x)
      /\ x.queue = 0
  BY <1>t DEF ToolHeadState, SameSteps, SameRest
<1>2. f = [Flush(x) EXCEPT !.state = "NeedPrime", !.need_check_pause = v,
                           !.junction_flush = BUFFER_TIME_HIGH]
  BY DEF FlushLookahead
<1>u. u = [AdvanceFlushTime(f, f.step_gen_time)
             EXCEPT !.min_restart_time = Later(@, f.print_time)]
  BY DEF DripEnded, FlushStepGeneration
<1>3. Flush(x) = l
  BY <1>1 DEF Flush
<1> HIDE DEF x, f, v
<1>4. l \in ToolHeadState /\ SameSteps(x, l) /\ SameRest(x, l)
  BY <1>t, <1>1 DEF ToolHeadState, SameSteps, SameRest
<1> HIDE DEF l
<1>5. f \in ToolHeadState /\ SameSteps(l, f) /\ SameRest(l, f)
  BY <1>t, <1>2, <1>3, <1>4 DEF ToolHeadState, SameSteps, SameRest
<1>6. Counted(f)
  BY <1>1, <1>4, <1>5 DEF Counted, SameSteps
<1>7. Rested(f)
  BY <1>1, <1>4, <1>5 DEF SameRest, Rested
<1>8. f.step_gen_time \in Int
  BY <1>5, FieldTypes
<1> DEFINE a == AdvanceFlushTime(f, f.step_gen_time)
           m == Later(a.min_restart_time, f.print_time)
<1>9. Tracks(f, a) /\ a \in ToolHeadState
  BY <1>6, <1>8, FlushTime, FlushTimeRest DEF Counted
<1>10. u = [a EXCEPT !.min_restart_time = m]
  BY <1>u
<1> HIDE DEF a, m
<1>11. SameRest(a, u)
  BY <1>9, <1>10 DEF ToolHeadState, SameRest
<1>12. Rested(a)
  BY <1>5, <1>7, <1>9, RestStays
<1> QED BY <1>11, <1>12 DEF Rested, SameRest

LEMMA BeginRest ==
  ASSUME NEW t, Good(t), t.state # "Drip", Rested(t), now \in Nat,
         NEW d \in Nat, BeginDrip(t, d)
  PROVE  DripRest'
<1> DEFINE l == Flush(t)
           no == FALSE
           f == [l EXCEPT !.state = "Drip", !.need_check_pause = Never,
                          !.flush_timer = Never, !.do_kick = no,
                          !.junction_flush = BUFFER_TIME_HIGH]
           r == Resynced(f)
           a == Appended(r, d)
<1>l. Good(l) /\ l.queue = 0 /\ l.state # "Drip" /\ Rested(l)
  BY Flushes, FlushRest
<1>n. no \in BOOLEAN /\ ~no
  OBVIOUS
<1>b. \/ th' = DripEnded(f)
      \/ /\ th' = [a EXCEPT !.queue = d,
                            !.junction_flush = LOOKAHEAD_FLUSH_TIME]
         /\ greenlet' = [at |-> "drip", wake |-> now, drip |-> a.trapq.end]
  BY DEF BeginDrip
<1> HIDE DEF l, no
<1>t. l \in ToolHeadState /\ BUFFER_TIME_HIGH \in Int
  BY <1>l, ConstantTypes DEF Good, Counted
<1>1. /\ f \in ToolHeadState /\ SameSteps(l, f) /\ SameRest(l, f)
      /\ f.print_time = l.print_time /\ f.queue = l.queue
      /\ f.state = "Drip"
  BY <1>t, <1>n DEF ToolHeadState, SameSteps, SameRest
<1>2. f.do_kick = no
  BY <1>t, <1>n DEF ToolHeadState
<1> HIDE DEF f
<1>3. Counted(f) /\ f.trapq.end <= f.print_time /\ Rested(f)
  BY <1>l, <1>1 DEF Good, Counted, SameSteps, SameRest, Rested
<1>4. CASE th' = DripEnded(f)
  <2>1. Rested(th') /\ th'.state = "NeedPrime"
    BY <1>1, <1>2, <1>3, <1>4, <1>l, <1>n, DripEnds, DripEndedRest
  <2> QED BY <2>1 DEF DripRest, Rested
<1>5. CASE /\ th' = [a EXCEPT !.queue = d,
                              !.junction_flush = LOOKAHEAD_FLUSH_TIME]
           /\ greenlet' = [at |-> "drip", wake |-> now, drip |-> a.trapq.end]
  <2>1. Counted(r) /\ r.state = "Drip"
    BY <1>1, <1>3, Resync
  <2> HIDE DEF r
  <2>2. /\ Counted(a) /\ a.kin_flush_delay = r.kin_flush_delay
        /\ a.state = r.state
    BY <2>1, AppendedIs
  <2>3. a.trapq.rest = a.trapq.end + r.kin_flush_delay
    BY <2>1, AppendedRest DEF Counted
  <2> HIDE DEF a
  <2>4. /\ th'.kin_flush_delay = a.kin_flush_delay /\ th'.state = a.state
        /\ th'.trapq = a.trapq
    BY <1>5, <2>2 DEF Counted, ToolHeadState
  <2>5. greenlet'.drip = a.trapq.end
    BY <1>5
  <2> QED BY <2>1, <2>2, <2>3, <2>4, <2>5 DEF DripRest
<1> QED BY <1>b, <1>4, <1>5

LEMMA ContinueRest ==
  ASSUME NEW t, Good(t), t.state # "Drip", Rested(t), now \in Nat,
         NEW d \in Nat, Continue(t, d)
  PROVE  DripRest'
<1>1. CASE d = 0
  <2>1. th' = t
    BY <1>1 DEF Continue
  <2> QED BY <2>1 DEF DripRest, Rested
<1>2. CASE d # 0
  BY <1>2, BeginRest DEF Continue
<1> QED BY <1>1, <1>2

LEMMA PauseRest ==
  ASSUME NEW t, Good(t), t.state # "Drip", Rested(t), now \in Nat,
         NEW d \in Nat, PauseLoop(t, d)
  PROVE  DripRest'
<1> DEFINE p(x) == [t EXCEPT !.need_check_pause = x]
           due == now + BUFFER_TIME_HIGH + TENTH
<1>t. t \in ToolHeadState /\ due \in Int
  BY ConstantTypes DEF Good, Counted
<1>1. \/ Continue(t, d)
      \/ \E x \in Int \union {Never} : Continue(p(x), d)
      \/ th' = t
  BY <1>t DEF PauseLoop
<1>2. ASSUME NEW x \in Int \union {Never}, Continue(p(x), d)
      PROVE  DripRest'
  <2>1. Alike(t, p(x)) /\ p(x).state = t.state
    BY <1>t DEF Alike, ToolHeadState, SameSteps, SameFlush
  <2>2. SameRest(t, p(x))
    BY <1>t DEF ToolHeadState, SameRest
  <2> HIDE DEF p
  <2>3. Good(p(x)) /\ Rested(p(x))
    BY <2>1, <2>2, AlikeGood DEF Rested, SameRest
  <2> QED BY <1>2, <2>1, <2>3, ContinueRest
<1>3. CASE th' = t
  BY <1>3 DEF DripRest, Rested
<1>4. CASE Continue(t, d)
  BY <1>4, ContinueRest
<1> QED BY <1>1, <1>2, <1>3, <1>4

LEMMA CheckRest ==
  ASSUME NEW t, Good(t), t.state # "Drip", Rested(t), now \in Nat,
         NEW d \in Nat, CheckPause(t, d)
  PROVE  DripRest'
<1> DEFINE p == Primed(t)
<1>1. PauseLoop(p, d)
  BY DEF CheckPause
<1>2. CASE t.state = "main"
  BY <1>1, <1>2, PauseRest DEF Primed
<1>3. CASE t.state # "main"
  <2> DEFINE v == -1
             wake == now + Later(TENTH, t.print_time - now - BUFFER_TIME_LOW)
  <2>1. p = [t EXCEPT !.state = "Priming", !.need_check_pause = v,
                      !.priming_timer = wake]
    BY <1>3 DEF Primed
  <2>2. t \in ToolHeadState /\ t.print_time \in Nat
    BY FieldTypes DEF Good, Counted
  <2>3. v \in Int \union {Never} /\ wake \in Int \union {Never}
    BY <2>2, ConstantTypes DEF Later
  <2> HIDE DEF p, v, wake
  <2>4. Alike(t, p) /\ p.state = "Priming"
    BY <2>1, <2>2, <2>3 DEF Alike, ToolHeadState, SameSteps, SameFlush
  <2>5. SameRest(t, p)
    BY <2>1, <2>2 DEF ToolHeadState, SameRest
  <2>6. Good(p) /\ Rested(p)
    BY <2>4, <2>5, AlikeGood DEF Rested, SameRest
  <2> QED BY <1>1, <2>4, <2>6, PauseRest
<1> QED BY <1>2, <1>3

(* The steps of the specification.                                         *)
LEMMA ToldRest ==
  ASSUME IInv
  PROVE  SameRest(th, TH)
<1>1. th \in ToolHeadState
  BY DEF IInv, Good, Counted
<1> QED BY <1>1 DEF TH, ToolHeadState, SameRest

LEMMA StaysRest ==
  ASSUME DripRest, SameRest(th, th'), th'.state = th.state,
         th'.kin_flush_delay = th.kin_flush_delay,
         greenlet'.drip = greenlet.drip
  PROVE  DripRest'
BY DEF DripRest, Rested, SameRest

\* What SetAtRest says of a step.
AtRestThen == SetPosition \/ (\E d \in Delays : NoteScanTime(d)) =>
                th'.generated >= th'.trapq.rest

LEMMA CommandsRest ==
  ASSUME IInv, DripRest, GiveCommand
  PROVE  DripRest'
<1>i. greenlet.at # "drip"
  BY IdleIs DEF GiveCommand, Command, Move, Dwell, DripMove, GetLastMoveTime,
                SetPosition, WaitMoves, NoteScanTime
<1>t. /\ now \in Nat /\ TH.state # "Drip" /\ Good(TH) /\ th \in ToolHeadState
      /\ th.state # "Drip" /\ \A d \in Durations : d \in Nat
  BY <1>i, NothingTold, Typed, AtIdle DEF IInv, Good, Counted
<1>r. Rested(TH)
  BY <1>t, ToldRest DEF DripRest, Rested, SameRest
<1>1. ASSUME NEW d \in Durations, Move(d)
      PROVE  DripRest'
  <2>1. PICK u \in Added(TH, d) :
          IF PauseDue(u) THEN CheckPause(u, 0) ELSE Continue(u, 0)
    BY <1>1 DEF Move
  <2>2. Good(u) /\ u.state # "Drip" /\ Rested(u)
    BY <1>t, <1>r, Adds, AddedRest
  <2> QED BY <1>t, <2>1, <2>2, CheckRest, ContinueRest
<1>2. ASSUME NEW d \in Durations, Dwell(d)
      PROVE  DripRest'
  <2> DEFINE u == Dwelt(TH, d)
  <2>1. Good(u) /\ u.state # "Drip" /\ Rested(u)
    BY <1>t, <1>r, Dwells, DweltRest
  <2>2. CheckPause(u, 0)
    BY <1>2 DEF Dwell
  <2> HIDE DEF u
  <2> QED BY <1>t, <2>1, <2>2, CheckRest
<1>3. ASSUME NEW d \in Durations, DripMove(d)
      PROVE  DripRest'
  <2> DEFINE u == Dwelt(TH, th.kin_flush_delay)
  <2>1. th.kin_flush_delay \in Nat
    BY <1>t, FieldTypes
  <2>2. Good(u) /\ u.state # "Drip" /\ Rested(u)
    BY <1>t, <1>r, <2>1, Dwells, DweltRest
  <2>3. CheckPause(u, d)
    BY <1>3 DEF DripMove
  <2> HIDE DEF u
  <2> QED BY <1>t, <2>2, <2>3, CheckRest
<1>4. ASSUME GetLastMoveTime
      PROVE  DripRest'
  <2> DEFINE u == LastMoveTime(TH)
  <2>1. Good(u) /\ u.state # "Drip" /\ Rested(u)
    BY <1>t, <1>r, LastMove, LastMoveRest
  <2>2. Continue(u, 0)
    BY <1>4 DEF GetLastMoveTime
  <2> HIDE DEF u
  <2> QED BY <1>t, <2>1, <2>2, ContinueRest
<1>5. ASSUME SetPosition
      PROVE  DripRest'
  <2> DEFINE u == FlushStepGeneration(TH)
  <2>1. Good(u) /\ u.state # "Drip" /\ Rested(u)
    BY <1>t, <1>r, StepGeneration, StepGenerationRest
  <2>2. Continue(u, 0)
    BY <1>5 DEF SetPosition
  <2> HIDE DEF u
  <2> QED BY <1>t, <2>1, <2>2, ContinueRest
<1>6. ASSUME WaitMoves
      PROVE  DripRest'
  <2> DEFINE u == FlushLookahead(TH)
  <2>1. u.state = "NeedPrime" /\ Rested(u)
    BY <1>t, <1>r, LookaheadFlushes, LookaheadRest
  <2>2. th' = u
    BY <1>6 DEF WaitMoves, WaitLoop
  <2> HIDE DEF u
  <2> QED BY <2>1, <2>2 DEF DripRest, Rested
<1>7. ASSUME NEW d \in Delays, NoteScanTime(d)
      PROVE  DripRest'
  <2> DEFINE u == FlushStepGeneration(TH)
             w == [u EXCEPT !.kin_flush_delay = d]
  <2>1. Good(u) /\ u.state = "NeedPrime" /\ Rested(u)
    BY <1>t, <1>r, StepGeneration, StepGenerationRest
  <2>2. th' = w
    BY <1>7 DEF NoteScanTime, Continue
  <2> HIDE DEF u
  <2>3. SameRest(u, w) /\ w.state = "NeedPrime"
    BY <2>1 DEF Good, Counted, ToolHeadState, SameRest
  <2> QED BY <2>1, <2>2, <2>3 DEF DripRest, Rested, SameRest
<1> QED BY <1>1, <1>2, <1>3, <1>4, <1>5, <1>6, <1>7 DEF GiveCommand

LEMMA RestNow ==
  ASSUME IInv, DripRest
  PROVE  AtRestThen
<1>1. SUFFICES ASSUME SetPosition \/ \E d \in Delays : NoteScanTime(d)
               PROVE  th'.generated >= th'.trapq.rest
  BY DEF AtRestThen
<1>i. greenlet.at # "drip"
  BY <1>1, IdleIs DEF Command, SetPosition, NoteScanTime
<1>t. /\ now \in Nat /\ TH.state # "Drip" /\ Good(TH) /\ th.state # "Drip"
  BY <1>i, NothingTold, Typed, AtIdle
<1>r. Rested(TH)
  BY <1>t, ToldRest DEF DripRest, Rested, SameRest
<1> DEFINE u == FlushStepGeneration(TH)
           w(d) == [u EXCEPT !.kin_flush_delay = d]
<1>2. Good(u) /\ u.generated >= u.trapq.rest
  BY <1>t, <1>r, StepGeneration, StepGenerationRest
<1>3. th' = u \/ \E d \in Delays : th' = w(d)
  BY <1>1 DEF SetPosition, NoteScanTime, Continue
<1> HIDE DEF u
<1>4. \A d : SameRest(u, w(d))
  BY <1>2 DEF Good, Counted, ToolHeadState, SameRest
<1> HIDE DEF w
<1> QED BY <1>2, <1>3, <1>4 DEF SameRest

LEMMA WaitersRest ==
  ASSUME IInv, DripRest, Resume \/ WaitMore
  PROVE  DripRest'
<1>t. /\ now \in Nat /\ greenlet.drip \in Nat
      /\ th.state # "Drip" /\ TH.state # "Drip" /\ Good(TH)
  BY NothingTold, Typed, AtIdle DEF Resume, WaitMore
<1>1. Rested(TH)
  BY <1>t, ToldRest DEF DripRest, Rested, SameRest
<1>2. CASE Resume
  BY <1>t, <1>1, <1>2, PauseRest DEF Resume
<1>3. CASE WaitMore
  <2>1. th' = TH
    BY <1>3 DEF WaitMore, WaitLoop
  <2> QED BY <1>t, <1>1, <2>1 DEF DripRest, Rested
<1> QED BY <1>2, <1>3

LEMMA DripsRest ==
  ASSUME IInv, DripRest, DripSegment \/ DripStops \/ DripDone \/ Complete
  PROVE  DripRest'
<1>d. greenlet.at = "drip"
  BY DEF DripSegment, DripStops, DripDone, Complete, Dripping
<1>t. /\ th.state = "Drip" /\ TH.state = "Drip" /\ ~TH.do_kick
      /\ Counted(TH) /\ Armed(TH) /\ StepsDone(TH)
      /\ TH.trapq = th.trapq /\ th.trapq.end = greenlet.drip
      /\ TH.kin_flush_delay = th.kin_flush_delay
      /\ th.print_time \in Nat /\ TH.print_time = th.print_time
      /\ th.kin_flush_delay \in Nat /\ TH \in ToolHeadState
      /\ SameSteps(th, TH) /\ SameRest(th, TH)
  BY <1>d, DripIs, NothingTold, ToldRest
<1>g. /\ now \in Nat /\ greenlet \in GreenletState /\ greenlet.drip \in Nat
  BY Typed
<1>r. th.trapq.rest = greenlet.drip + th.kin_flush_delay
  BY <1>t DEF DripRest
<1>s. ASSUME th' = TH, NEW w, greenlet' = [greenlet EXCEPT !.wake = w]
      PROVE  DripRest'
  <2>1. greenlet'.drip = greenlet.drip
    BY <1>g, <1>s DEF GreenletState
  <2> QED BY <1>t, <1>s, <2>1, StaysRest
<1>e. ASSUME NEW x, Counted(x), x.state = "Drip", x.queue = 0, ~x.do_kick,
             x.trapq.end <= x.print_time, Rested(x), th' = DripEnded(x)
      PROVE  DripRest'
  <2>1. th'.state = "NeedPrime" /\ Rested(th')
    BY <1>e, <1>g, DripEnds, DripEndedRest
  <2> QED BY <2>1 DEF DripRest, Rested
<1>1. CASE DripSegment
  <2> DEFINE to == Sooner(th.print_time + DRIP_SEGMENT_TIME, greenlet.drip)
             n == NoteActivity(TH, to + th.kin_flush_delay)
  <2>1. to \in Nat /\ to + th.kin_flush_delay \in Nat
    BY <1>t, <1>g, ConstantTypes DEF Sooner
  <2>2. \/ th' = TH /\ \E w : greenlet' = [greenlet EXCEPT !.wake = w]
        \/ th' = AdvanceMoveTime(n, to) /\ greenlet' = greenlet
    BY <1>1 DEF DripSegment
  <2> HIDE DEF to
  <2>3. CASE th' = AdvanceMoveTime(n, to) /\ greenlet' = greenlet
    <3>1. Counted(n) /\ SameMode(TH, n)
      BY <1>t, <1>g, <2>1, Note
    <3> HIDE DEF n
    <3>2. SameMode(n, th')
      BY <2>1, <2>3, <3>1, MoveTime
    <3>3. /\ th'.state = "Drip" /\ th'.trapq = th.trapq
          /\ th'.kin_flush_delay = th.kin_flush_delay
      BY <1>t, <3>1, <3>2 DEF SameMode
    <3> QED BY <1>r, <2>3, <3>3 DEF DripRest
  <2> QED BY <1>s, <2>2, <2>3
<1>2. CASE DripStops
  <2> DEFINE q == Truncated(TH.trapq, th.generated)
             x == [TH EXCEPT !.queue = 0, !.trapq = q]
  <2>1. th' = DripEnded(x)
    BY <1>2 DEF DripStops
  <2>2. /\ th.trapq \in Stretch /\ th.generated \in Nat
        /\ th.trapq.end \in Nat /\ th.trapq.rest \in Nat
        /\ th.min_restart_time \in Nat /\ th \in ToolHeadState
    BY FieldTypes DEF IInv, Good, Counted
  <2>3. q \in Stretch /\ q.end <= th.generated /\ q.rest <= th.generated
    <3> DEFINE end  == Sooner(th.trapq.end, th.generated)
               rest == Sooner(th.trapq.rest, th.generated)
    <3>1. /\ end \in Nat /\ rest \in Nat /\ end <= th.generated
          /\ rest <= th.generated
      BY <2>2 DEF Sooner
    <3>2. q = [th.trapq EXCEPT !.end = end, !.rest = rest]
      BY <1>t DEF Truncated
    <3> HIDE DEF q, end, rest
    <3> QED BY <2>2, <3>1, <3>2 DEF Stretch
  <2>4. th.generated <= th.print_time
    BY <1>t, <2>2 DEF Counted, StepsDone, SameSteps
  <2> HIDE DEF q
  <2>5. /\ x \in ToolHeadState /\ SameSteps(TH, x) /\ SameFlush(TH, x)
        /\ x.state = "Drip" /\ x.queue = 0 /\ x.trapq = q
        /\ x.print_time = TH.print_time
    BY <1>t, <2>3 DEF ToolHeadState, SameSteps, SameFlush
  <2> HIDE DEF x
  <2>6. Counted(x) /\ ~x.do_kick /\ x.trapq.end <= x.print_time
    BY <1>t, <2>2, <2>3, <2>4, <2>5, FieldTypes
       DEF Counted, SameSteps, SameFlush, Stretch
  <2>7. Rested(x)
    BY <1>t, <2>3, <2>5 DEF Rested, SameSteps
  <2> QED BY <1>e, <2>1, <2>5, <2>6, <2>7
<1>3. CASE DripDone
  <2> DEFINE n == NoteActivity(TH, greenlet.drip + th.kin_flush_delay)
             a == AdvanceMoveTime(n, greenlet.drip)
             x == [a EXCEPT !.queue = 0]
  <2>1. th' = DripEnded(x)
    BY <1>3 DEF DripDone
  <2>2. greenlet.drip + th.kin_flush_delay \in Nat
    BY <1>t, <1>g
  <2>3. /\ Counted(n) /\ SameMode(TH, n) /\ ~n.do_kick
        /\ greenlet.drip + th.kin_flush_delay <= n.step_gen_time
    BY <1>t, <1>g, <2>2, Note, NoteRest
  <2> HIDE DEF n
  <2>r. Rested(n)
    BY <1>r, <1>t, <2>3 DEF Rested, SameMode
  <2>4. /\ Counted(a) /\ SameMode(n, a) /\ SameFlush(n, a)
        /\ a.print_time >= greenlet.drip /\ Tracks(n, a)
    BY <1>g, <2>3, MoveTime, MoveTimeRest
  <2> HIDE DEF a
  <2>5. /\ a.state = "Drip" /\ ~a.do_kick /\ a.trapq = th.trapq
        /\ a \in ToolHeadState
    BY <1>t, <2>3, <2>4 DEF SameMode, SameFlush, Counted
  <2>6. /\ x \in ToolHeadState /\ SameSteps(a, x) /\ SameFlush(a, x)
        /\ x.state = "Drip" /\ x.queue = 0 /\ x.trapq = a.trapq
        /\ x.print_time = a.print_time
    BY <2>5 DEF ToolHeadState, SameSteps, SameFlush
  <2>7. SameRest(a, x)
    BY <2>5 DEF ToolHeadState, SameRest
  <2> HIDE DEF x
  <2>8. Counted(x) /\ ~x.do_kick
    BY <2>4, <2>5, <2>6 DEF Counted, SameSteps, SameFlush
  <2>9. x.trapq.end <= x.print_time
    BY <1>t, <1>g, <2>4, <2>5, <2>6, FieldTypes
  <2>10. Rested(x)
    <3>1. Rested(a)
      BY <2>3, <2>4, <2>r, RestStays DEF Counted
    <3> QED BY <2>7, <3>1 DEF Rested, SameRest
  <2> QED BY <1>e, <2>1, <2>6, <2>8, <2>9, <2>10
<1>4. CASE Complete
  <2>1. th' = TH /\ \E w : greenlet' = [greenlet EXCEPT !.wake = w]
    BY <1>4 DEF Complete
  <2> QED BY <1>s, <2>1
<1> QED BY <1>1, <1>2, <1>3, <1>4

LEMMA QueuesRest ==
  ASSUME NEW t, Good(t), Rested(t), now \in Nat, NEW u, u = FlushQueues(t)
  PROVE  Rested(u)
<1> DEFINE end == t.need_flush_time + BGFLUSH_EXTRA_TIME
           to  == Sooner(end, now + BGFLUSH_LOW_TIME + BGFLUSH_BATCH_TIME)
           a   == IF t.last_flush_time - now > BGFLUSH_LOW_TIME
                  THEN t ELSE AdvanceFlushTime(t, to)
           f   == IF t.last_flush_time >= end THEN t ELSE a
           wake == f.last_flush_time - BGFLUSH_LOW_TIME
           yes == TRUE
<1>t. /\ t \in ToolHeadState /\ t.need_flush_time \in Nat
      /\ BGFLUSH_EXTRA_TIME \in Nat /\ BGFLUSH_LOW_TIME \in Nat
      /\ BGFLUSH_BATCH_TIME \in Nat
  BY FieldTypes, ConstantTypes DEF Good, Counted
<1>1. to \in Int
  BY <1>t DEF Sooner
<1>2. u = [f EXCEPT !.do_kick = yes, !.flush_timer = Never]
      \/ u = [f EXCEPT !.flush_timer = wake]
  BY DEF FlushQueues
<1>3. f = t \/ f = AdvanceFlushTime(t, to)
  OBVIOUS
<1> HIDE DEF f, to, yes, wake
<1>4. f \in ToolHeadState /\ Rested(f)
  <2>1. CASE f = t
    BY <1>t, <2>1
  <2>2. CASE f = AdvanceFlushTime(t, to)
    <3>1. f \in ToolHeadState /\ Tracks(t, f)
      BY <1>1, <2>2, FlushTime, FlushTimeRest DEF Good, Counted
    <3> QED BY <1>t, <3>1, RestStays
  <2> QED BY <1>3, <2>1, <2>2
<1>5. SameRest(f, u)
  <2>1. CASE u = [f EXCEPT !.do_kick = yes, !.flush_timer = Never]
    BY <1>4, <2>1 DEF ToolHeadState, SameRest
  <2>2. CASE u = [f EXCEPT !.flush_timer = wake]
    BY <1>4, <2>2 DEF ToolHeadState, SameRest
  <2> QED BY <1>2, <2>1, <2>2
<1> QED BY <1>4, <1>5 DEF Rested, SameRest

LEMMA TimersRest ==
  ASSUME IInv, DripRest, GoodStep,
         PrimingHandler \/ FlushHandler \/ Shutdown \/ Tick
  PROVE  DripRest'
<1>t. /\ Good(th) /\ Good(TH) /\ SameRest(th, TH) /\ SameMode(th, TH)
      /\ SameFlush(th, TH) /\ TH \in ToolHeadState /\ now \in Nat
      /\ th.state \in {"NeedPrime", "Priming", "main", "Drip"}
  BY NothingTold, ToldRest, Typed, FieldTypes DEF IInv, Good, Counted
<1>0. greenlet' = greenlet
  BY DEF PrimingHandler, FlushHandler, Shutdown, Tick, Elapse
<1>1. ASSUME SameRest(TH, th'), th'.state = TH.state,
             th'.kin_flush_delay = TH.kin_flush_delay
      PROVE  DripRest'
  BY <1>t, <1>0, <1>1, StaysRest DEF SameRest, SameMode
<1>2. th.state # "Drip" => Rested(TH)
  BY <1>t DEF DripRest, Rested, SameRest
<1>3. CASE PrimingHandler
  <2> DEFINE t == [TH EXCEPT !.priming_timer = Never]
  <2>1. th' = IF t.state = "Priming" THEN FlushLookahead(t) ELSE t
    BY <1>3 DEF PrimingHandler
  <2>2. /\ Alike(TH, t) /\ t.state = TH.state
        /\ t.kin_flush_delay = TH.kin_flush_delay
    BY <1>t DEF Alike, ToolHeadState, SameSteps, SameFlush
  <2>3. SameRest(TH, t)
    BY <1>t DEF ToolHeadState, SameRest
  <2> HIDE DEF t
  <2>4. CASE t.state = "Priming"
    <3>1. Good(t) /\ Rested(t)
      BY <1>t, <1>2, <2>2, <2>3, <2>4, AlikeGood DEF SameMode, Rested, SameRest
    <3>2. Rested(th') /\ th'.state = "NeedPrime"
      BY <1>t, <2>1, <2>4, <3>1, LookaheadFlushes, LookaheadRest
    <3> QED BY <3>2 DEF DripRest, Rested
  <2>5. CASE t.state # "Priming"
    BY <1>1, <2>1, <2>2, <2>3, <2>5
  <2> QED BY <2>4, <2>5
<1>4. CASE FlushHandler
  <2>1. /\ th.flush_timer # Never
        /\ th' = IF RunningNormally(th)
                 THEN [TH EXCEPT !.flush_timer = th.print_time - BUFFER_TIME_LOW]
                 ELSE FlushQueues(IF th.state = "main" THEN FlushLookahead(TH)
                                  ELSE TH)
    BY <1>4 DEF FlushHandler, Due
  <2>2. th.state # "Drip" /\ TH.state # "Drip" /\ Rested(TH) /\ TH.state = th.state
        /\ ~TH.do_kick
    BY <1>t, <1>2, <2>1 DEF Good, Armed, SameMode, SameFlush
  <2>3. CASE RunningNormally(th)
    <3> DEFINE wake == th.print_time - BUFFER_TIME_LOW
    <3>1. th' = [TH EXCEPT !.flush_timer = wake]
      BY <2>1, <2>3
    <3> HIDE DEF wake
    <3>2. /\ SameRest(TH, th') /\ th'.state = TH.state
          /\ th'.kin_flush_delay = TH.kin_flush_delay
      BY <1>t, <3>1 DEF ToolHeadState, SameRest
    <3> QED BY <1>1, <3>2
  <2>4. CASE ~RunningNormally(th)
    <3> DEFINE l == IF th.state = "main" THEN FlushLookahead(TH) ELSE TH
    <3>1. /\ Good(l) /\ Rested(l) /\ l.state \in {"NeedPrime", "Priming"}
          /\ ~l.do_kick
      <4>1. CASE th.state = "main"
        <5>1. l = FlushLookahead(TH)
          BY <4>1
        <5> HIDE DEF l
        <5>2. /\ Good(l) /\ Follows(TH, l) /\ l.state = "NeedPrime"
              /\ Rested(l)
          BY <1>t, <2>2, <5>1, LookaheadFlushes, LookaheadRest
        <5> QED BY <2>2, <5>2 DEF Follows
      <4>2. CASE th.state # "main"
        BY <1>t, <2>2, <4>2
      <4> QED BY <4>1, <4>2
    <3>2. th' = FlushQueues(l)
      BY <2>1, <2>4
    <3> HIDE DEF l
    <3>3. Rested(th') /\ th'.state = l.state
      BY <1>t, <3>1, <3>2, QueuesFlushed, QueuesRest
    <3> QED BY <3>1, <3>3 DEF DripRest, Rested
  <2> QED BY <2>3, <2>4
<1>5. CASE Shutdown
  <2> DEFINE no == FALSE
  <2>1. th' = [TH EXCEPT !.can_pause = no, !.queue = 0,
                         !.junction_flush = LOOKAHEAD_FLUSH_TIME]
    BY <1>5 DEF Shutdown
  <2> HIDE DEF no
  <2>2. /\ SameRest(TH, th') /\ th'.state = TH.state
        /\ th'.kin_flush_delay = TH.kin_flush_delay
    BY <1>t, <2>1 DEF ToolHeadState, SameRest
  <2> QED BY <1>1, <2>2
<1>6. CASE Tick
  <2>1. th' = TH
    BY <1>6 DEF Tick, Elapse
  <2>2. SameRest(TH, th')
    BY <2>1 DEF SameRest
  <2> QED BY <1>1, <2>1, <2>2
<1> QED BY <1>3, <1>4, <1>5, <1>6

LEMMA InitRest == Init => DripRest
BY DEF Init, DripRest, Rested

LEMMA NextRest ==
  ASSUME IInv, DripRest, [Next]_vars
  PROVE  DripRest'
<1>1. CASE UNCHANGED vars
  BY <1>1 DEF vars, DripRest, Rested
<1>2. CASE GiveCommand
  BY <1>2, CommandsRest
<1>3. CASE Resume \/ WaitMore
  BY <1>3, WaitersRest
<1>4. CASE DripSegment \/ DripStops \/ DripDone \/ Complete
  BY <1>4, DripsRest
<1>5. CASE PrimingHandler \/ FlushHandler \/ Shutdown \/ Tick
  <2>1. GoodStep
    BY <1>5, PrimingGood, FlushGood, ShutdownGood, TickGood
  <2> QED BY <1>5, <2>1, TimersRest
<1> QED BY <1>1, <1>2, <1>3, <1>4, <1>5 DEF Next, Work, AtRest

(* When the position is set or the smoothing is changed (toolhead.py:      *)
(* 456-463, 584-592, after flush_step_generation, 370-373), all steps of   *)
(* the moves before have been generated to where the smoothed movement     *)
(* comes to rest, after moves that were cut short by an endstop too.       *)
THEOREM ToolHeadSetAtRest == Spec => SetAtRest
<1>1. IInv /\ DripRest /\ [Next]_vars => DripRest'
  BY NextRest
<1>2. IInv /\ DripRest /\ [Next]_vars =>
        [SetPosition \/ (\E d \in Delays : NoteScanTime(d)) =>
           th'.generated >= th'.trapq.rest]_vars
  BY RestNow DEF AtRestThen
<1>3. Spec => []DripRest
  BY <1>1, InitRest, Inductive, PTL DEF Spec
<1> QED BY <1>2, <1>3, Inductive, PTL DEF Spec, SetAtRest

-----------------------------------------------------------------------------
(* Steps reach the micro-controller in time when the reactor is not too    *)
(* late for the times of the code.  How far a handler comes is seen from   *)
(* the moment n it runs at.                                                *)

\* The relations of the constants that this rests on: those of toolhead.py,
\* with delays of less than 0.9 s, have them when the reactor is late by less
\* than 25 ms.
Punctual ==
  /\ BGFLUSH_LOW_TIME <= BUFFER_TIME_START
  /\ BGFLUSH_LOW_TIME <= BUFFER_TIME_LOW
  /\ Late < DRIP_TIME
  /\ Late + STEPCOMPRESS_FLUSH_TIME <= MIN_KIN_TIME
  /\ MIN_KIN_TIME <= DRIP_TIME + STEPCOMPRESS_FLUSH_TIME
  /\ 2 * Late + STEPCOMPRESS_FLUSH_TIME < BGFLUSH_LOW_TIME
  /\ BUFFER_TIME_START + Late <= BUFFER_TIME_HIGH
  /\ BUFFER_TIME_START + 2 * Late < DRIP_TIME + BGFLUSH_LOW_TIME
  /\ \A d \in Delays :
       /\ Late + d + STEPCOMPRESS_FLUSH_TIME < BUFFER_TIME_LOW
       /\ 2 * Late + d + STEPCOMPRESS_FLUSH_TIME < BUFFER_TIME_HIGH

\* Nothing is left to flush.
NoneLeft(t) == t.need_flush_time <= t.last_flush_time

\* What is flushed has come close to the print time.
Near(t) ==
  t.print_time
    <= t.last_flush_time + t.kin_flush_delay + STEPCOMPRESS_FLUSH_TIME

\* The flush timer comes before the steps run out, and before a print time
\* that the next moves may begin at.
TimerKept(n, t) ==
  /\ n <= t.flush_timer + Late
  /\ \/ t.flush_timer + Late < t.last_flush_time
     \/ NoneLeft(t) /\ t.flush_timer <= n
  /\ \/ t.flush_timer <= n
     \/ t.flush_timer + BGFLUSH_LOW_TIME <= t.print_time
     \/ t.flush_timer + BGFLUSH_LOW_TIME <= t.min_restart_time

Running(t) ==
  /\ t.flush_timer # Never /\ Near(t)
  /\ t.flush_timer + Late < t.last_flush_time
  /\ t.flush_timer + BGFLUSH_LOW_TIME <= t.print_time

TimesKept(n, t) ==
  /\ t.need_flush_time <= t.step_gen_time
  /\ \/ NoneLeft(t)
     \/ t.min_restart_time <= t.last_flush_time + STEPCOMPRESS_FLUSH_TIME
  /\ t.flush_timer # Never => TimerKept(n, t)
  /\ t.state = "main" => Running(t)

\* A command that pauses, or drips, is woken in time.
DripKept(t, wake) ==
  /\ wake + Late + t.kin_flush_delay + STEPCOMPRESS_FLUSH_TIME <= t.print_time
  /\ \/ NoneLeft(t)
     \/ /\ wake + Late < t.last_flush_time
        /\ t.print_time + Late < t.last_flush_time + DRIP_TIME
                                 + STEPCOMPRESS_FLUSH_TIME + t.kin_flush_delay

WaitKept(n, t, g) ==
  /\ g.at \in {"pause", "drip"} => n <= g.wake + Late
  /\ g.at = "pause" =>
       /\ g.wake + BUFFER_TIME_HIGH <= t.print_time
       /\ g.drip # 0 => t.queue = 0 /\ Near(t)
  /\ g.at = "drip" => DripKept(t, g.wake)

\* The drip mode may begin.
DripReady(n, t) ==
  /\ t.queue = 0 /\ Near(t) /\ n + Late < t.last_flush_time
  /\ n + BUFFER_TIME_START + Late
       < t.last_flush_time + DRIP_TIME + STEPCOMPRESS_FLUSH_TIME
         + t.kin_flush_delay

TimeInv == TimesKept(now, th) /\ WaitKept(now, th, greenlet)

-----------------------------------------------------------------------------
(* Flushing goes on.                                                       *)

SameTimes(t, u) ==
  /\ u.need_flush_time = t.need_flush_time
  /\ u.step_gen_time = t.step_gen_time
  /\ u.flush_timer = t.flush_timer
  /\ u.kin_flush_delay = t.kin_flush_delay

Onward(t, u) ==
  /\ SameTimes(t, u)
  /\ t.print_time <= u.print_time /\ t.last_flush_time <= u.last_flush_time
  /\ t.min_restart_time <= u.min_restart_time
  /\ \/ u.min_restart_time <= t.min_restart_time
     \/ u.min_restart_time <= u.last_flush_time + STEPCOMPRESS_FLUSH_TIME

LEMMA OnwardKept ==
  ASSUME NEW t \in ToolHeadState, NEW u \in ToolHeadState, NEW n \in Nat,
         TimesKept(n, t), Onward(t, u),
         u.state = "main" => t.state = "main" /\ Near(u)
  PROVE  TimesKept(n, u)
<1> DEFINE T == t.flush_timer
<1>t. /\ t.print_time \in Nat /\ t.last_flush_time \in Nat
      /\ t.min_restart_time \in Nat /\ t.need_flush_time \in Nat
      /\ t.step_gen_time \in Nat /\ t.flush_timer \in Int \union {Never}
      /\ u.print_time \in Nat /\ u.last_flush_time \in Nat
      /\ u.min_restart_time \in Nat /\ u.need_flush_time \in Nat
      /\ u.flush_timer = t.flush_timer
      /\ u.need_flush_time = t.need_flush_time
      /\ u.step_gen_time = t.step_gen_time
      /\ Late \in Nat /\ STEPCOMPRESS_FLUSH_TIME \in Nat
      /\ BGFLUSH_LOW_TIME \in Nat
  BY FieldTypes, ConstantTypes, ToolHeadAssumption DEF Onward, SameTimes
<1>1. NoneLeft(t) => NoneLeft(u)
  BY <1>t DEF NoneLeft, Onward
<1>2. \/ NoneLeft(u)
      \/ u.min_restart_time <= u.last_flush_time + STEPCOMPRESS_FLUSH_TIME
  BY <1>t, <1>1 DEF TimesKept, Onward
<1>3. ASSUME u.flush_timer # Never
      PROVE  TimerKept(n, u)
  <2>1. T \in Int
    BY <1>t, <1>3
  <2>2. TimerKept(n, t)
    BY <1>t, <1>3 DEF TimesKept
  <2>3. \/ T + Late < u.last_flush_time
        \/ NoneLeft(u) /\ T <= n
    BY <1>t, <1>1, <2>1, <2>2 DEF TimerKept, Onward
  <2>4. \/ T <= n \/ T + BGFLUSH_LOW_TIME <= u.print_time
        \/ T + BGFLUSH_LOW_TIME <= u.min_restart_time
    BY <1>t, <2>1, <2>2 DEF TimerKept, Onward
  <2> QED BY <1>t, <2>2, <2>3, <2>4 DEF TimerKept
<1>4. ASSUME u.state = "main"
      PROVE  Running(u)
  <2>1. Running(t) /\ T \in Int /\ Near(u)
    BY <1>t, <1>4 DEF TimesKept, Running
  <2> QED BY <1>t, <2>1 DEF Running, Onward
<1> QED BY <1>t, <1>2, <1>3, <1>4 DEF TimesKept

LEMMA OnwardTwice ==
  ASSUME NEW t \in ToolHeadState, NEW u \in ToolHeadState,
         NEW v \in ToolHeadState, Onward(t, u), Onward(u, v)
  PROVE  Onward(t, v)
BY FieldTypes, ConstantTypes DEF Onward, SameTimes

LEMMA FlushTimeOnward ==
  ASSUME NEW t, Counted(t), NEW to \in Int, NEW u, u = AdvanceFlushTime(t, to)
  PROVE  Onward(t, u) /\ (Near(t) => Near(u))
<1> DEFINE
      flush == Later(to, t.last_flush_time)
      want  == Sooner(flush + STEPCOMPRESS_FLUSH_TIME,
                      t.print_time - t.kin_flush_delay)
      steps == Later(want, flush)
      a     == Later(t.generated, steps)
      b     == Later(t.min_restart_time, steps)
<1>t. /\ t \in ToolHeadState
      /\ t.print_time \in Nat /\ t.last_flush_time \in Nat
      /\ t.kin_flush_delay \in Nat
      /\ t.min_restart_time \in Nat /\ t.generated \in Nat
      /\ STEPCOMPRESS_FLUSH_TIME \in Nat
  BY FieldTypes, ConstantTypes DEF Counted
<1>1. flush \in Int /\ flush >= t.last_flush_time
  BY <1>t DEF Later
<1>2. want \in Int /\ want <= flush + STEPCOMPRESS_FLUSH_TIME
  <2> HIDE DEF flush
  <2> QED BY <1>t, <1>1 DEF Sooner
<1>3. steps \in Int /\ steps <= flush + STEPCOMPRESS_FLUSH_TIME
  <2> HIDE DEF flush, want
  <2> QED BY <1>t, <1>1, <1>2 DEF Later
<1>4. /\ b \in Int /\ t.min_restart_time <= b
      /\ b <= t.min_restart_time \/ b <= flush + STEPCOMPRESS_FLUSH_TIME
  <2> HIDE DEF steps, flush
  <2> QED BY <1>t, <1>1, <1>3 DEF Later
<1>5. u = [t EXCEPT !.last_flush_time = flush, !.generated = a,
                   !.min_restart_time = b]
  BY DEF AdvanceFlushTime
<1> HIDE DEF flush, a, b
<1>6. SameTimes(t, u) /\ u.print_time = t.print_time
  BY <1>t, <1>5 DEF ToolHeadState, SameTimes
<1>7. u.last_flush_time = flush /\ u.min_restart_time = b
  BY <1>t, <1>5 DEF ToolHeadState
<1>8. Onward(t, u)
  BY <1>t, <1>1, <1>4, <1>6, <1>7 DEF Onward
<1>9. Near(t) => Near(u)
  BY <1>t, <1>1, <1>6, <1>7 DEF Near, SameTimes
<1> QED BY <1>8, <1>9

LEMMA MoveTimeOnward ==
  ASSUME NEW t, Counted(t), NEW to \in Nat, NEW u, u = AdvanceMoveTime(t, to)
  PROVE  Onward(t, u) /\ Near(u)
<1> DEFINE print == Later(t.print_time, to)
           p     == [t EXCEPT !.print_time = print]
           upto  == print - t.kin_flush_delay - STEPCOMPRESS_FLUSH_TIME
<1>t. /\ t \in ToolHeadState /\ t.print_time \in Nat
      /\ t.min_restart_time \in Nat /\ t.last_flush_time \in Nat
      /\ t.kin_flush_delay \in Nat /\ STEPCOMPRESS_FLUSH_TIME \in Nat
  BY FieldTypes, ConstantTypes DEF Counted
<1>1. print \in Nat /\ t.print_time <= print
  BY <1>t DEF Later
<1>2. u = AdvanceFlushTime(p, upto)
  BY DEF AdvanceMoveTime
<1> HIDE DEF print
<1>3. /\ p \in ToolHeadState /\ SameSteps(t, p) /\ SameTimes(t, p)
      /\ p.print_time = print
  BY <1>t, <1>1 DEF ToolHeadState, SameSteps, SameTimes
<1>4. upto \in Int
  BY <1>t, <1>1
<1>5. print <= upto + t.kin_flush_delay + STEPCOMPRESS_FLUSH_TIME
  BY <1>t, <1>1
<1> HIDE DEF p, upto
<1>6. Counted(p)
  BY <1>3 DEF Counted, SameSteps
<1>7. Onward(t, p)
  BY <1>t, <1>1, <1>3 DEF Onward, SameSteps
<1>8. /\ Onward(p, u) /\ Counted(u) /\ upto <= u.last_flush_time
      /\ u.print_time = p.print_time
  BY <1>2, <1>4, <1>6, FlushTime, FlushTimeOnward
<1>9. u \in ToolHeadState /\ u.last_flush_time \in Nat
  BY <1>8, FieldTypes DEF Counted
<1>10. u.kin_flush_delay = t.kin_flush_delay
  BY <1>3, <1>8 DEF Onward, SameTimes
<1>11. Near(u)
  BY <1>t, <1>1, <1>3, <1>4, <1>5, <1>8, <1>9, <1>10 DEF Near
<1> QED BY <1>3, <1>7, <1>8, <1>9, <1>11, <1>t, OnwardTwice

(* The print time is put ahead of the moment, and no farther than that.    *)
LEMMA PrintTimeOnward ==
  ASSUME NEW t, Counted(t), now \in Nat, NEW u, u = CalcPrintTime(t)
  PROVE  /\ Onward(t, u)
         /\ now + BUFFER_TIME_START <= u.print_time
         /\ now + MIN_KIN_TIME + t.kin_flush_delay <= u.print_time
         /\ \/ u.print_time = t.print_time
            \/ u.print_time = now + BUFFER_TIME_START
            \/ u.print_time = now + MIN_KIN_TIME + t.kin_flush_delay
            \/ u.print_time = t.min_restart_time + t.kin_flush_delay
<1> DEFINE base  == Later(now + MIN_KIN_TIME, t.min_restart_time)
           kin   == base + t.kin_flush_delay
           least == Later(now + BUFFER_TIME_START, kin)
<1>t. /\ t \in ToolHeadState /\ t.print_time \in Nat
      /\ t.last_flush_time \in Nat
      /\ t.kin_flush_delay \in Nat /\ t.min_restart_time \in Nat
      /\ MIN_KIN_TIME \in Nat /\ BUFFER_TIME_START \in Nat
  BY FieldTypes, ConstantTypes DEF Counted
<1>1. /\ base \in Nat /\ now + MIN_KIN_TIME <= base
      /\ base = now + MIN_KIN_TIME \/ base = t.min_restart_time
  BY <1>t DEF Later
<1>2. /\ kin \in Nat /\ now + MIN_KIN_TIME + t.kin_flush_delay <= kin
      /\ \/ kin = now + MIN_KIN_TIME + t.kin_flush_delay
         \/ kin = t.min_restart_time + t.kin_flush_delay
  <2> HIDE DEF base
  <2> QED BY <1>t, <1>1
<1>3. /\ least \in Nat /\ kin <= least /\ now + BUFFER_TIME_START <= least
      /\ least = kin \/ least = now + BUFFER_TIME_START
  <2> HIDE DEF kin
  <2> QED BY <1>t, <1>2 DEF Later
<1>4. u = IF least > t.print_time
          THEN [t EXCEPT !.print_time = least, !.synced = least] ELSE t
  BY DEF CalcPrintTime
<1> HIDE DEF base, kin, least
<1>5. CASE least > t.print_time
  <2>1. u = [t EXCEPT !.print_time = least, !.synced = least]
    BY <1>4, <1>5
  <2>2. SameSteps(t, u) /\ SameTimes(t, u) /\ u.print_time = least
    BY <1>t, <2>1 DEF ToolHeadState, SameSteps, SameTimes
  <2> QED BY <1>t, <1>2, <1>3, <1>5, <2>2 DEF Onward, SameSteps
<1>6. CASE ~(least > t.print_time)
  <2>1. u = t
    BY <1>4, <1>6
  <2> QED BY <1>t, <1>2, <1>3, <1>6, <2>1 DEF Onward, SameTimes
<1> QED BY <1>5, <1>6

LEMMA NoteOnward ==
  ASSUME NEW t, Counted(t), now \in Nat, NEW time \in Nat,
         NEW u, u = NoteActivity(t, time)
  PROVE  /\ u.need_flush_time = Later(t.need_flush_time, time)
         /\ u.step_gen_time = Later(t.step_gen_time, time)
         /\ u.flush_timer = IF t.do_kick THEN now ELSE t.flush_timer
<1> DEFINE need == Later(t.need_flush_time, time)
           gen  == Later(t.step_gen_time, time)
           wake == IF t.do_kick THEN now ELSE t.flush_timer
           no   == FALSE
<1>1. t \in ToolHeadState
  BY DEF Counted
<1>2. u = [t EXCEPT !.need_flush_time = need, !.step_gen_time = gen,
                    !.do_kick = no, !.flush_timer = wake]
  BY DEF NoteActivity
<1> HIDE DEF need, gen, wake, no
<1>3. u.need_flush_time = need
  BY <1>1, <1>2 DEF ToolHeadState
<1>4. u.step_gen_time = gen
  BY <1>1, <1>2 DEF ToolHeadState
<1>5. u.flush_timer = wake
  BY <1>1, <1>2 DEF ToolHeadState
<1> QED BY <1>3, <1>4, <1>5 DEF need, gen, wake

-----------------------------------------------------------------------------
(* Moves get their print time.                                             *)

LEMMA SameOnward ==
  ASSUME NEW t \in ToolHeadState, NEW u, SameTimes(t, u), SameSteps(t, u),
         u.print_time = t.print_time
  PROVE  Onward(t, u)
BY FieldTypes DEF Onward, SameSteps

LEMMA ResyncOnward ==
  ASSUME NEW t, Counted(t), now \in Nat, NEW u, u = Resynced(t)
  PROVE  /\ Onward(t, u)
         /\ t.state # "main" =>
              /\ now + BUFFER_TIME_START <= u.print_time
              /\ now + MIN_KIN_TIME + t.kin_flush_delay <= u.print_time
              /\ \/ u.print_time = t.print_time
                 \/ u.print_time = now + BUFFER_TIME_START
                 \/ u.print_time = now + MIN_KIN_TIME + t.kin_flush_delay
                 \/ u.print_time = t.min_restart_time + t.kin_flush_delay
<1>t. t \in ToolHeadState /\ t.state \in {"NeedPrime", "Priming", "main", "Drip"}
  BY FieldTypes DEF Counted
<1>1. CASE t.state = "main"
  <2>1. u = t
    BY <1>1 DEF Resynced
  <2> QED BY <1>t, <1>1, <2>1, SameOnward DEF SameTimes, SameSteps
<1>2. CASE t.state = "Drip"
  <2>1. u = CalcPrintTime(t)
    BY <1>2 DEF Resynced
  <2> QED BY <2>1, PrintTimeOnward
<1>3. CASE t.state \in {"NeedPrime", "Priming"}
  <2> DEFINE v == -1
             m == [t EXCEPT !.state = "main", !.need_check_pause = v]
  <2>1. u = CalcPrintTime(m)
    BY <1>3 DEF Resynced
  <2>2. v \in Int \union {Never}
    OBVIOUS
  <2> HIDE DEF v
  <2>3. /\ m \in ToolHeadState /\ SameSteps(t, m) /\ SameTimes(t, m)
        /\ m.print_time = t.print_time
    BY <1>t, <2>2 DEF ToolHeadState, SameSteps, SameTimes
  <2> HIDE DEF m
  <2>4. Counted(m)
    BY <2>3 DEF Counted, SameSteps
  <2>5. Counted(u)
    BY <2>1, <2>4, PrintTime
  <2>6. Onward(t, m)
    BY <1>t, <2>3, SameOnward
  <2>7. /\ Onward(m, u)
        /\ now + BUFFER_TIME_START <= u.print_time
        /\ now + MIN_KIN_TIME + m.kin_flush_delay <= u.print_time
        /\ \/ u.print_time = m.print_time
           \/ u.print_time = now + BUFFER_TIME_START
           \/ u.print_time = now + MIN_KIN_TIME + m.kin_flush_delay
           \/ u.print_time = m.min_restart_time + m.kin_flush_delay
    BY <2>1, <2>4, PrintTimeOnward
  <2>8. Onward(t, u)
    BY <1>t, <2>3, <2>5, <2>6, <2>7, OnwardTwice DEF Counted
  <2> QED BY <2>3, <2>7, <2>8 DEF SameTimes, SameSteps
<1> QED BY <1>t, <1>1, <1>2, <1>3

LEMMA AppendedOnward ==
  ASSUME NEW t, Counted(t), NEW d \in Nat, NEW u, u = Appended(t, d)
  PROVE  Onward(t, u) /\ u.trapq.rest = t.print_time + d + t.kin_flush_delay
<1> DEFINE q == [start |-> t.print_time, end |-> t.print_time + d,
                 rest |-> t.print_time + d + t.kin_flush_delay]
<1>1. u = [t EXCEPT !.trapq = q]
  BY DEF Appended
<1>2. q.rest = t.print_time + d + t.kin_flush_delay
  OBVIOUS
<1> HIDE DEF q
<1>3. t \in ToolHeadState
  BY DEF Counted
<1>4. SameTimes(t, u) /\ SameSteps(t, u) /\ u.print_time = t.print_time
  BY <1>1, <1>3 DEF ToolHeadState, SameTimes, SameSteps
<1>5. u.trapq = q
  BY <1>1, <1>3 DEF ToolHeadState
<1> QED BY <1>2, <1>3, <1>4, <1>5, SameOnward

(* Moves are processed: the timer that is kicked, or was armed, comes      *)
(* before their steps are due.                                             *)
LEMMA ProcessKept ==
  ASSUME Punctual, NEW t, Good(t), t.state # "Drip", now \in Nat,
         TimesKept(now, t), NEW d \in Nat \ {0}, NEW u, u = ProcessMoves(t, d)
  PROVE  TimesKept(now, u) /\ Near(u)
<1> DEFINE r == Resynced(t)
           a == Appended(r, d)
           n == NoteActivity(a, a.trapq.rest)
<1>u. u = AdvanceMoveTime(n, a.trapq.end)
  BY DEF ProcessMoves
<1>d. d \in Nat /\ d > 0
  OBVIOUS
<1>r. /\ Counted(r) /\ StepsDone(r) /\ SameSteps(t, r) /\ SameFlush(t, r)
      /\ r.state = "main"
  BY Resync DEF Good
<1>1. /\ Onward(t, r)
      /\ t.state # "main" =>
           /\ now + BUFFER_TIME_START <= r.print_time
           /\ now + MIN_KIN_TIME + t.kin_flush_delay <= r.print_time
  BY ResyncOnward DEF Good
<1> HIDE DEF r
<1>a. /\ Counted(a) /\ SameSteps(r, a) /\ SameFlush(r, a)
      /\ a.state = r.state /\ a.print_time = r.print_time
      /\ a.trapq.end = r.print_time + d
  BY <1>d, <1>r, AppendedIs
<1>2. /\ Onward(r, a)
      /\ a.trapq.rest = r.print_time + d + r.kin_flush_delay
  BY <1>d, <1>r, AppendedOnward
<1> HIDE DEF a
<1>3. Armed(a)
  BY <1>r, <1>a DEF Good, Armed, SameSteps, SameFlush
<1>4. a.trapq.rest \in Nat /\ a.trapq.end \in Nat
  BY <1>a, FieldTypes DEF Counted
<1>n. /\ Counted(n) /\ SameMode(a, n) /\ SameSteps(a, n)
      /\ n.print_time = a.print_time
  BY <1>a, <1>3, <1>4, Note
<1>5. /\ n.need_flush_time = Later(a.need_flush_time, a.trapq.rest)
      /\ n.step_gen_time = Later(a.step_gen_time, a.trapq.rest)
      /\ n.flush_timer = IF a.do_kick THEN now ELSE a.flush_timer
  BY <1>a, <1>4, NoteOnward
<1> HIDE DEF n
<1>6. /\ Counted(u) /\ u.state = "main" /\ u.print_time >= a.trapq.end
      /\ Onward(n, u) /\ Near(u)
  <2>1. /\ Counted(u) /\ SameMode(n, u) /\ u.print_time >= a.trapq.end
        /\ Onward(n, u) /\ Near(u)
    BY <1>u, <1>4, <1>n, MoveTime, MoveTimeOnward
  <2>2. u.state = "main"
    BY <1>r, <1>a, <1>n, <2>1 DEF SameMode
  <2> QED BY <2>1, <2>2
<1> DEFINE K == t.kin_flush_delay
           P == r.print_time
           T == u.flush_timer
<1>t. /\ t.print_time \in Nat /\ t.last_flush_time \in Nat
      /\ t.min_restart_time \in Nat /\ t.need_flush_time \in Nat
      /\ t.step_gen_time \in Nat /\ t.flush_timer \in Int \union {Never}
      /\ t.state \in {"NeedPrime", "Priming", "main", "Drip"}
      /\ K \in Nat /\ K \in Delays /\ P \in Nat /\ t.do_kick \in BOOLEAN
      /\ u.print_time \in Nat /\ u.last_flush_time \in Nat
      /\ u.min_restart_time \in Nat /\ u.need_flush_time \in Nat
      /\ u.step_gen_time \in Nat
  BY <1>r, <1>6, FieldTypes DEF Good, Counted
<1>c. /\ Late \in Nat /\ STEPCOMPRESS_FLUSH_TIME \in Nat
      /\ BGFLUSH_LOW_TIME \in Nat /\ MIN_KIN_TIME \in Nat
      /\ BUFFER_TIME_START \in Nat /\ Never \notin Int
      /\ BGFLUSH_LOW_TIME <= BUFFER_TIME_START
      /\ Late + STEPCOMPRESS_FLUSH_TIME <= MIN_KIN_TIME
  BY ConstantTypes, ToolHeadAssumption DEF Punctual
\* What has become of the fields.
<1>7. /\ a.need_flush_time = t.need_flush_time
      /\ a.step_gen_time = t.step_gen_time
      /\ a.flush_timer = t.flush_timer /\ a.do_kick = t.do_kick
      /\ r.kin_flush_delay = K /\ u.kin_flush_delay = K
      /\ t.last_flush_time = n.last_flush_time
      /\ t.min_restart_time = n.min_restart_time
      /\ t.print_time <= P /\ n.print_time = P
  BY <1>1, <1>2, <1>r, <1>a, <1>n, <1>6
     DEF Onward, SameTimes, SameFlush, SameSteps, SameMode
<1>8. /\ u.need_flush_time = n.need_flush_time
      /\ u.step_gen_time = n.step_gen_time
      /\ T = IF t.do_kick THEN now ELSE t.flush_timer
      /\ t.last_flush_time <= u.last_flush_time
      /\ \/ u.min_restart_time <= t.min_restart_time
         \/ u.min_restart_time <= u.last_flush_time + STEPCOMPRESS_FLUSH_TIME
  BY <1>5, <1>6, <1>7 DEF Onward, SameTimes
<1>9. t.min_restart_time + K <= P
  BY <1>r, <1>7 DEF StepsDone, SameSteps
<1>10. /\ P + d <= u.print_time
       /\ u.print_time <= u.last_flush_time + K + STEPCOMPRESS_FLUSH_TIME
  BY <1>a, <1>6, <1>7, <1>t, <1>d DEF Near
<1>11. u.need_flush_time <= u.step_gen_time
  BY <1>2, <1>4, <1>5, <1>7, <1>8, <1>t DEF TimesKept, Later
<1>12. u.min_restart_time <= u.last_flush_time + STEPCOMPRESS_FLUSH_TIME
  BY <1>8, <1>9, <1>10, <1>t, <1>c, <1>d
\* A timer that is due, or kicked.
<1>13. ASSUME t.state # "main", T \in Int, T <= now
       PROVE  /\ T + Late < u.last_flush_time
              /\ T + BGFLUSH_LOW_TIME <= u.print_time
  <2>1. /\ now + BUFFER_TIME_START <= P /\ now + MIN_KIN_TIME + K <= P
    BY <1>1, <1>13
  <2> QED BY <1>13, <1>10, <1>t, <1>c, <1>d, <2>1
<1>14. /\ T \in Int /\ now <= T + Late
       /\ T + Late < u.last_flush_time
       /\ T + BGFLUSH_LOW_TIME <= u.print_time
  <2>1. CASE t.do_kick
    <3>1. t.state # "main"
      BY <2>1 DEF Good, Armed, TimesKept, Running
    <3>2. T = now
      BY <1>8, <2>1
    <3> QED BY <1>13, <1>c, <3>1, <3>2
  <2>2. CASE ~t.do_kick
    <3>1. T = t.flush_timer /\ T # Never
      BY <1>8, <2>2 DEF Good, Armed
    <3>2. T \in Int /\ TimerKept(now, t)
      BY <1>t, <3>1 DEF TimesKept
    <3>3. CASE t.state = "main"
      <4>1. Running(t)
        BY <3>3 DEF TimesKept
      <4> QED BY <1>7, <1>8, <1>10, <1>t, <1>c, <1>d, <3>1, <3>2, <4>1
              DEF Running, TimerKept
    <3>4. CASE t.state # "main" /\ T <= now
      BY <1>13, <3>1, <3>2, <3>4 DEF TimerKept
    <3>5. CASE t.state # "main" /\ ~(T <= now)
      <4>1. /\ T + Late < t.last_flush_time /\ now <= T + Late
            /\ \/ T + BGFLUSH_LOW_TIME <= t.print_time
               \/ T + BGFLUSH_LOW_TIME <= t.min_restart_time
        BY <3>1, <3>2, <3>5 DEF TimerKept
      <4> QED BY <1>7, <1>8, <1>9, <1>10, <1>t, <1>c, <1>d, <3>2, <4>1
    <3> QED BY <3>3, <3>4, <3>5
  <2> QED BY <1>t, <2>1, <2>2
<1>15. TimerKept(now, u) /\ Running(u)
  BY <1>6, <1>14, <1>c DEF TimerKept, Running
<1> QED BY <1>6, <1>11, <1>12, <1>15 DEF TimesKept

\* Only what has nothing to do with the times has changed.
SameClock(t, u) ==
  /\ SameTimes(t, u) /\ SameSteps(t, u) /\ u.print_time = t.print_time

LEMMA ClockKept ==
  ASSUME NEW t \in ToolHeadState, NEW u \in ToolHeadState, NEW n \in Nat,
         TimesKept(n, t), SameClock(t, u), u.state = "main" => t.state = "main"
  PROVE  TimesKept(n, u) /\ (Near(t) <=> Near(u))
<1>1. Near(t) <=> Near(u)
  BY DEF Near, SameClock, SameTimes, SameSteps
<1>2. Onward(t, u)
  BY SameOnward DEF SameClock
<1>3. u.state = "main" => t.state = "main" /\ Near(u)
  BY <1>1 DEF TimesKept, Running
<1>4. TimesKept(n, u)
  BY <1>2, <1>3, OnwardKept
<1> QED BY <1>1, <1>4

LEMMA FlushKept ==
  ASSUME Punctual, NEW t, Good(t), t.state # "Drip", now \in Nat,
         TimesKept(now, t), NEW u, u = Flush(t)
  PROVE  /\ TimesKept(now, u) /\ (Near(t) => Near(u))
         /\ t.queue = 0 => SameClock(t, u) /\ u.state = t.state
<1> DEFINE f == [t EXCEPT !.junction_flush = LOOKAHEAD_FLUSH_TIME, !.queue = 0]
<1>1. t \in ToolHeadState /\ LOOKAHEAD_FLUSH_TIME \in Int /\ t.queue \in Nat
  BY ConstantTypes, FieldTypes DEF Good, Counted
<1>2. /\ f \in ToolHeadState /\ SameSteps(t, f) /\ SameFlush(t, f)
      /\ f.print_time = t.print_time /\ f.kin_flush_delay = t.kin_flush_delay
      /\ f.trapq = t.trapq /\ f.state = t.state
  BY <1>1 DEF ToolHeadState, SameSteps, SameFlush
<1>3. SameClock(t, f)
  BY <1>1 DEF ToolHeadState, SameClock, SameTimes, SameSteps
<1>4. u = IF t.queue = 0 THEN f ELSE ProcessMoves(f, t.queue)
  BY DEF Flush
<1> HIDE DEF f
<1>5. Good(f)
  BY <1>2, AlikeGood DEF Alike
<1>6. TimesKept(now, f) /\ (Near(t) <=> Near(f))
  BY <1>1, <1>2, <1>3, ClockKept
<1>7. CASE t.queue = 0
  BY <1>2, <1>3, <1>4, <1>6, <1>7
<1>8. CASE t.queue # 0
  <2>1. t.queue \in Nat \ {0} /\ u = ProcessMoves(f, t.queue)
    BY <1>1, <1>4, <1>8
  <2> QED BY <1>2, <1>5, <1>6, <1>8, <2>1, ProcessKept
<1> QED BY <1>7, <1>8

LEMMA LookaheadKept ==
  ASSUME Punctual, NEW t, Good(t), t.state # "Drip", now \in Nat,
         TimesKept(now, t), NEW u, u = FlushLookahead(t)
  PROVE  TimesKept(now, u) /\ (Near(t) => Near(u))
<1> DEFINE f == Flush(t)
           v == -1
<1>1. Good(f) /\ TimesKept(now, f) /\ (Near(t) => Near(f))
  BY Flushes, FlushKept
<1>2. u = [f EXCEPT !.state = "NeedPrime", !.need_check_pause = v,
                    !.junction_flush = BUFFER_TIME_HIGH]
  BY DEF FlushLookahead
<1>3. Good(u) /\ u.state = "NeedPrime"
  BY LookaheadFlushes
<1> HIDE DEF f, v
<1>4. SameClock(f, u)
  BY <1>1, <1>2 DEF Good, Counted, ToolHeadState, SameClock, SameTimes,
                    SameSteps
<1> QED BY <1>1, <1>3, <1>4, ClockKept DEF Good, Counted

(* flush_step_generation leaves nothing to flush.                          *)
LEMMA GeneratedKept ==
  ASSUME NEW f, Good(f), f.state = "NeedPrime", now \in Nat,
         TimesKept(now, f), NEW u,
         u = [AdvanceFlushTime(f, f.step_gen_time)
                EXCEPT !.min_restart_time = Later(@, f.print_time)]
  PROVE  TimesKept(now, u) /\ NoneLeft(u)
<1> DEFINE a == AdvanceFlushTime(f, f.step_gen_time)
           m == Later(a.min_restart_time, f.print_time)
<1>1. /\ f \in ToolHeadState /\ f.step_gen_time \in Int
      /\ f.step_gen_time \in Nat /\ f.need_flush_time \in Nat
      /\ f.print_time \in Nat
  BY FieldTypes DEF Good, Counted
<1>2. /\ Counted(a) /\ SameMode(f, a) /\ f.step_gen_time <= a.last_flush_time
      /\ Onward(f, a)
  BY <1>1, FlushTime, FlushTimeOnward DEF Good
<1>3. u = [a EXCEPT !.min_restart_time = m]
  OBVIOUS
<1>4. Good(u) /\ u.state = "NeedPrime"
  BY StepsGenerated
<1> HIDE DEF a
<1>5. /\ a \in ToolHeadState /\ a.min_restart_time \in Nat
      /\ a.last_flush_time \in Nat /\ a.need_flush_time \in Nat
      /\ a.state = "NeedPrime"
  BY <1>2, FieldTypes DEF Counted, SameMode
<1>6. m \in Nat /\ a.min_restart_time <= m
  BY <1>1, <1>5 DEF Later
<1> HIDE DEF m
<1>7. TimesKept(now, a)
  BY <1>1, <1>2, <1>5, OnwardKept
<1>8. NoneLeft(a)
  BY <1>1, <1>2, <1>5 DEF NoneLeft, TimesKept, Onward, SameTimes
<1>9. /\ u.last_flush_time = a.last_flush_time /\ u.print_time = a.print_time
      /\ SameTimes(a, u)
  BY <1>3, <1>5 DEF ToolHeadState, SameTimes
<1>10. u.min_restart_time = m
  BY <1>3, <1>5 DEF ToolHeadState
<1>11. NoneLeft(u)
  BY <1>8, <1>9 DEF NoneLeft, SameTimes
<1>12. ASSUME u.flush_timer # Never
       PROVE  TimerKept(now, u)
  <2>1. TimerKept(now, a) /\ a.flush_timer \in Int
    BY <1>5, <1>7, <1>9, <1>12, FieldTypes DEF TimesKept, SameTimes
  <2>2. BGFLUSH_LOW_TIME \in Nat
    BY ConstantTypes
  <2> QED BY <1>5, <1>6, <1>8, <1>9, <1>10, <1>11, <2>1, <2>2
          DEF TimerKept, SameTimes
<1>13. u.need_flush_time <= u.step_gen_time
  BY <1>7, <1>9 DEF TimesKept, SameTimes
<1> QED BY <1>4, <1>11, <1>12, <1>13 DEF TimesKept

LEMMA StepGenerationKept ==
  ASSUME Punctual, NEW t, Good(t), t.state # "Drip", now \in Nat,
         TimesKept(now, t), NEW u, u = FlushStepGeneration(t)
  PROVE  TimesKept(now, u) /\ NoneLeft(u)
<1> DEFINE f == FlushLookahead(t)
<1>1. Good(f) /\ f.state = "NeedPrime" /\ TimesKept(now, f)
  BY LookaheadFlushes, LookaheadKept
<1>2. u = [AdvanceFlushTime(f, f.step_gen_time)
             EXCEPT !.min_restart_time = Later(@, f.print_time)]
  BY DEF FlushStepGeneration
<1> HIDE DEF f
<1> QED BY <1>1, <1>2, GeneratedKept

(* What waits for the last move finds the print time ahead of the moment.  *)
LEMMA LastMoveKept ==
  ASSUME Punctual, NEW t, Good(t), t.state # "Drip", now \in Nat,
         TimesKept(now, t), NEW u, u = LastMoveTime(t)
  PROVE  /\ TimesKept(now, u)
         /\ now + BGFLUSH_LOW_TIME <= u.print_time + Late
<1>c. /\ Late \in Nat /\ BGFLUSH_LOW_TIME \in Nat /\ BUFFER_TIME_START \in Nat
      /\ BGFLUSH_LOW_TIME <= BUFFER_TIME_START
  BY ConstantTypes, ToolHeadAssumption DEF Punctual
<1>1. CASE t.state = "main"
  <2>1. u = Flush(t)
    BY <1>1 DEF LastMoveTime
  <2>2. TimesKept(now, u) /\ Good(u) /\ Follows(t, u)
    BY <2>1, Flushes, FlushKept
  <2>3. /\ t.print_time \in Nat /\ u.print_time \in Nat
        /\ t.flush_timer \in Int \union {Never}
    BY <2>2, FieldTypes DEF Good, Counted
  <2>4. Running(t) /\ TimerKept(now, t) /\ t.flush_timer \in Int
    BY <1>1, <2>3 DEF TimesKept, Running
  <2> QED BY <1>c, <2>2, <2>3, <2>4 DEF Follows, Running, TimerKept
<1>2. CASE t.state # "main"
  <2> DEFINE f == FlushLookahead(t)
  <2>1. Good(f) /\ f.state = "NeedPrime" /\ TimesKept(now, f)
    BY LookaheadFlushes, LookaheadKept
  <2>2. u = CalcPrintTime(f)
    BY <1>2 DEF LastMoveTime
  <2> HIDE DEF f
  <2>3. Counted(u) /\ SameMode(f, u) /\ Onward(f, u)
    BY <2>1, <2>2, PrintTime, PrintTimeOnward DEF Good
  <2>4. TimesKept(now, u)
    BY <2>1, <2>3, OnwardKept DEF Good, Counted, SameMode
  <2>5. now + BUFFER_TIME_START <= u.print_time
    BY <2>1, <2>2, PrintTimeOnward DEF Good
  <2>6. u.print_time \in Nat
    BY <2>3, FieldTypes DEF Counted
  <2> QED BY <1>c, <2>4, <2>5, <2>6
<1> QED BY <1>1, <1>2

LEMMA DweltKept ==
  ASSUME Punctual, NEW t, Good(t), t.state # "Drip", now \in Nat,
         TimesKept(now, t), NEW d \in Nat, NEW u, u = Dwelt(t, d)
  PROVE  /\ TimesKept(now, u) /\ Near(u)
         /\ now + BGFLUSH_LOW_TIME + d <= u.print_time + Late
<1> DEFINE l == LastMoveTime(t)
           to == l.print_time + d
<1>1. /\ Good(l) /\ TimesKept(now, l) /\ l.state # "Drip"
      /\ now + BGFLUSH_LOW_TIME <= l.print_time + Late
  BY LastMove, LastMoveKept
<1>2. u = AdvanceMoveTime(l, to)
  BY DEF Dwelt
<1> HIDE DEF l
<1>3. /\ l \in ToolHeadState /\ l.print_time \in Nat
      /\ BGFLUSH_LOW_TIME \in Nat /\ Late \in Nat
  BY <1>1, FieldTypes, ConstantTypes, ToolHeadAssumption DEF Good, Counted
<1>4. to \in Nat
  BY <1>3
<1>5. now + BGFLUSH_LOW_TIME + d <= to + Late
  BY <1>1, <1>3
<1> HIDE DEF to
<1>6. /\ Counted(u) /\ SameMode(l, u) /\ u.print_time >= to
      /\ Onward(l, u) /\ Near(u)
  BY <1>1, <1>2, <1>4, MoveTime, MoveTimeOnward DEF Good
<1>7. u \in ToolHeadState /\ u.print_time \in Nat /\ u.state = l.state
  BY <1>6, FieldTypes DEF Counted, SameMode
<1>8. TimesKept(now, u)
  BY <1>1, <1>3, <1>6, <1>7, OnwardKept
<1>9. now + BGFLUSH_LOW_TIME + d <= u.print_time + Late
  BY <1>3, <1>4, <1>5, <1>6, <1>7
<1> QED BY <1>6, <1>8, <1>9

(* The dwell that is done before a drip move leaves time to begin it.      *)
LEMMA DwellReady ==
  ASSUME Punctual, NEW t, Counted(t), now \in Nat, t.queue = 0, Near(t),
         now + BGFLUSH_LOW_TIME + t.kin_flush_delay <= t.print_time + Late
  PROVE  DripReady(now, t)
<1>1. /\ t.print_time \in Nat /\ t.last_flush_time \in Nat
      /\ t.kin_flush_delay \in Nat
  BY FieldTypes DEF Counted
<1>2. /\ Late \in Nat /\ STEPCOMPRESS_FLUSH_TIME \in Nat
      /\ BGFLUSH_LOW_TIME \in Nat /\ BUFFER_TIME_START \in Nat
      /\ DRIP_TIME \in Nat
      /\ 2 * Late + STEPCOMPRESS_FLUSH_TIME < BGFLUSH_LOW_TIME
      /\ BUFFER_TIME_START + 2 * Late < DRIP_TIME + BGFLUSH_LOW_TIME
  BY ConstantTypes, ToolHeadAssumption DEF Punctual
<1> QED BY <1>1, <1>2 DEF DripReady, Near

LEMMA AddedKept ==
  ASSUME Punctual, NEW t, Good(t), t.state # "Drip", now \in Nat,
         TimesKept(now, t), NEW d \in Nat, NEW u \in Added(t, d)
  PROVE  TimesKept(now, u)
<1>1. t \in ToolHeadState /\ t.queue \in Nat /\ t.junction_flush \in Int
  BY FieldTypes DEF Good, Counted
<1>2. CASE t.queue = 0
  <2>1. u = [t EXCEPT !.queue = d]
    BY <1>2 DEF Added
  <2>2. u \in ToolHeadState /\ SameClock(t, u) /\ u.state = t.state
    BY <1>1, <2>1 DEF ToolHeadState, SameClock, SameTimes, SameSteps
  <2> QED BY <1>1, <2>2, ClockKept
<1>3. CASE t.queue # 0 /\ t.junction_flush > d
  <2> DEFINE q == t.queue + d
             j == t.junction_flush - d
  <2>1. u = [t EXCEPT !.queue = q, !.junction_flush = j]
    BY <1>3 DEF Added
  <2>2. q \in Nat /\ j \in Int
    BY <1>1
  <2> HIDE DEF q, j
  <2>3. u \in ToolHeadState /\ SameClock(t, u) /\ u.state = t.state
    BY <1>1, <2>1, <2>2 DEF ToolHeadState, SameClock, SameTimes, SameSteps
  <2> QED BY <1>1, <2>3, ClockKept
<1>4. CASE t.queue # 0 /\ ~(t.junction_flush > d)
  <2> DEFINE f == [t EXCEPT !.junction_flush = LOOKAHEAD_FLUSH_TIME]
             g(q) == [f EXCEPT !.queue = q]
  <2>1. /\ f \in ToolHeadState /\ f.queue = t.queue /\ Alike(t, f)
        /\ f.state = t.state
    BY <1>1, ConstantTypes DEF Alike, ToolHeadState, SameSteps, SameFlush
  <2>2. SameClock(t, f)
    BY <1>1 DEF ToolHeadState, SameClock, SameTimes, SameSteps
  <2>3. u = g(f.queue + d) \/ \E p \in 1..t.queue :
                                u = ProcessMoves(g(f.queue + d - p), p)
    BY <1>4 DEF Added
  <2> HIDE DEF f
  <2>4. \A q \in Nat : /\ Alike(f, g(q)) /\ g(q).state = f.state
                       /\ g(q) \in ToolHeadState
    BY <2>1 DEF Alike, ToolHeadState, SameSteps, SameFlush
  <2>5. \A q \in Nat : SameClock(f, g(q))
    BY <2>1 DEF ToolHeadState, SameClock, SameTimes, SameSteps
  <2> HIDE DEF g
  <2>6. Good(f) /\ TimesKept(now, f)
    BY <1>1, <2>1, <2>2, AlikeGood, ClockKept
  <2>7. \A q \in Nat : Good(g(q)) /\ TimesKept(now, g(q))
                       /\ g(q).state # "Drip"
    <3> TAKE q \in Nat
    <3>1. Alike(f, g(q)) /\ g(q).state = f.state /\ g(q) \in ToolHeadState
      BY <2>4
    <3>2. SameClock(f, g(q))
      BY <2>5
    <3> QED BY <2>1, <2>6, <3>1, <3>2, AlikeGood, ClockKept
  <2>8. CASE u = g(f.queue + d)
    <3>1. f.queue + d \in Nat
      BY <1>1, <2>1
    <3> QED BY <2>7, <2>8, <3>1
  <2>9. ASSUME NEW p \in 1..t.queue, u = ProcessMoves(g(f.queue + d - p), p)
        PROVE  TimesKept(now, u)
    <3> DEFINE q == f.queue + d - p
    <3>1. q \in Nat /\ p \in Nat \ {0} /\ u = ProcessMoves(g(q), p)
      BY <1>1, <2>1, <2>9
    <3> HIDE DEF q
    <3> QED BY <2>7, <3>1, ProcessKept
  <2> QED BY <2>3, <2>8, <2>9
<1> QED BY <1>1, <1>2, <1>3, <1>4

-----------------------------------------------------------------------------
(* The drip mode begins and ends in time.                                  *)

\* What a command, or the drip mode, leaves at the moment it runs.
EndsKept == TimesKept(now, th') /\ WaitKept(now, th', greenlet')

LEMMA IdleKept ==
  ASSUME NEW t, TimesKept(now, t), th' = t, greenlet' = Idle
  PROVE  EndsKept
BY IdleIs DEF EndsKept, WaitKept

LEMMA DripEndedKept ==
  ASSUME NEW t, Counted(t), t.state = "Drip", t.queue = 0, now \in Nat,
         TimesKept(now, t), NEW u, u = DripEnded(t)
  PROVE  TimesKept(now, u)
<1> DEFINE x == [t EXCEPT !.flush_timer = now]
           l == [x EXCEPT !.junction_flush = LOOKAHEAD_FLUSH_TIME, !.queue = 0]
           f == FlushLookahead(x)
           v == -1
           a == AdvanceFlushTime(f, f.step_gen_time)
           m == Later(a.min_restart_time, f.print_time)
<1>t. /\ t \in ToolHeadState /\ now \in Int /\ now \in Int \union {Never}
      /\ LOOKAHEAD_FLUSH_TIME \in Int /\ BUFFER_TIME_HIGH \in Int
      /\ v \in Int \union {Never}
      /\ t.last_flush_time \in Nat /\ t.min_restart_time \in Nat
      /\ t.need_flush_time \in Nat /\ t.step_gen_time \in Nat
      /\ Late \in Nat /\ BGFLUSH_LOW_TIME \in Nat
  BY ConstantTypes, FieldTypes, ToolHeadAssumption DEF Counted
<1>1. /\ x \in ToolHeadState /\ SameSteps(t, x) /\ x.queue = 0
      /\ x.need_flush_time = t.need_flush_time
      /\ x.step_gen_time = t.step_gen_time /\ x.flush_timer = now
      /\ x.print_time = t.print_time
  BY <1>t DEF ToolHeadState, SameSteps
<1>2. f = [Flush(x) EXCEPT !.state = "NeedPrime", !.need_check_pause = v,
                           !.junction_flush = BUFFER_TIME_HIGH]
  BY DEF FlushLookahead
<1>u. u = [a EXCEPT !.min_restart_time = m]
  BY DEF DripEnded, FlushStepGeneration
<1>3. Flush(x) = l
  BY <1>1 DEF Flush
<1> HIDE DEF x, f, v
<1>5. /\ l \in ToolHeadState /\ SameSteps(x, l) /\ SameTimes(x, l)
      /\ l.print_time = x.print_time
  BY <1>t, <1>1 DEF ToolHeadState, SameSteps, SameTimes
<1> HIDE DEF l
<1>6. /\ f \in ToolHeadState /\ SameSteps(l, f) /\ SameTimes(l, f)
      /\ f.print_time = l.print_time /\ f.state = "NeedPrime"
  BY <1>t, <1>2, <1>3, <1>5 DEF ToolHeadState, SameSteps, SameTimes
<1>7. /\ Counted(f) /\ f.flush_timer = now
      /\ f.need_flush_time = t.need_flush_time
      /\ f.step_gen_time = t.step_gen_time
      /\ f.step_gen_time \in Int
  BY <1>t, <1>1, <1>5, <1>6 DEF Counted, SameSteps, SameTimes
<1>8. /\ Counted(a) /\ f.step_gen_time <= a.last_flush_time /\ Onward(f, a)
      /\ SameMode(f, a)
  BY <1>7, FlushTime, FlushTimeOnward
<1> HIDE DEF a
<1>9. /\ a \in ToolHeadState /\ a.last_flush_time \in Nat
  BY <1>8, FieldTypes DEF Counted
<1>10. /\ u.last_flush_time = a.last_flush_time /\ SameTimes(a, u)
       /\ u.state = a.state
  BY <1>u, <1>9 DEF ToolHeadState, SameTimes
<1>11. u.flush_timer = now
  BY <1>7, <1>8, <1>10 DEF Onward, SameTimes
<1>12. /\ u.need_flush_time = t.need_flush_time
       /\ u.step_gen_time = t.step_gen_time
  BY <1>7, <1>8, <1>10 DEF Onward, SameTimes
<1>13. NoneLeft(u)
  BY <1>t, <1>7, <1>8, <1>9, <1>10, <1>12 DEF NoneLeft, TimesKept
<1>14. TimerKept(now, u)
  BY <1>t, <1>11, <1>13 DEF TimerKept
<1>15. u.state = "NeedPrime"
  BY <1>6, <1>8, <1>10 DEF SameMode
<1> QED BY <1>15, <1>12, <1>13, <1>14 DEF TimesKept

LEMMA BeginKept ==
  ASSUME Punctual, NEW t, Good(t), t.state # "Drip", now \in Nat,
         TimesKept(now, t), DripReady(now, t), NEW d \in Nat, BeginDrip(t, d)
  PROVE  EndsKept
<1> DEFINE l == Flush(t)
           no == FALSE
           f == [l EXCEPT !.state = "Drip", !.need_check_pause = Never,
                          !.flush_timer = Never, !.do_kick = no,
                          !.junction_flush = BUFFER_TIME_HIGH]
           r == Resynced(f)
           a == Appended(r, d)
<1>l. /\ Good(l) /\ l.queue = 0 /\ l.state # "Drip" /\ TimesKept(now, l)
      /\ SameClock(t, l)
  BY Flushes, FlushKept DEF DripReady
<1>n. no \in BOOLEAN /\ ~no
  OBVIOUS
<1>b. \/ th' = DripEnded(f) /\ greenlet' = Idle
      \/ /\ th' = [a EXCEPT !.queue = d,
                            !.junction_flush = LOOKAHEAD_FLUSH_TIME]
         /\ greenlet' = [at |-> "drip", wake |-> now, drip |-> a.trapq.end]
  BY DEF BeginDrip
<1> HIDE DEF l, no
<1>t. l \in ToolHeadState /\ BUFFER_TIME_HIGH \in Int
  BY <1>l, ConstantTypes DEF Good, Counted
<1>1. /\ f \in ToolHeadState /\ SameSteps(l, f) /\ f.print_time = l.print_time
      /\ f.kin_flush_delay = l.kin_flush_delay /\ f.trapq = l.trapq
      /\ f.queue = l.queue /\ f.state = "Drip"
  BY <1>t, <1>n DEF ToolHeadState, SameSteps
<1>2. f.flush_timer = Never /\ f.do_kick = no
  BY <1>t, <1>n DEF ToolHeadState
<1>3. /\ f.need_flush_time = l.need_flush_time
      /\ f.step_gen_time = l.step_gen_time
  BY <1>t DEF ToolHeadState
<1> HIDE DEF f
<1>4. Counted(f) /\ f.trapq.end <= f.print_time
  BY <1>l, <1>1 DEF Good, Counted, SameSteps
<1>5. TimesKept(now, f)
  BY <1>l, <1>1, <1>2, <1>3 DEF TimesKept, NoneLeft, SameSteps
<1>6. CASE th' = DripEnded(f) /\ greenlet' = Idle
  BY <1>1, <1>2, <1>4, <1>5, <1>6, <1>l, <1>n, DripEndedKept, IdleKept
<1>7. CASE /\ th' = [a EXCEPT !.queue = d,
                              !.junction_flush = LOOKAHEAD_FLUSH_TIME]
           /\ greenlet' = [at |-> "drip", wake |-> now, drip |-> a.trapq.end]
  <2>1. /\ Counted(r) /\ r.state = "Drip"
        /\ SameSteps(f, r) /\ SameFlush(f, r)
    BY <1>1, <1>4, Resync
  <2>2. /\ Onward(f, r)
        /\ now + MIN_KIN_TIME + f.kin_flush_delay <= r.print_time
        /\ \/ r.print_time = f.print_time
           \/ r.print_time = now + BUFFER_TIME_START
           \/ r.print_time = now + MIN_KIN_TIME + f.kin_flush_delay
           \/ r.print_time = f.min_restart_time + f.kin_flush_delay
    BY <1>1, <1>4, ResyncOnward
  <2> HIDE DEF r
  <2>3. /\ Counted(a) /\ SameSteps(r, a) /\ a.state = r.state
        /\ a.print_time = r.print_time /\ Onward(r, a)
    BY <2>1, AppendedIs, AppendedOnward
  <2> HIDE DEF a
  <2>4. a \in ToolHeadState /\ LOOKAHEAD_FLUSH_TIME \in Int
    BY <2>3, ConstantTypes DEF Counted
  <2>5. /\ SameClock(a, th') /\ th'.state = a.state
    BY <1>7, <2>4 DEF ToolHeadState, SameClock, SameTimes, SameSteps
  <2>6. greenlet'.at = "drip" /\ greenlet'.wake = now
    BY <1>7
  <2> DEFINE K == t.kin_flush_delay
             P == th'.print_time
             L == t.last_flush_time
  <2>7. /\ th'.last_flush_time = L
        /\ th'.min_restart_time = t.min_restart_time
        /\ th'.need_flush_time = t.need_flush_time
        /\ th'.step_gen_time = l.step_gen_time
        /\ th'.flush_timer = Never /\ th'.kin_flush_delay = K
        /\ f.kin_flush_delay = K /\ f.print_time = t.print_time
        /\ f.min_restart_time = t.min_restart_time /\ P = r.print_time
        /\ l.need_flush_time = t.need_flush_time
        /\ th'.state = "Drip"
    BY <1>l, <1>1, <1>2, <1>3, <2>1, <2>2, <2>3, <2>5
       DEF SameClock, SameTimes, SameSteps, Onward
  <2>8. TimesKept(now, th')
    BY <1>5, <1>1, <1>3, <1>l, <2>7
       DEF TimesKept, NoneLeft, SameClock, SameTimes, SameSteps
  <2>9. /\ t.print_time \in Nat /\ L \in Nat /\ K \in Nat
        /\ t.min_restart_time \in Nat /\ P \in Nat /\ r.print_time \in Nat
    BY <2>1, <2>7, FieldTypes DEF Good, Counted
  <2>10. /\ Late \in Nat /\ STEPCOMPRESS_FLUSH_TIME \in Nat
         /\ MIN_KIN_TIME \in Nat /\ BUFFER_TIME_START \in Nat
         /\ DRIP_TIME \in Nat /\ Late < DRIP_TIME
         /\ Late + STEPCOMPRESS_FLUSH_TIME <= MIN_KIN_TIME
         /\ MIN_KIN_TIME <= DRIP_TIME + STEPCOMPRESS_FLUSH_TIME
    BY ConstantTypes, ToolHeadAssumption DEF Punctual
  <2>11. now + Late + K + STEPCOMPRESS_FLUSH_TIME <= P
    BY <2>2, <2>7, <2>9, <2>10
  <2>12. \/ NoneLeft(t)
         \/ P + Late < L + DRIP_TIME + STEPCOMPRESS_FLUSH_TIME + K
    <3>1. /\ t.print_time <= L + K + STEPCOMPRESS_FLUSH_TIME
          /\ now + Late < L
          /\ now + BUFFER_TIME_START + Late
               < L + DRIP_TIME + STEPCOMPRESS_FLUSH_TIME + K
      BY DEF DripReady, Near
    <3>2. \/ NoneLeft(t)
          \/ t.min_restart_time <= L + STEPCOMPRESS_FLUSH_TIME
      BY DEF TimesKept
    <3>3. \/ P = t.print_time \/ P = now + BUFFER_TIME_START
          \/ P = now + MIN_KIN_TIME + K \/ P = t.min_restart_time + K
      BY <2>2, <2>7
    <3> QED BY <2>9, <2>10, <3>1, <3>2, <3>3
  <2>13. now + Late < L
    BY DEF DripReady
  <2>14. DripKept(th', now)
    BY <2>7, <2>11, <2>12, <2>13 DEF DripKept, NoneLeft
  <2>15. WaitKept(now, th', greenlet')
    BY <2>6, <2>10, <2>14 DEF WaitKept
  <2> QED BY <2>8, <2>15 DEF EndsKept
<1> QED BY <1>b, <1>6, <1>7

LEMMA ContinueKept ==
  ASSUME Punctual, NEW t, Good(t), t.state # "Drip", now \in Nat,
         TimesKept(now, t), NEW d \in Nat, d # 0 => DripReady(now, t),
         Continue(t, d)
  PROVE  EndsKept
<1>1. CASE d = 0
  BY <1>1, IdleKept DEF Continue
<1>2. CASE d # 0
  BY <1>2, BeginKept DEF Continue
<1> QED BY <1>1, <1>2

LEMMA PauseKept ==
  ASSUME Punctual, NEW t, Good(t), t.state # "Drip", now \in Nat,
         TimesKept(now, t), NEW d \in Nat, d # 0 => DripReady(now, t),
         PauseLoop(t, d)
  PROVE  EndsKept
<1> DEFINE ahead == t.print_time - now - BUFFER_TIME_HIGH
           due   == now + BUFFER_TIME_HIGH + TENTH
           p(x)  == [t EXCEPT !.need_check_pause = x]
<1>t. /\ t \in ToolHeadState /\ t.print_time \in Nat
      /\ BUFFER_TIME_HIGH \in Nat /\ TENTH \in Nat /\ SECOND \in Nat
      /\ Late \in Nat
  BY FieldTypes, ConstantTypes, ToolHeadAssumption DEF Good, Counted
<1>1. due \in Int \union {Never} /\ Never \in Int \union {Never}
  BY <1>t
<1>2. ASSUME NEW x \in Int \union {Never}, Continue(p(x), d)
      PROVE  EndsKept
  <2>1. /\ Alike(t, p(x)) /\ p(x).state = t.state /\ p(x).queue = t.queue
    BY <1>t DEF Alike, ToolHeadState, SameSteps, SameFlush
  <2>2. SameClock(t, p(x))
    BY <1>t DEF ToolHeadState, SameClock, SameTimes, SameSteps
  <2> HIDE DEF p
  <2>3. Good(p(x)) /\ TimesKept(now, p(x)) /\ (Near(t) <=> Near(p(x)))
    BY <1>t, <2>1, <2>2, AlikeGood, ClockKept DEF Alike
  <2>4. DripReady(now, t) => DripReady(now, p(x))
    BY <2>1, <2>2, <2>3 DEF DripReady, SameClock, SameTimes, SameSteps
  <2> QED BY <1>2, <2>1, <2>3, <2>4, ContinueKept
<1>3. CASE ahead <= 0 /\ Continue(IF t.state = "main" THEN p(due) ELSE t, d)
  <2>1. CASE t.state = "main"
    BY <1>1, <1>2, <1>3, <2>1
  <2>2. CASE t.state # "main"
    BY <1>3, <2>2, ContinueKept
  <2> QED BY <2>1, <2>2
<1>4. CASE Continue(p(Never), d)
  BY <1>1, <1>2, <1>4
<1>5. CASE /\ ahead > 0 /\ th' = t
           /\ greenlet' = [at |-> "pause", wake |-> now + Sooner(SECOND, ahead),
                           drip |-> d]
  <2> DEFINE wake == now + Sooner(SECOND, ahead)
  <2>1. wake \in Int /\ now <= wake /\ wake + BUFFER_TIME_HIGH <= t.print_time
    BY <1>t, <1>5 DEF Sooner
  <2>2. greenlet' = [at |-> "pause", wake |-> wake, drip |-> d]
    BY <1>5
  <2> HIDE DEF wake
  <2>3. greenlet'.at = "pause" /\ greenlet'.wake = wake /\ greenlet'.drip = d
    BY <2>2
  <2>4. now <= wake + Late
    BY <1>t, <2>1
  <2>5. WaitKept(now, th', greenlet')
    BY <1>5, <2>1, <2>3, <2>4 DEF WaitKept, DripReady
  <2> QED BY <1>5, <2>5 DEF EndsKept
<1> QED BY <1>3, <1>4, <1>5 DEF PauseLoop

LEMMA CheckKept ==
  ASSUME Punctual, NEW t, Good(t), t.state # "Drip", now \in Nat,
         TimesKept(now, t), NEW d \in Nat, d # 0 => DripReady(now, t),
         CheckPause(t, d)
  PROVE  EndsKept
<1> DEFINE p == Primed(t)
<1>1. PauseLoop(p, d)
  BY DEF CheckPause
<1>2. CASE t.state = "main"
  BY <1>1, <1>2, PauseKept DEF Primed
<1>3. CASE t.state # "main"
  <2> DEFINE v == -1
             wake == now + Later(TENTH, t.print_time - now - BUFFER_TIME_LOW)
  <2>1. p = [t EXCEPT !.state = "Priming", !.need_check_pause = v,
                      !.priming_timer = wake]
    BY <1>3 DEF Primed
  <2>2. t \in ToolHeadState /\ t.print_time \in Nat
    BY FieldTypes DEF Good, Counted
  <2>3. v \in Int \union {Never} /\ wake \in Int \union {Never}
    BY <2>2, ConstantTypes DEF Later
  <2> HIDE DEF p, v, wake
  <2>4. Alike(t, p) /\ p.state = "Priming" /\ p.queue = t.queue
    BY <2>1, <2>2, <2>3, <1>3 DEF Alike, ToolHeadState, SameSteps, SameFlush
  <2>5. SameClock(t, p)
    BY <2>1, <2>2 DEF ToolHeadState, SameClock, SameTimes, SameSteps
  <2>6. Good(p) /\ TimesKept(now, p) /\ (Near(t) <=> Near(p))
    BY <2>2, <2>4, <2>5, AlikeGood, ClockKept DEF Alike
  <2>7. DripReady(now, t) => DripReady(now, p)
    BY <2>4, <2>5, <2>6 DEF DripReady, SameClock, SameTimes, SameSteps
  <2> QED BY <1>1, <2>4, <2>6, <2>7, PauseKept
<1> QED BY <1>2, <1>3

-----------------------------------------------------------------------------
(* The steps of the toolhead are in time.                                  *)

LEMMA ToldKept ==
  ASSUME IInv, TimeInv
  PROVE  /\ TimesKept(now, TH) /\ SameClock(th, TH) /\ TH.queue = th.queue
         /\ (Near(th) <=> Near(TH))
<1>1. /\ SameMode(th, TH) /\ TH \in ToolHeadState /\ th \in ToolHeadState
      /\ now \in Nat
  BY NothingTold, Typed DEF IInv, Good, Counted
<1>2. SameClock(th, TH)
  BY <1>1 DEF TH, ToolHeadState, SameClock, SameTimes, SameSteps
<1> QED BY <1>1, <1>2, ClockKept DEF SameMode, TimeInv

LEMMA WaitLoopKept ==
  ASSUME NEW t, TimesKept(now, t), WaitLoop(t)
  PROVE  EndsKept
<1> DEFINE wait == [at |-> "wait", wake |-> now + TENTH, drip |-> 0]
<1>1. th' = t /\ (greenlet' = wait \/ greenlet' = Idle)
  BY DEF WaitLoop
<1>2. wait.at = "wait"
  OBVIOUS
<1> HIDE DEF wait
<1>3. greenlet'.at \notin {"pause", "drip"}
  BY <1>1, <1>2, IdleIs
<1> QED BY <1>1, <1>3 DEF EndsKept, WaitKept

LEMMA CommandsKept ==
  ASSUME Punctual, IInv, TimeInv, GiveCommand
  PROVE  EndsKept
<1>i. /\ greenlet = Idle /\ greenlet.at # "drip"
  BY IdleIs DEF GiveCommand, Command, Move, Dwell, DripMove, GetLastMoveTime,
                SetPosition, WaitMoves, NoteScanTime
<1>t. /\ now \in Nat /\ TH.state # "Drip" /\ Good(TH) /\ TimesKept(now, TH)
      /\ th \in ToolHeadState /\ TH \in ToolHeadState
      /\ TH.kin_flush_delay = th.kin_flush_delay
      /\ \A d \in Durations : d \in Nat
      /\ \A d \in Delays : d \in Nat
  BY <1>i, NothingTold, Typed, AtIdle, ToldKept
     DEF IInv, Good, Counted, SameMode
<1>0. 0 \in Nat
  OBVIOUS
<1>1. ASSUME NEW d \in Durations, Move(d)
      PROVE  EndsKept
  <2>1. PICK u \in Added(TH, d) :
          IF PauseDue(u) THEN CheckPause(u, 0) ELSE Continue(u, 0)
    BY <1>1 DEF Move
  <2>2. Good(u) /\ u.state # "Drip" /\ TimesKept(now, u)
    BY <1>t, Adds, AddedKept
  <2> QED BY <1>t, <1>0, <2>1, <2>2, CheckKept, ContinueKept
<1>2. ASSUME NEW d \in Durations, Dwell(d)
      PROVE  EndsKept
  <2> DEFINE u == Dwelt(TH, d)
  <2>1. Good(u) /\ u.state # "Drip" /\ TimesKept(now, u)
    BY <1>t, Dwells, DweltKept
  <2>2. CheckPause(u, 0)
    BY <1>2 DEF Dwell
  <2> HIDE DEF u
  <2> QED BY <1>t, <1>0, <2>1, <2>2, CheckKept
<1>3. ASSUME NEW d \in Durations, DripMove(d)
      PROVE  EndsKept
  <2> DEFINE k == th.kin_flush_delay
             u == Dwelt(TH, k)
  <2>1. k \in Nat /\ d \in Nat
    BY <1>t, FieldTypes
  <2>2. /\ Good(u) /\ Follows(TH, u) /\ u.state # "Drip" /\ u.queue = 0
        /\ TimesKept(now, u) /\ Near(u)
        /\ now + BGFLUSH_LOW_TIME + k <= u.print_time + Late
    BY <1>t, <2>1, Dwells, DweltKept
  <2>3. CheckPause(u, d)
    BY <1>3 DEF DripMove
  <2> HIDE DEF u
  <2>4. u.kin_flush_delay = k
    BY <1>t, <2>2 DEF Follows
  <2>5. DripReady(now, u)
    BY <1>t, <2>2, <2>4, DwellReady DEF Good
  <2> QED BY <1>t, <2>1, <2>2, <2>3, <2>5, CheckKept
<1>4. ASSUME GetLastMoveTime
      PROVE  EndsKept
  <2> DEFINE u == LastMoveTime(TH)
  <2>1. Good(u) /\ u.state # "Drip" /\ TimesKept(now, u)
    BY <1>t, LastMove, LastMoveKept
  <2>2. Continue(u, 0)
    BY <1>4 DEF GetLastMoveTime
  <2> HIDE DEF u
  <2> QED BY <1>t, <1>0, <2>1, <2>2, ContinueKept
<1>5. ASSUME SetPosition
      PROVE  EndsKept
  <2> DEFINE u == FlushStepGeneration(TH)
  <2>1. Good(u) /\ u.state = "NeedPrime" /\ TimesKept(now, u)
    BY <1>t, StepGeneration, StepGenerationKept
  <2>2. Continue(u, 0)
    BY <1>5 DEF SetPosition
  <2> HIDE DEF u
  <2> QED BY <1>t, <1>0, <2>1, <2>2, ContinueKept
<1>6. ASSUME WaitMoves
      PROVE  EndsKept
  <2>1. TimesKept(now, FlushLookahead(TH))
    BY <1>t, LookaheadKept
  <2>2. WaitLoop(FlushLookahead(TH))
    BY <1>6 DEF WaitMoves
  <2> QED BY <2>1, <2>2, WaitLoopKept
<1>7. ASSUME NEW d \in Delays, NoteScanTime(d)
      PROVE  EndsKept
  <2> DEFINE u == FlushStepGeneration(TH)
             w == [u EXCEPT !.kin_flush_delay = d]
  <2>1. Good(u) /\ u.state = "NeedPrime" /\ TimesKept(now, u)
    BY <1>t, StepGeneration, StepGenerationKept
  <2>2. Continue(w, 0)
    BY <1>7 DEF NoteScanTime
  <2> HIDE DEF u
  <2>3. u \in ToolHeadState
    BY <2>1 DEF Good, Counted
  <2>4. /\ SameSteps(u, w) /\ SameFlush(u, w)
        /\ w.print_time = u.print_time /\ w.state = "NeedPrime"
        /\ w.step_gen_time = u.step_gen_time
    BY <2>1, <2>3 DEF ToolHeadState, SameSteps, SameFlush
  <2> HIDE DEF w
  <2>5. NoneLeft(u) <=> NoneLeft(w)
    BY <2>4 DEF NoneLeft, SameSteps, SameFlush
  <2>6. TimerKept(now, u) <=> TimerKept(now, w)
    BY <2>4, <2>5 DEF TimerKept, SameSteps, SameFlush
  <2>7. TimesKept(now, w)
    BY <2>1, <2>4, <2>5, <2>6 DEF TimesKept, SameSteps, SameFlush
  <2>8. th' = w /\ greenlet' = Idle
    BY <2>2 DEF Continue
  <2> QED BY <2>7, <2>8, IdleKept
<1> QED BY <1>1, <1>2, <1>3, <1>4, <1>5, <1>6, <1>7 DEF GiveCommand

(* A command that paused before a drip move still has the time to begin it. *)
LEMMA WaitersKept ==
  ASSUME Punctual, IInv, TimeInv, Resume \/ WaitMore
  PROVE  EndsKept
<1>t. /\ now \in Nat /\ greenlet.drip \in Nat /\ greenlet.wake \in Int
      /\ TH.state # "Drip" /\ Good(TH) /\ TimesKept(now, TH)
      /\ SameClock(th, TH) /\ TH.queue = th.queue /\ (Near(th) <=> Near(TH))
  BY NothingTold, Typed, AtIdle, ToldKept DEF Resume, WaitMore
<1>1. CASE Resume
  <2>1. greenlet.at = "pause" /\ PauseLoop(TH, greenlet.drip)
    BY <1>1 DEF Resume
  <2>2. ASSUME greenlet.drip # 0
        PROVE  DripReady(now, TH)
    <3>1. /\ greenlet.wake + BUFFER_TIME_HIGH <= th.print_time
          /\ now <= greenlet.wake + Late
          /\ th.queue = 0 /\ Near(th)
      BY <2>1, <2>2 DEF TimeInv, WaitKept
    <3>2. /\ TH.print_time \in Nat /\ TH.last_flush_time \in Nat
          /\ TH.kin_flush_delay \in Nat /\ TH.kin_flush_delay \in Delays
          /\ TH.print_time = th.print_time
      BY <1>t, FieldTypes DEF Good, Counted, SameClock
    <3>3. /\ Late \in Nat /\ STEPCOMPRESS_FLUSH_TIME \in Nat
          /\ BUFFER_TIME_HIGH \in Nat /\ BUFFER_TIME_START \in Nat
          /\ BGFLUSH_LOW_TIME \in Nat /\ DRIP_TIME \in Nat
          /\ BGFLUSH_LOW_TIME <= BUFFER_TIME_START
          /\ BUFFER_TIME_START + Late <= BUFFER_TIME_HIGH
          /\ BUFFER_TIME_START + 2 * Late < DRIP_TIME + BGFLUSH_LOW_TIME
          /\ 2 * Late + TH.kin_flush_delay + STEPCOMPRESS_FLUSH_TIME
               < BUFFER_TIME_HIGH
      BY <3>2, ConstantTypes, ToolHeadAssumption DEF Punctual
    <3>4. now + BUFFER_TIME_HIGH <= TH.print_time + Late
      BY <1>t, <3>1, <3>2, <3>3
    <3>5. TH.print_time <= TH.last_flush_time + TH.kin_flush_delay
                           + STEPCOMPRESS_FLUSH_TIME
      BY <1>t, <3>1 DEF Near
    <3>6. now + Late < TH.last_flush_time
      BY <1>t, <3>2, <3>3, <3>4, <3>5
    <3>7. now + BUFFER_TIME_START + Late
            < TH.last_flush_time + DRIP_TIME + STEPCOMPRESS_FLUSH_TIME
              + TH.kin_flush_delay
      BY <1>t, <3>2, <3>3, <3>4, <3>5
    <3> QED BY <1>t, <3>1, <3>6, <3>7 DEF DripReady
  <2> QED BY <1>t, <2>1, <2>2, PauseKept
<1>2. CASE WaitMore
  BY <1>2, <1>t, WaitLoopKept DEF WaitMore
<1> QED BY <1>1, <1>2

(* The drip mode feeds the move in time, and not too early.                *)
LEMMA SegmentKept ==
  ASSUME Punctual, IInv, TimeInv, DripSegment
  PROVE  EndsKept
<1>d. greenlet.at = "drip"
  BY DEF DripSegment, Dripping
<1>t. /\ TH.state = "Drip" /\ ~TH.do_kick /\ TH.flush_timer = Never
      /\ StepsDone(TH) /\ Counted(TH) /\ Armed(TH)
      /\ TH.kin_flush_delay = th.kin_flush_delay
      /\ th.print_time \in Nat /\ th.kin_flush_delay \in Nat
      /\ TH.print_time = th.print_time /\ TH \in ToolHeadState
      /\ th.last_flush_time \in Nat /\ TH.need_flush_time \in Nat
      /\ TH.min_restart_time \in Nat /\ TH.step_gen_time \in Nat
  BY <1>d, DripIs, NothingTold, FieldTypes DEF IInv, Good, Counted
<1>k. TimesKept(now, TH) /\ SameClock(th, TH)
  BY ToldKept
<1>g. /\ now \in Nat /\ greenlet \in GreenletState
      /\ greenlet.wake \in Int /\ greenlet.drip \in Nat
  BY Typed
<1>w. /\ now <= greenlet.wake + Late /\ DripKept(th, greenlet.wake)
  BY <1>d DEF TimeInv, WaitKept
<1>c. /\ Late \in Nat /\ STEPCOMPRESS_FLUSH_TIME \in Nat
      /\ DRIP_TIME \in Nat /\ DRIP_SEGMENT_TIME \in Nat /\ Late < DRIP_TIME
      /\ DRIP_SEGMENT_TIME > 0
  BY ConstantTypes, ToolHeadAssumption DEF Punctual
<1> DEFINE wait == th.print_time - now
                   - (DRIP_TIME + STEPCOMPRESS_FLUSH_TIME + th.kin_flush_delay)
           to == Sooner(th.print_time + DRIP_SEGMENT_TIME, greenlet.drip)
           time == to + th.kin_flush_delay
           n == NoteActivity(TH, time)
<1>1. /\ wait \in Int /\ to \in Nat /\ time \in Nat /\ th.print_time < to
  BY <1>t, <1>g, <1>c DEF Sooner, DripSegment
<1>2. \/ /\ wait > 0 /\ th' = TH
         /\ greenlet' = [greenlet EXCEPT !.wake = now + wait]
      \/ /\ th' = AdvanceMoveTime(n, to) /\ greenlet' = greenlet
  BY DEF DripSegment
<1>3. CASE /\ wait > 0 /\ th' = TH
           /\ greenlet' = [greenlet EXCEPT !.wake = now + wait]
  <2> DEFINE w == now + wait
  <2>1. /\ w \in Int /\ now < w
        /\ w = th.print_time - DRIP_TIME - STEPCOMPRESS_FLUSH_TIME
               - th.kin_flush_delay
    BY <1>t, <1>g, <1>1, <1>3, <1>c
  <2>2. greenlet'.at = "drip" /\ greenlet'.wake = w
    BY <1>d, <1>g, <1>3 DEF GreenletState
  <2> HIDE DEF wait, w
  <2>3. /\ th'.print_time = th.print_time
        /\ th'.last_flush_time = th.last_flush_time
        /\ th'.need_flush_time = th.need_flush_time
        /\ th'.kin_flush_delay = th.kin_flush_delay
    BY <1>3, <1>k DEF SameClock, SameTimes, SameSteps
  <2>4. NoneLeft(th) <=> NoneLeft(th')
    BY <2>3 DEF NoneLeft
  <2>5. w + Late + th.kin_flush_delay + STEPCOMPRESS_FLUSH_TIME
          <= th.print_time
    BY <1>t, <1>c, <2>1
  <2>6. NoneLeft(th) \/ w + Late < th.last_flush_time
    BY <1>t, <1>c, <1>w, <2>1 DEF DripKept
  <2>7. DripKept(th', w)
    BY <1>w, <2>3, <2>4, <2>5, <2>6 DEF DripKept
  <2>8. now <= w + Late
    BY <1>g, <1>c, <2>1
  <2> QED BY <1>3, <1>k, <2>2, <2>7, <2>8 DEF EndsKept, WaitKept
<1>4. CASE th' = AdvanceMoveTime(n, to) /\ greenlet' = greenlet
  <2> HIDE DEF wait, to, time
  <2>1. /\ Counted(n) /\ SameMode(TH, n) /\ SameSteps(TH, n)
        /\ n.print_time = TH.print_time
    BY <1>t, <1>g, <1>1, Note
  <2>2. /\ n.need_flush_time = Later(TH.need_flush_time, time)
        /\ n.step_gen_time = Later(TH.step_gen_time, time)
        /\ n.flush_timer = Never
    BY <1>t, <1>g, <1>1, NoteOnward
  <2> HIDE DEF n
  <2>3. /\ Counted(th') /\ SameMode(n, th') /\ th'.print_time = Later(n.print_time, to)
        /\ Onward(n, th') /\ Near(th')
    BY <1>1, <1>4, <2>1, MoveTime, MoveTimeOnward
  <2> DEFINE K == th.kin_flush_delay
             L == th'.last_flush_time
  <2>4. th'.print_time = to
    BY <1>1, <1>t, <2>1, <2>3 DEF Later
  <2>5. /\ th'.state = "Drip" /\ th'.kin_flush_delay = K
        /\ th'.flush_timer = Never
        /\ th'.need_flush_time = n.need_flush_time
        /\ th'.step_gen_time = n.step_gen_time
        /\ n.min_restart_time = TH.min_restart_time
    BY <1>t, <2>1, <2>2, <2>3 DEF SameMode, SameSteps, Onward, SameTimes
  <2>6. L \in Nat /\ th'.min_restart_time \in Nat
    BY <2>3, FieldTypes DEF Counted
  <2>7. to <= L + K + STEPCOMPRESS_FLUSH_TIME
    BY <2>3, <2>4, <2>5 DEF Near
  <2>8. th'.need_flush_time <= th'.step_gen_time
    BY <1>t, <1>k, <1>1, <2>2, <2>5 DEF TimesKept, Later
  <2>9. th'.min_restart_time <= L + STEPCOMPRESS_FLUSH_TIME
    <3>1. TH.min_restart_time + K <= th.print_time
      BY <1>t DEF StepsDone
    <3>2. TH.min_restart_time <= L + STEPCOMPRESS_FLUSH_TIME
      BY <1>t, <1>c, <1>1, <2>6, <2>7, <3>1
    <3>3. \/ th'.min_restart_time <= TH.min_restart_time
          \/ th'.min_restart_time <= L + STEPCOMPRESS_FLUSH_TIME
      BY <2>3, <2>5 DEF Onward
    <3> QED BY <1>t, <1>c, <2>6, <3>2, <3>3
  <2>10. TimesKept(now, th')
    BY <2>5, <2>8, <2>9 DEF TimesKept
  <2>11. greenlet.wake + Late + K + STEPCOMPRESS_FLUSH_TIME <= th.print_time
    BY <1>w DEF DripKept
  <2>12. DripKept(th', greenlet.wake)
    <3>1. greenlet.wake + Late + K + STEPCOMPRESS_FLUSH_TIME <= to
      BY <1>t, <1>g, <1>c, <1>1, <2>11
    <3>2. greenlet.wake + Late < L
      BY <1>t, <1>g, <1>c, <1>1, <2>6, <2>7, <2>11
    <3>3. to + Late < L + DRIP_TIME + STEPCOMPRESS_FLUSH_TIME + K
      BY <1>t, <1>c, <1>1, <2>6, <2>7
    <3> QED BY <2>4, <2>5, <3>1, <3>2, <3>3 DEF DripKept
  <2> QED BY <1>d, <1>w, <1>4, <2>10, <2>12 DEF EndsKept, WaitKept
<1> QED BY <1>2, <1>3, <1>4

LEMMA DripsKept ==
  ASSUME Punctual, IInv, TimeInv, DripSegment \/ DripStops \/ DripDone \/ Complete
  PROVE  EndsKept
<1>d. greenlet.at = "drip"
  BY DEF DripSegment, DripStops, DripDone, Complete, Dripping
<1>t. /\ TH.state = "Drip" /\ Counted(TH) /\ Armed(TH)
      /\ TH.flush_timer = Never /\ ~TH.do_kick
      /\ TH.trapq = th.trapq /\ TH.kin_flush_delay = th.kin_flush_delay
      /\ th.kin_flush_delay \in Nat /\ TH \in ToolHeadState
      /\ th.trapq \in Stretch /\ th.generated \in Nat
      /\ th.trapq.end \in Nat /\ th.trapq.rest \in Nat
      /\ TH.need_flush_time \in Nat /\ TH.step_gen_time \in Nat
  BY <1>d, DripIs, NothingTold, FieldTypes DEF IInv, Good, Counted
<1>k. TimesKept(now, TH) /\ SameClock(th, TH)
  BY ToldKept
<1>g. /\ now \in Nat /\ greenlet \in GreenletState
      /\ greenlet.wake \in Int /\ greenlet.drip \in Nat
  BY Typed
<1>w. /\ now <= greenlet.wake + Late /\ DripKept(th, greenlet.wake)
  BY <1>d DEF TimeInv, WaitKept
<1>c. Late \in Nat /\ STEPCOMPRESS_FLUSH_TIME \in Nat
  BY ConstantTypes, ToolHeadAssumption
<1>1. CASE DripSegment
  BY <1>1, SegmentKept
<1>2. CASE DripStops
  <2> DEFINE q == Truncated(TH.trapq, th.generated)
             x == [TH EXCEPT !.queue = 0, !.trapq = q]
  <2>1. th' = DripEnded(x) /\ greenlet' = Idle
    BY <1>2 DEF DripStops
  <2>2. q \in Stretch
    <3> DEFINE end  == Sooner(th.trapq.end, th.generated)
               rest == Sooner(th.trapq.rest, th.generated)
    <3>1. end \in Nat /\ rest \in Nat
      BY <1>t DEF Sooner
    <3>2. q = [th.trapq EXCEPT !.end = end, !.rest = rest]
      BY <1>t DEF Truncated
    <3> HIDE DEF q, end, rest
    <3> QED BY <1>t, <3>1, <3>2 DEF Stretch
  <2> HIDE DEF q
  <2>3. /\ x \in ToolHeadState /\ SameSteps(TH, x)
        /\ x.state = "Drip" /\ x.queue = 0
    BY <1>t, <2>2 DEF ToolHeadState, SameSteps
  <2>4. SameClock(TH, x)
    BY <1>t DEF ToolHeadState, SameClock, SameTimes, SameSteps
  <2> HIDE DEF x
  <2>5. Counted(x)
    BY <1>t, <2>3 DEF Counted, SameSteps
  <2>6. TimesKept(now, x)
    BY <1>g, <1>k, <1>t, <2>3, <2>4, ClockKept
  <2> QED BY <1>g, <2>1, <2>3, <2>5, <2>6, DripEndedKept, IdleKept
<1>3. CASE DripDone
  <2> DEFINE time == greenlet.drip + th.kin_flush_delay
             n == NoteActivity(TH, time)
             a == AdvanceMoveTime(n, greenlet.drip)
             x == [a EXCEPT !.queue = 0]
  <2>1. th' = DripEnded(x) /\ greenlet' = Idle
    BY <1>3 DEF DripDone
  <2>2. time \in Nat
    BY <1>t, <1>g
  <2> HIDE DEF time
  <2>3. /\ Counted(n) /\ SameMode(TH, n) /\ SameSteps(TH, n)
        /\ n.print_time = TH.print_time
    BY <1>t, <1>g, <2>2, Note
  <2>4. /\ n.need_flush_time = Later(TH.need_flush_time, time)
        /\ n.step_gen_time = Later(TH.step_gen_time, time)
        /\ n.flush_timer = Never
    BY <1>t, <1>g, <2>2, NoteOnward
  <2> HIDE DEF n
  <2>5. /\ Counted(a) /\ SameMode(n, a) /\ Onward(n, a)
    BY <1>g, <2>3, MoveTime, MoveTimeOnward
  <2>6. /\ Near(a) /\ a.print_time = Later(n.print_time, greenlet.drip)
    BY <1>g, <2>3, MoveTime, MoveTimeOnward
  <2> HIDE DEF a
  <2>7. a \in ToolHeadState /\ a.state = "Drip"
    BY <1>t, <2>3, <2>5 DEF Counted, SameMode
  <2>8. /\ x \in ToolHeadState /\ SameSteps(a, x)
        /\ x.state = "Drip" /\ x.queue = 0
    BY <2>7 DEF ToolHeadState, SameSteps
  <2>9. SameClock(a, x)
    BY <2>7 DEF ToolHeadState, SameClock, SameTimes, SameSteps
  <2> HIDE DEF x
  <2>10. Counted(x)
    BY <2>5, <2>8 DEF Counted, SameSteps
  <2>11. TimesKept(now, a)
    <3>1. a.need_flush_time <= a.step_gen_time
      BY <1>t, <1>k, <2>2, <2>4, <2>5 DEF TimesKept, Later, Onward, SameTimes
    <3>2. a.min_restart_time <= a.last_flush_time + STEPCOMPRESS_FLUSH_TIME
      <4>1. TH.min_restart_time + TH.kin_flush_delay <= TH.print_time
        BY <1>d, DripIs DEF StepsDone
      <4>2. /\ TH.min_restart_time \in Nat /\ TH.print_time \in Nat
            /\ a.last_flush_time \in Nat /\ a.min_restart_time \in Nat
            /\ a.print_time \in Nat /\ TH.kin_flush_delay \in Nat
        BY <1>t, <2>7, FieldTypes
      <4>3. /\ n.min_restart_time = TH.min_restart_time
            /\ a.kin_flush_delay = TH.kin_flush_delay
        BY <2>3, <2>5 DEF SameSteps, SameMode
      <4>4. TH.print_time <= a.print_time
        BY <1>g, <2>3, <2>6, <4>2 DEF Later
      <4>5. TH.min_restart_time <= a.last_flush_time + STEPCOMPRESS_FLUSH_TIME
        BY <1>c, <2>6, <4>1, <4>2, <4>3, <4>4 DEF Near
      <4>6. \/ a.min_restart_time <= TH.min_restart_time
            \/ a.min_restart_time <= a.last_flush_time + STEPCOMPRESS_FLUSH_TIME
        BY <2>5, <4>3 DEF Onward
      <4> QED BY <1>c, <4>2, <4>5, <4>6
    <3>3. a.flush_timer = Never
      BY <2>4, <2>5 DEF Onward, SameTimes
    <3> QED BY <2>7, <3>1, <3>2, <3>3 DEF TimesKept
  <2>12. TimesKept(now, x)
    BY <1>g, <2>7, <2>8, <2>9, <2>11, ClockKept
  <2> QED BY <1>g, <2>1, <2>8, <2>10, <2>12, DripEndedKept, IdleKept
<1>4. CASE Complete
  <2> DEFINE w == Sooner(greenlet.wake, now)
  <2>1. w \in Int /\ w <= greenlet.wake /\ now <= w + Late
    BY <1>g, <1>w, <1>c DEF Sooner
  <2>2. /\ th' = TH
        /\ greenlet' = [greenlet EXCEPT !.wake = w]
    BY <1>4 DEF Complete
  <2>3. greenlet'.at = "drip" /\ greenlet'.wake = w
    BY <1>d, <1>g, <2>2 DEF GreenletState
  <2> HIDE DEF w
  <2>4. /\ th'.print_time = th.print_time
        /\ th'.last_flush_time = th.last_flush_time
        /\ th'.need_flush_time = th.need_flush_time
        /\ th'.kin_flush_delay = th.kin_flush_delay
        /\ th.print_time \in Nat /\ th.last_flush_time \in Nat
    BY <1>k, <2>2, FieldTypes
       DEF SameClock, SameTimes, SameSteps, IInv, Good, Counted
  <2>5. NoneLeft(th) <=> NoneLeft(th')
    BY <2>4 DEF NoneLeft
  <2>6. /\ w + Late + th.kin_flush_delay + STEPCOMPRESS_FLUSH_TIME
             <= th.print_time
        /\ NoneLeft(th) \/ w + Late < th.last_flush_time
    BY <1>c, <1>g, <1>t, <1>w, <2>1, <2>4 DEF DripKept
  <2>7. DripKept(th', w)
    BY <1>w, <2>4, <2>5, <2>6 DEF DripKept
  <2> QED BY <1>k, <2>1, <2>2, <2>3, <2>7 DEF EndsKept, WaitKept
<1> QED BY <1>1, <1>2, <1>3, <1>4

(* The timers and the shutdown leave a command that waits its time.        *)
LEMMA OthersKept ==
  ASSUME IInv, TimeInv, TimesKept(now, th'), th' \in ToolHeadState,
         greenlet' = greenlet,
         th.print_time <= th'.print_time, th.queue = 0 => th'.queue = 0,
         Near(th) => Near(th'),
         th.state = "Drip" => SameClock(th, th')
  PROVE  EndsKept
<1>1. /\ th \in ToolHeadState /\ greenlet.wake \in Int
      /\ th.state = "Drip" <=> greenlet.at = "drip"
  BY Typed DEF IInv, Good, Counted, DripState
<1>2. /\ th.print_time \in Nat /\ th'.print_time \in Nat
      /\ BUFFER_TIME_HIGH \in Nat
  BY <1>1, FieldTypes, ConstantTypes
<1>3. CASE greenlet.at = "drip"
  <2>1. SameClock(th, th')
    BY <1>1, <1>3
  <2>2. DripKept(th', greenlet.wake)
    BY <1>3, <2>1 DEF TimeInv, WaitKept, DripKept, NoneLeft, SameClock,
                      SameTimes, SameSteps
  <2> QED BY <1>3, <2>2 DEF TimeInv, WaitKept, EndsKept
<1>4. CASE greenlet.at # "drip"
  BY <1>1, <1>2, <1>4 DEF TimeInv, WaitKept, EndsKept
<1> QED BY <1>3, <1>4

LEMMA PrimingKept ==
  ASSUME Punctual, IInv, TimeInv, PrimingHandler
  PROVE  EndsKept
<1> DEFINE t == [TH EXCEPT !.priming_timer = Never]
<1>1. /\ th' = IF t.state = "Priming" THEN FlushLookahead(t) ELSE t
      /\ greenlet' = greenlet
  BY DEF PrimingHandler
<1>2. /\ Alike(TH, t) /\ t.state = TH.state /\ t.queue = TH.queue
  BY NothingTold DEF Alike, ToolHeadState, SameSteps, SameFlush
<1>3. SameClock(TH, t)
  BY NothingTold DEF ToolHeadState, SameClock, SameTimes, SameSteps
<1> HIDE DEF t
<1>4. /\ Good(t) /\ t.state = th.state /\ t \in ToolHeadState
      /\ TH \in ToolHeadState /\ th \in ToolHeadState /\ now \in Nat
      /\ t.queue = th.queue /\ t.print_time = th.print_time
  BY <1>2, <1>3, NothingTold, Typed, AlikeGood, ToldKept
     DEF SameMode, Alike, IInv, Good, Counted
<1>5. /\ SameClock(th, t) /\ TimesKept(now, t) /\ (Near(th) <=> Near(t))
  <2>1. SameClock(th, TH) /\ TimesKept(now, TH)
    BY ToldKept
  <2>2. SameClock(th, t)
    BY <1>3, <2>1 DEF SameClock, SameTimes, SameSteps
  <2>3. TimesKept(now, th)
    BY DEF TimeInv
  <2> QED BY <1>4, <2>2, <2>3, ClockKept
<1>6. CASE t.state = "Priming"
  <2>1. /\ Good(th') /\ Follows(t, th') /\ th'.queue = 0
        /\ TimesKept(now, th') /\ (Near(t) => Near(th'))
    BY <1>1, <1>4, <1>5, <1>6, LookaheadFlushes, LookaheadKept
  <2>2. th.state # "Drip"
    BY <1>4, <1>6
  <2>3. th.print_time <= th'.print_time
    BY <1>4, <2>1 DEF Follows
  <2> QED BY <1>1, <1>5, <2>1, <2>2, <2>3, OthersKept DEF Good, Counted
<1>7. CASE t.state # "Priming"
  <2>1. th' = t
    BY <1>1, <1>7
  <2>2. th.print_time <= th'.print_time
    BY <1>4, <2>1, FieldTypes
  <2> QED BY <1>1, <1>4, <1>5, <2>1, <2>2, OthersKept
<1> QED BY <1>6, <1>7

(* The flush timer is armed again before what is flushed runs out.         *)
LEMMA QueuesKept ==
  ASSUME Punctual, NEW t, Good(t), t.state \in {"NeedPrime", "Priming"},
         now \in Nat, TimesKept(now, t), NEW u, u = FlushQueues(t)
  PROVE  /\ TimesKept(now, u) /\ u.print_time = t.print_time
         /\ u.queue = t.queue /\ (Near(t) => Near(u))
<1> DEFINE end == t.need_flush_time + BGFLUSH_EXTRA_TIME
           far == t.last_flush_time - now > BGFLUSH_LOW_TIME
           upto == now + BGFLUSH_LOW_TIME + BGFLUSH_BATCH_TIME
           to  == Sooner(end, upto)
           a   == IF far THEN t ELSE AdvanceFlushTime(t, to)
           f   == IF t.last_flush_time >= end THEN t ELSE a
           yes == TRUE
           wake == f.last_flush_time - BGFLUSH_LOW_TIME
<1>t. /\ t \in ToolHeadState /\ t.need_flush_time \in Nat
      /\ t.last_flush_time \in Nat
      /\ BGFLUSH_EXTRA_TIME \in Nat /\ BGFLUSH_LOW_TIME \in Nat
      /\ BGFLUSH_BATCH_TIME \in Nat /\ Late \in Nat
      /\ STEPCOMPRESS_FLUSH_TIME \in Nat
      /\ 2 * Late + STEPCOMPRESS_FLUSH_TIME < BGFLUSH_LOW_TIME
  BY FieldTypes, ConstantTypes, ToolHeadAssumption DEF Good, Counted, Punctual
<1>1. /\ end \in Int /\ upto \in Int /\ to \in Int
      /\ to = end \/ to = upto
  BY <1>t DEF Sooner
<1>2. u = IF f.last_flush_time >= end
          THEN [f EXCEPT !.do_kick = yes, !.flush_timer = Never]
          ELSE [f EXCEPT !.flush_timer = wake]
  BY DEF FlushQueues
<1>3. \/ f = t /\ (t.last_flush_time >= end \/ far)
      \/ f = AdvanceFlushTime(t, to)
  OBVIOUS
<1>y. yes \in BOOLEAN /\ yes
  OBVIOUS
<1> HIDE DEF f, to, yes, a
<1>4. /\ Counted(f) /\ SameMode(t, f) /\ Onward(t, f)
      /\ f.print_time = t.print_time /\ (Near(t) => Near(f))
      /\ \/ t.last_flush_time >= end /\ f = t
         \/ far /\ f = t
         \/ to <= f.last_flush_time
  <2>1. CASE f = t /\ (t.last_flush_time >= end \/ far)
    <3>1. SameMode(t, f) /\ Counted(f)
      BY <2>1 DEF Good, SameMode
    <3>2. Onward(t, f)
      BY <1>t, <2>1, SameOnward DEF SameTimes, SameSteps
    <3> QED BY <2>1, <3>1, <3>2
  <2>2. CASE f = AdvanceFlushTime(t, to)
    BY <1>1, <2>2, FlushTime, FlushTimeOnward DEF Good
  <2> QED BY <1>3, <2>1, <2>2
<1>5. /\ f \in ToolHeadState /\ f.last_flush_time \in Nat
      /\ f.min_restart_time \in Nat /\ wake \in Int
      /\ wake \in Int \union {Never} /\ Never \in Int \union {Never}
      /\ f.state = t.state /\ f.queue = t.queue
  BY <1>t, <1>4, FieldTypes, ConstantTypes DEF Counted, SameMode
<1>6. TimesKept(now, f)
  BY <1>t, <1>4, <1>5, OnwardKept
<1>7. CASE f.last_flush_time >= end
  <2>1. u = [f EXCEPT !.do_kick = yes, !.flush_timer = Never]
    BY <1>2, <1>7
  <2>2. /\ SameSteps(f, u) /\ u.print_time = f.print_time
        /\ u.need_flush_time = f.need_flush_time /\ u.queue = f.queue
        /\ u.state = f.state /\ u.step_gen_time = f.step_gen_time
        /\ u.kin_flush_delay = f.kin_flush_delay
    BY <1>5, <2>1 DEF ToolHeadState, SameSteps
  <2>3. u.flush_timer = Never
    BY <1>5, <2>1 DEF ToolHeadState
  <2>4. TimesKept(now, u)
    BY <1>5, <1>6, <2>2, <2>3 DEF TimesKept, NoneLeft, SameSteps
  <2>5. Near(f) => Near(u)
    BY <2>2 DEF Near, SameSteps
  <2> QED BY <1>4, <1>5, <2>2, <2>4, <2>5
<1>8. CASE ~(f.last_flush_time >= end)
  <2>1. u = [f EXCEPT !.flush_timer = wake]
    BY <1>2, <1>8
  <2>2. /\ SameSteps(f, u) /\ u.print_time = f.print_time
        /\ u.need_flush_time = f.need_flush_time /\ u.queue = f.queue
        /\ u.state = f.state /\ u.step_gen_time = f.step_gen_time
        /\ u.kin_flush_delay = f.kin_flush_delay /\ u.flush_timer = wake
    BY <1>5, <2>1 DEF ToolHeadState, SameSteps
  <2>3. now < wake
    <3>1. to <= f.last_flush_time => to = upto
      BY <1>1, <1>5, <1>8
    <3>2. (far /\ f = t) \/ upto <= f.last_flush_time
      BY <1>4, <1>8, <3>1
    <3>3. BGFLUSH_BATCH_TIME > 0
      BY ToolHeadAssumption
    <3> QED BY <1>t, <1>1, <1>5, <3>2, <3>3
  <2>4. wake + Late < f.last_flush_time /\ now <= wake + Late
    BY <1>t, <1>5, <2>3
  <2>5. wake + BGFLUSH_LOW_TIME <= f.min_restart_time
    BY <1>t, <1>4, <1>5 DEF Counted
  <2>6. TimerKept(now, u)
    BY <2>2, <2>4, <2>5 DEF TimerKept, SameSteps
  <2>7. TimesKept(now, u)
    BY <1>5, <1>6, <2>2, <2>6 DEF TimesKept, NoneLeft, SameSteps
  <2>8. Near(f) => Near(u)
    BY <2>2 DEF Near, SameSteps
  <2> QED BY <1>4, <1>5, <2>2, <2>7, <2>8
<1> QED BY <1>7, <1>8

LEMMA FlushHandlerKept ==
  ASSUME Punctual, IInv, TimeInv, FlushHandler
  PROVE  EndsKept
<1>1. /\ th.flush_timer # Never /\ greenlet' = greenlet
      /\ th' = IF RunningNormally(th)
               THEN [TH EXCEPT !.flush_timer = th.print_time - BUFFER_TIME_LOW]
               ELSE FlushQueues(IF th.state = "main" THEN FlushLookahead(TH)
                                ELSE TH)
  BY DEF FlushHandler, Due
<1>t. /\ Good(th) /\ Good(TH) /\ Follows(th, TH) /\ SameMode(th, TH)
      /\ SameFlush(th, TH) /\ SameSteps(th, TH) /\ now \in Nat
      /\ th \in ToolHeadState /\ TH \in ToolHeadState
      /\ TH.print_time = th.print_time /\ th.print_time \in Nat
      /\ th.last_flush_time \in Nat /\ th.kin_flush_delay \in Delays
      /\ th.kin_flush_delay \in Nat
      /\ th.state \in {"NeedPrime", "Priming", "main", "Drip"}
  BY NothingTold, Typed, FieldTypes DEF IInv, Good, Counted
<1>k. /\ TimesKept(now, TH) /\ SameClock(th, TH) /\ TH.queue = th.queue
      /\ (Near(th) <=> Near(TH))
  BY ToldKept
<1>2. /\ th.state # "Drip" /\ ~TH.do_kick
      /\ TH.state = th.state
  BY <1>1, <1>t DEF Good, Armed, SameFlush, SameMode
<1>g. Good(th') /\ th' \in ToolHeadState
  BY FlushGood DEF GoodStep, Good, Counted
<1>3. CASE RunningNormally(th)
  <2> DEFINE wake == th.print_time - BUFFER_TIME_LOW
  <2>1. th' = [TH EXCEPT !.flush_timer = wake]
    BY <1>1, <1>3
  <2>2. wake \in Int /\ wake # Never
    BY <1>t, ConstantTypes
  <2>3. /\ Late \in Nat /\ STEPCOMPRESS_FLUSH_TIME \in Nat
        /\ BUFFER_TIME_LOW \in Nat /\ BGFLUSH_LOW_TIME \in Nat
        /\ BGFLUSH_LOW_TIME <= BUFFER_TIME_LOW
        /\ Late + th.kin_flush_delay + STEPCOMPRESS_FLUSH_TIME
             < BUFFER_TIME_LOW
    BY <1>t, ConstantTypes, ToolHeadAssumption DEF Punctual
  <2>4. th.state = "main" /\ now <= wake
    BY <1>3, <1>t, <2>3 DEF RunningNormally
  <2>5. Near(th)
    BY <2>4 DEF TimeInv, TimesKept, Running
  <2>6. /\ now <= wake + Late /\ wake + Late < th.last_flush_time
        /\ wake + BGFLUSH_LOW_TIME <= th.print_time
    BY <1>t, <2>3, <2>4, <2>5 DEF Near
  <2> HIDE DEF wake
  <2>7. /\ SameSteps(TH, th') /\ th'.print_time = TH.print_time
        /\ th'.need_flush_time = TH.need_flush_time
        /\ th'.step_gen_time = TH.step_gen_time
        /\ th'.kin_flush_delay = TH.kin_flush_delay
        /\ th'.state = TH.state /\ th'.queue = TH.queue
    BY <1>t, <2>1 DEF ToolHeadState, SameSteps
  <2>8. th'.flush_timer = wake
    BY <1>t, <2>1 DEF ToolHeadState
  <2>9. th'.last_flush_time = th.last_flush_time
        /\ th'.print_time = th.print_time
    BY <1>t, <2>7 DEF SameSteps
  <2>10. Near(th') /\ Near(TH)
    BY <1>k, <2>5, <2>7 DEF Near, SameSteps
  <2>11. TimerKept(now, th') /\ Running(th')
    BY <2>2, <2>6, <2>8, <2>9, <2>10 DEF TimerKept, Running
  <2>12. TimesKept(now, th')
    BY <1>k, <2>7, <2>11 DEF TimesKept, NoneLeft, SameSteps
  <2>13. th.print_time <= th'.print_time
    BY <1>t, <2>9
  <2> QED BY <1>1, <1>2, <1>g, <1>k, <2>7, <2>10, <2>12, <2>13, OthersKept
<1>4. CASE ~RunningNormally(th) /\ th.state = "main"
  <2> DEFINE l == FlushLookahead(TH)
  <2>1. /\ Good(l) /\ Follows(TH, l) /\ l.state = "NeedPrime" /\ l.queue = 0
        /\ TimesKept(now, l) /\ (Near(TH) => Near(l))
    BY <1>t, <1>2, <1>k, LookaheadFlushes, LookaheadKept
  <2>2. th' = FlushQueues(l)
    BY <1>1, <1>4
  <2> HIDE DEF l
  <2>3. /\ TimesKept(now, th') /\ th'.print_time = l.print_time
        /\ th'.queue = l.queue /\ (Near(l) => Near(th'))
    BY <1>t, <2>1, <2>2, QueuesKept
  <2>4. th.print_time <= th'.print_time
    BY <1>t, <2>1, <2>3 DEF Follows
  <2> QED BY <1>1, <1>2, <1>g, <1>k, <2>1, <2>3, <2>4, OthersKept
<1>5. CASE ~RunningNormally(th) /\ th.state # "main"
  <2>1. th' = FlushQueues(TH)
    BY <1>1, <1>5
  <2>2. TH.state \in {"NeedPrime", "Priming"}
    BY <1>t, <1>2, <1>5
  <2>3. /\ TimesKept(now, th') /\ th'.print_time = TH.print_time
        /\ th'.queue = TH.queue /\ (Near(TH) => Near(th'))
    BY <1>t, <1>k, <2>1, <2>2, QueuesKept
  <2>4. th.print_time <= th'.print_time
    BY <1>t, <2>3
  <2> QED BY <1>1, <1>2, <1>g, <1>k, <2>3, <2>4, OthersKept
<1> QED BY <1>3, <1>4, <1>5

LEMMA ShutdownKept ==
  ASSUME IInv, TimeInv, Shutdown
  PROVE  EndsKept
<1> DEFINE no == FALSE
<1>1. /\ th' = [TH EXCEPT !.can_pause = no, !.queue = 0,
                          !.junction_flush = LOOKAHEAD_FLUSH_TIME]
      /\ greenlet' = greenlet
  BY DEF Shutdown
<1> HIDE DEF no
<1>t. /\ TH \in ToolHeadState /\ TH.state = th.state /\ now \in Nat
      /\ th.print_time \in Nat /\ TH.print_time = th.print_time
      /\ th \in ToolHeadState
  BY NothingTold, Typed, FieldTypes DEF SameMode, IInv, Good, Counted
<1>g. Good(th') /\ th' \in ToolHeadState
  BY ShutdownGood DEF GoodStep, Good, Counted
<1>2. SameClock(TH, th') /\ th'.state = TH.state
  BY <1>1, <1>t DEF ToolHeadState, SameClock, SameTimes, SameSteps
<1>3. th'.queue = 0
  BY <1>1, <1>t DEF ToolHeadState
<1>4. SameClock(th, th')
  BY <1>2, ToldKept DEF SameClock, SameTimes, SameSteps
<1>5. TimesKept(now, th') /\ (Near(th) <=> Near(th'))
  BY <1>2, <1>4, <1>g, <1>t, ClockKept DEF TimeInv
<1>6. th.print_time <= th'.print_time
  BY <1>4, <1>t DEF SameClock
<1> QED BY <1>1, <1>3, <1>4, <1>5, <1>6, <1>g, OthersKept

(* Time goes on only as far as the reactor may be late.                    *)
LEMMA ElapseKept ==
  ASSUME IInv, TimeInv, NEW wakes, Wakes \subseteq wakes, Elapse(wakes)
  PROVE  TimeInv'
<1>1. /\ now' = now + 1 /\ th' = TH /\ greenlet' = greenlet
      /\ \A w \in wakes : now < w + Late
  BY DEF Elapse
<1>t. /\ now \in Nat /\ Late \in Nat /\ greenlet.wake \in Int
      /\ th \in ToolHeadState /\ th.flush_timer \in Int \union {Never}
      /\ TH.state = th.state
  BY NothingTold, Typed, FieldTypes, ToolHeadAssumption
     DEF SameMode, IInv, Good, Counted
<1>k. /\ TimesKept(now, TH) /\ SameClock(th, TH) /\ TH.queue = th.queue
      /\ (Near(th) <=> Near(TH))
  BY ToldKept
<1>2. TH.flush_timer = th.flush_timer
  BY <1>k DEF SameClock, SameTimes
<1>3. ASSUME TH.flush_timer # Never
      PROVE  TimerKept(now + 1, TH)
  <2>1. th.flush_timer \in wakes /\ th.flush_timer \in Int
    BY <1>2, <1>3, <1>t DEF Wakes
  <2>2. now + 1 <= TH.flush_timer + Late
    BY <1>1, <1>2, <1>t, <2>1
  <2>3. TimerKept(now, TH)
    BY <1>3, <1>k DEF TimesKept
  <2> QED BY <1>2, <1>t, <2>1, <2>2, <2>3 DEF TimerKept
<1>4. TimesKept(now + 1, TH)
  BY <1>3, <1>k DEF TimesKept
<1>5. greenlet.at \in {"pause", "drip"} => now + 1 <= greenlet.wake + Late
  <2> SUFFICES ASSUME greenlet.at \in {"pause", "drip"}
               PROVE  now + 1 <= greenlet.wake + Late
    OBVIOUS
  <2>1. greenlet # Idle
    BY IdleIs
  <2>2. greenlet.wake \in wakes
    BY <2>1 DEF Wakes
  <2> QED BY <1>1, <1>t, <2>2
<1>6. \A w : DripKept(th, w) => DripKept(TH, w)
  BY <1>k DEF DripKept, NoneLeft, SameClock, SameTimes, SameSteps
<1>7. WaitKept(now + 1, TH, greenlet)
  BY <1>5, <1>6, <1>k DEF TimeInv, WaitKept, SameClock
<1> QED BY <1>1, <1>4, <1>7 DEF TimeInv

LEMMA TimeInit == Init => TimeInv
<1> SUFFICES ASSUME Init PROVE TimeInv
  OBVIOUS
<1>1. /\ th.state = "NeedPrime" /\ th.need_flush_time = 0
      /\ th.last_flush_time = 0 /\ th.step_gen_time = 0
      /\ th.flush_timer = Never /\ greenlet = Idle
  BY DEF Init
<1>2. TimesKept(now, th)
  BY <1>1 DEF TimesKept, NoneLeft
<1>3. WaitKept(now, th, greenlet)
  BY <1>1, IdleIs DEF WaitKept
<1> QED BY <1>2, <1>3 DEF TimeInv

LEMMA TimeNext ==
  ASSUME Punctual, IInv, TimeInv, [Next]_vars
  PROVE  TimeInv'
<1>1. CASE UNCHANGED vars
  BY <1>1 DEF vars, TimeInv, TimesKept, WaitKept, TimerKept, Running, Near,
              NoneLeft, DripKept
<1>2. CASE Tick
  BY <1>2, ElapseKept DEF Tick
<1>3. CASE Next /\ ~Tick /\ ~UNCHANGED vars
  <2>1. EndsKept
    <3>1. CASE GiveCommand
      BY <3>1, CommandsKept
    <3>2. CASE Resume \/ WaitMore
      BY <3>2, WaitersKept
    <3>3. CASE DripSegment \/ DripStops \/ DripDone \/ Complete
      BY <3>3, DripsKept
    <3>4. CASE PrimingHandler \/ FlushHandler
      BY <3>4, PrimingKept, FlushHandlerKept
    <3>5. CASE Shutdown
      BY <3>5, ShutdownKept
    <3> QED BY <1>3, <3>1, <3>2, <3>3, <3>4, <3>5 DEF Next, Work, AtRest
  <2>2. now' = now
    BY <1>3 DEF Next, GiveCommand, Work, Move, Dwell, DripMove,
                GetLastMoveTime, SetPosition, WaitMoves, NoteScanTime,
                Command, Resume, WaitMore, DripSegment, DripStops, DripDone,
                PrimingHandler, FlushHandler, Complete, Shutdown, AtRest, vars
  <2> QED BY <2>1, <2>2 DEF EndsKept, TimeInv
<1> QED BY <1>1, <1>2, <1>3

LEMMA TimeIsIn == Punctual /\ IInv /\ TimeInv => InTime
<1> SUFFICES ASSUME Punctual, IInv, TimeInv PROVE InTime
  OBVIOUS
<1>t. /\ now \in Nat /\ greenlet.wake \in Int /\ th \in ToolHeadState
      /\ th.last_flush_time \in Nat /\ th.need_flush_time \in Nat
      /\ th.print_time \in Nat /\ th.flush_timer \in Int \union {Never}
      /\ Late \in Nat /\ BGFLUSH_LOW_TIME \in Nat
      /\ STEPCOMPRESS_FLUSH_TIME \in Nat
      /\ 2 * Late + STEPCOMPRESS_FLUSH_TIME < BGFLUSH_LOW_TIME
  BY Typed, FieldTypes, ConstantTypes, ToolHeadAssumption
     DEF IInv, Good, Counted, Punctual
<1>1. now < th.last_flush_time \/ th.need_flush_time <= th.last_flush_time
  <2>1. CASE th.flush_timer # Never
    BY <1>t, <2>1 DEF TimeInv, TimesKept, TimerKept, NoneLeft
  <2>2. CASE th.flush_timer = Never /\ th.state # "Drip"
    <3>1. th.do_kick /\ th.last_flush_time >= th.need_flush_time
      BY <2>2 DEF IInv, Good, Armed
    <3> QED BY <1>t, <3>1
  <2>3. CASE th.state = "Drip"
    BY <1>t, <2>3 DEF IInv, DripState, TimeInv, WaitKept, DripKept, NoneLeft
  <2> QED BY <2>1, <2>2, <2>3
<1>2. ASSUME th.state = "main"
      PROVE  now < th.print_time
  BY <1>t, <1>2 DEF TimeInv, TimesKept, TimerKept, Running
<1> QED BY <1>1, <1>2 DEF InTime

(* If the reactor is late by less than the times of the toolhead leave     *)
(* room for, then whatever is ordered and whenever the timers fire, steps  *)
(* reach the micro-controller before it gets to them, and the next move is *)
(* never given a print time that has passed.                               *)
THEOREM ToolHeadInTime == ASSUME Punctual PROVE Spec => []InTime
<1> DEFINE I == IInv /\ TimeInv
<1>1. Init => I
  BY InitGood, TimeInit
<1>2. I /\ [Next]_vars => I'
  BY NextGood, TimeNext
<1>3. I => InTime
  BY TimeIsIn
<1> QED BY <1>1, <1>2, <1>3, PTL DEF Spec

-----------------------------------------------------------------------------
(* What the idle timeout is told of.  The print time is put ahead of the   *)
(* moment only by what tells it, and what is left to flush is not far      *)
(* ahead of the print time.                                                *)

\* What is left to flush comes no later than smoothing after the print time.
Steady(t) ==
  NoneLeft(t) \/ t.need_flush_time <= t.print_time + t.kin_flush_delay

\* From t to u, a print time that had passed is put ahead only by a
\* synchronisation, which is told in the same step.
Tells(t, u) ==
  /\ u.can_pause => t.can_pause
  /\ t.synced # 0 => u.synced # 0
  /\ u.print_time > now => t.print_time > now \/ u.synced # 0
  /\ Steady(t) => Steady(u)

LEMMA TellsTwice ==
  ASSUME NEW t, NEW u, NEW v, Tells(t, u), Tells(u, v)
  PROVE  Tells(t, v)
BY DEF Tells

LEMMA ClockTells ==
  ASSUME NEW t, NEW u, SameClock(t, u), u.can_pause => t.can_pause,
         u.synced = t.synced
  PROVE  Tells(t, u)
BY DEF Tells, Steady, NoneLeft, SameClock, SameTimes, SameSteps

LEMMA OnwardSteady ==
  ASSUME NEW t \in ToolHeadState, NEW u \in ToolHeadState, Onward(t, u),
         Steady(t)
  PROVE  Steady(u)
<1>1. /\ t.need_flush_time \in Nat /\ t.print_time \in Nat
      /\ t.last_flush_time \in Nat /\ t.kin_flush_delay \in Nat
      /\ u.print_time \in Nat /\ u.last_flush_time \in Nat
  BY FieldTypes
<1> QED BY <1>1 DEF Steady, NoneLeft, Onward, SameTimes

LEMMA FlushTimeTells ==
  ASSUME NEW t, Counted(t), NEW to \in Int, NEW u, u = AdvanceFlushTime(t, to)
  PROVE  Tells(t, u)
<1>1. /\ Counted(u) /\ Onward(t, u) /\ u.print_time = t.print_time
  BY FlushTime, FlushTimeOnward
<1>2. u.synced = t.synced /\ u.can_pause = t.can_pause
  BY DEF Counted, ToolHeadState, AdvanceFlushTime
<1>3. Steady(t) => Steady(u)
  BY <1>1, OnwardSteady DEF Counted
<1> QED BY <1>1, <1>2, <1>3 DEF Tells

LEMMA MoveTimeTells ==
  ASSUME NEW t, Counted(t), now \in Nat, t.print_time > now, NEW to \in Nat,
         NEW u, u = AdvanceMoveTime(t, to)
  PROVE  Tells(t, u) /\ u.print_time > now
<1>1. /\ Counted(u) /\ Onward(t, u) /\ u.print_time >= t.print_time
  BY MoveTime, MoveTimeOnward
<1>2. u.synced = t.synced /\ u.can_pause = t.can_pause
  BY DEF Counted, ToolHeadState, AdvanceMoveTime, AdvanceFlushTime
<1>3. Steady(t) => Steady(u)
  BY <1>1, OnwardSteady DEF Counted
<1>4. t.print_time \in Nat /\ u.print_time \in Nat
  BY <1>1, FieldTypes DEF Counted
<1> QED BY <1>1, <1>2, <1>3, <1>4 DEF Tells

LEMMA PrintTimeTells ==
  ASSUME NEW t, Counted(t), now \in Nat, NEW u, u = CalcPrintTime(t)
  PROVE  Tells(t, u) /\ u.print_time > now
<1> DEFINE kin   == Later(now + MIN_KIN_TIME, t.min_restart_time)
                      + t.kin_flush_delay
           least == Later(now + BUFFER_TIME_START, kin)
<1>1. /\ Counted(u) /\ Onward(t, u) /\ now + BUFFER_TIME_START <= u.print_time
  BY PrintTime, PrintTimeOnward
<1>2. BUFFER_TIME_START \in Nat /\ BUFFER_TIME_START > 0 /\ MIN_KIN_TIME \in Nat
  BY ToolHeadAssumption
<1>3. /\ t \in ToolHeadState /\ t.print_time \in Nat /\ u.print_time \in Nat
      /\ t.min_restart_time \in Nat /\ t.kin_flush_delay \in Nat
  BY <1>1, FieldTypes DEF Counted
<1>4. kin \in Nat
  BY <1>2, <1>3 DEF Later
<1>5. u = IF least > t.print_time
          THEN [t EXCEPT !.print_time = least, !.synced = least] ELSE t
  BY DEF CalcPrintTime
<1> HIDE DEF kin
<1>6. least \in Nat /\ least > 0
  BY <1>2, <1>4 DEF Later
<1> HIDE DEF least
<1>7. u.can_pause = t.can_pause
  BY <1>3, <1>5 DEF ToolHeadState
<1>8. u.synced # 0 \/ u = t
  BY <1>3, <1>5, <1>6 DEF ToolHeadState
<1>9. Steady(t) => Steady(u)
  BY <1>1, OnwardSteady DEF Counted
<1>10. u.print_time > now
  BY <1>1, <1>2, <1>3
<1> QED BY <1>7, <1>8, <1>9, <1>10 DEF Tells

\* When the toolhead moves, the print time is ahead.
LEMMA MainAhead ==
  ASSUME Punctual, NEW t \in ToolHeadState, now \in Nat, TimesKept(now, t),
         t.state = "main"
  PROVE  t.print_time > now
<1>1. /\ t.flush_timer \in Int \union {Never} /\ t.print_time \in Nat
      /\ Late \in Nat /\ BGFLUSH_LOW_TIME \in Nat
      /\ STEPCOMPRESS_FLUSH_TIME \in Nat
      /\ 2 * Late + STEPCOMPRESS_FLUSH_TIME < BGFLUSH_LOW_TIME
  BY FieldTypes, ConstantTypes, ToolHeadAssumption DEF Punctual
<1> QED BY <1>1 DEF TimesKept, TimerKept, Running

LEMMA ResyncTells ==
  ASSUME Punctual, NEW t, Counted(t), now \in Nat, TimesKept(now, t),
         NEW u, u = Resynced(t)
  PROVE  Tells(t, u) /\ u.print_time > now
<1>t. /\ t \in ToolHeadState /\ t.print_time \in Nat
      /\ t.state \in {"NeedPrime", "Priming", "main", "Drip"}
  BY FieldTypes DEF Counted
<1>1. CASE t.state = "main"
  <2>1. u = t
    BY <1>1 DEF Resynced
  <2> QED BY <1>t, <1>1, <2>1, MainAhead DEF Tells
<1>2. CASE t.state = "Drip"
  <2>1. u = CalcPrintTime(t)
    BY <1>2 DEF Resynced
  <2> QED BY <2>1, PrintTimeTells
<1>3. CASE t.state \in {"NeedPrime", "Priming"}
  <2> DEFINE v == -1
             m == [t EXCEPT !.state = "main", !.need_check_pause = v]
  <2>1. u = CalcPrintTime(m)
    BY <1>3 DEF Resynced
  <2>v. v \in Int \union {Never}
    OBVIOUS
  <2> HIDE DEF v
  <2>2. m \in ToolHeadState /\ SameSteps(t, m) /\ SameClock(t, m)
    BY <1>t, <2>v DEF ToolHeadState, SameClock, SameTimes, SameSteps
  <2>3. m.can_pause = t.can_pause /\ m.synced = t.synced
    BY <1>t DEF ToolHeadState
  <2> HIDE DEF m
  <2>4. Counted(m) /\ Tells(t, m)
    BY <2>2, <2>3, ClockTells DEF Counted, SameSteps
  <2>5. Tells(m, u) /\ u.print_time > now
    BY <2>1, <2>4, PrintTimeTells
  <2> QED BY <2>4, <2>5, TellsTwice
<1> QED BY <1>t, <1>1, <1>2, <1>3

\* Moves are appended and waited for as far as the print time goes.
LEMMA NotedMoveTells ==
  ASSUME NEW t, Counted(t), Armed(t), now \in Nat, t.print_time > now,
         NEW time \in Nat, NEW to \in Nat, time <= to + t.kin_flush_delay,
         NEW u, u = AdvanceMoveTime(NoteActivity(t, time), to)
  PROVE  Tells(t, u) /\ u.print_time > now
<1> DEFINE n == NoteActivity(t, time)
<1>t. /\ t \in ToolHeadState /\ t.need_flush_time \in Nat
      /\ t.last_flush_time \in Nat /\ t.kin_flush_delay \in Nat
      /\ t.print_time \in Nat
  BY FieldTypes DEF Counted
<1>n. /\ Counted(n) /\ SameMode(t, n) /\ SameSteps(t, n)
      /\ n.print_time = t.print_time
      /\ n.need_flush_time = Later(t.need_flush_time, time)
  BY Note, NoteOnward
<1>1. n.can_pause = t.can_pause /\ n.synced = t.synced
  BY <1>t DEF ToolHeadState, NoteActivity
<1>u. u = AdvanceMoveTime(n, to)
  OBVIOUS
<1> HIDE DEF n
<1>2. /\ Counted(u) /\ Onward(n, u) /\ u.print_time >= to
      /\ Tells(n, u) /\ u.print_time > now
  BY <1>n, <1>u, MoveTime, MoveTimeOnward, MoveTimeTells
<1>3. /\ u.need_flush_time = Later(t.need_flush_time, time)
      /\ u.kin_flush_delay = t.kin_flush_delay
      /\ t.last_flush_time <= u.last_flush_time
      /\ t.print_time <= u.print_time
  BY <1>n, <1>2 DEF Onward, SameTimes, SameMode, SameSteps
<1>4. u.print_time \in Nat /\ u.last_flush_time \in Nat
  BY <1>2, FieldTypes DEF Counted
<1>5. Steady(t) => Steady(u)
  BY <1>t, <1>2, <1>3, <1>4 DEF Steady, NoneLeft, Later
<1> QED BY <1>n, <1>1, <1>2, <1>5 DEF Tells

LEMMA ProcessTells ==
  ASSUME Punctual, NEW t, Good(t), t.state # "Drip", now \in Nat,
         TimesKept(now, t), NEW d \in Nat, NEW u, u = ProcessMoves(t, d)
  PROVE  Tells(t, u)
<1> DEFINE r == Resynced(t)
           a == Appended(r, d)
<1>u. u = AdvanceMoveTime(NoteActivity(a, a.trapq.rest), a.trapq.end)
  BY DEF ProcessMoves
<1>r. /\ Counted(r) /\ SameSteps(t, r) /\ SameFlush(t, r)
      /\ r.state = "main" /\ Tells(t, r) /\ r.print_time > now
  BY Resync, ResyncTells DEF Good
<1> HIDE DEF r
<1>a. /\ Counted(a) /\ SameSteps(r, a) /\ SameFlush(r, a)
      /\ a.print_time = r.print_time /\ a.trapq.end = r.print_time + d
      /\ a.kin_flush_delay = r.kin_flush_delay /\ a.state = r.state
  BY <1>r, AppendedIs
<1>1. /\ Onward(r, a)
      /\ a.trapq.rest = r.print_time + d + r.kin_flush_delay
  BY <1>r, AppendedOnward
<1>2. a.can_pause = r.can_pause /\ a.synced = r.synced
  BY <1>r DEF Counted, ToolHeadState, Appended
<1> HIDE DEF a
<1>3. Tells(r, a)
  <2>1. Steady(r) => Steady(a)
    BY <1>r, <1>a, <1>1, OnwardSteady DEF Counted
  <2> QED BY <1>a, <1>2, <2>1 DEF Tells
<1>4. Armed(a)
  BY <1>r, <1>a DEF Good, Armed, SameFlush, SameSteps
<1>5. /\ a.trapq.rest \in Nat /\ a.trapq.end \in Nat
      /\ a.trapq.rest <= a.trapq.end + a.kin_flush_delay
  BY <1>a, <1>1, FieldTypes DEF Counted
<1>6. Tells(a, u)
  BY <1>r, <1>a, <1>u, <1>4, <1>5, NotedMoveTells
<1> QED BY <1>r, <1>3, <1>6, TellsTwice

LEMMA FlushTells ==
  ASSUME Punctual, NEW t, Good(t), t.state # "Drip", now \in Nat,
         TimesKept(now, t), NEW u, u = Flush(t)
  PROVE  Tells(t, u)
<1> DEFINE f == [t EXCEPT !.junction_flush = LOOKAHEAD_FLUSH_TIME, !.queue = 0]
<1>1. t \in ToolHeadState /\ LOOKAHEAD_FLUSH_TIME \in Int /\ t.queue \in Nat
  BY ConstantTypes, FieldTypes DEF Good, Counted
<1>2. /\ f \in ToolHeadState /\ SameSteps(t, f) /\ SameFlush(t, f)
      /\ f.print_time = t.print_time /\ f.kin_flush_delay = t.kin_flush_delay
      /\ f.trapq = t.trapq /\ f.state = t.state
  BY <1>1 DEF ToolHeadState, SameSteps, SameFlush
<1>3. SameClock(t, f)
  BY <1>1 DEF ToolHeadState, SameClock, SameTimes, SameSteps
<1>4. f.can_pause = t.can_pause /\ f.synced = t.synced
  BY <1>1 DEF ToolHeadState
<1>5. u = IF t.queue = 0 THEN f ELSE ProcessMoves(f, t.queue)
  BY DEF Flush
<1> HIDE DEF f
<1>6. Good(f) /\ TimesKept(now, f) /\ Tells(t, f)
  BY <1>1, <1>2, <1>3, <1>4, AlikeGood, ClockKept, ClockTells DEF Alike
<1>7. CASE t.queue = 0
  BY <1>5, <1>6, <1>7
<1>8. CASE t.queue # 0
  <2>1. Tells(f, u)
    BY <1>1, <1>2, <1>5, <1>6, <1>8, ProcessTells
  <2> QED BY <1>6, <2>1, TellsTwice
<1> QED BY <1>7, <1>8

LEMMA LookaheadTells ==
  ASSUME Punctual, NEW t, Good(t), t.state # "Drip", now \in Nat,
         TimesKept(now, t), NEW u, u = FlushLookahead(t)
  PROVE  Tells(t, u)
<1> DEFINE f == Flush(t)
           v == -1
<1>1. Good(f) /\ Tells(t, f)
  BY Flushes, FlushTells
<1>2. u = [f EXCEPT !.state = "NeedPrime", !.need_check_pause = v,
                    !.junction_flush = BUFFER_TIME_HIGH]
  BY DEF FlushLookahead
<1> HIDE DEF f, v
<1>3. SameClock(f, u)
  BY <1>1, <1>2 DEF Good, Counted, ToolHeadState, SameClock, SameTimes,
                    SameSteps
<1>4. u.can_pause = f.can_pause /\ u.synced = f.synced
  BY <1>1, <1>2 DEF Good, Counted, ToolHeadState
<1> QED BY <1>1, <1>3, <1>4, ClockTells, TellsTwice

LEMMA GeneratedTells ==
  ASSUME NEW f, Good(f), NEW u,
         u = [AdvanceFlushTime(f, f.step_gen_time)
                EXCEPT !.min_restart_time = Later(@, f.print_time)]
  PROVE  Tells(f, u)
<1> DEFINE a == AdvanceFlushTime(f, f.step_gen_time)
           m == Later(a.min_restart_time, f.print_time)
<1>1. f.step_gen_time \in Int
  BY FieldTypes DEF Good, Counted
<1>2. Counted(a) /\ Tells(f, a)
  BY <1>1, FlushTime, FlushTimeTells DEF Good
<1>3. u = [a EXCEPT !.min_restart_time = m]
  OBVIOUS
<1> HIDE DEF a, m
<1>4. /\ u.print_time = a.print_time /\ u.last_flush_time = a.last_flush_time
      /\ u.need_flush_time = a.need_flush_time
      /\ u.kin_flush_delay = a.kin_flush_delay
  BY <1>2, <1>3 DEF Counted, ToolHeadState
<1>5. u.can_pause = a.can_pause /\ u.synced = a.synced
  BY <1>2, <1>3 DEF Counted, ToolHeadState
<1>6. Tells(a, u)
  BY <1>4, <1>5 DEF Tells, Steady, NoneLeft
<1> QED BY <1>2, <1>6, TellsTwice

LEMMA StepGenerationTells ==
  ASSUME Punctual, NEW t, Good(t), t.state # "Drip", now \in Nat,
         TimesKept(now, t), NEW u, u = FlushStepGeneration(t)
  PROVE  Tells(t, u)
<1> DEFINE f == FlushLookahead(t)
<1>1. Good(f) /\ Tells(t, f)
  BY LookaheadFlushes, LookaheadTells
<1>2. u = [AdvanceFlushTime(f, f.step_gen_time)
             EXCEPT !.min_restart_time = Later(@, f.print_time)]
  BY DEF FlushStepGeneration
<1> HIDE DEF f
<1> QED BY <1>1, <1>2, GeneratedTells, TellsTwice

LEMMA LastMoveTells ==
  ASSUME Punctual, NEW t, Good(t), t.state # "Drip", now \in Nat,
         TimesKept(now, t), NEW u, u = LastMoveTime(t)
  PROVE  Tells(t, u) /\ u.print_time > now
<1>1. CASE t.state = "main"
  <2>1. u = Flush(t)
    BY <1>1 DEF LastMoveTime
  <2>2. Tells(t, u) /\ Good(u) /\ Follows(t, u)
    BY <2>1, Flushes, FlushTells
  <2>3. t.print_time > now
    BY <1>1, MainAhead DEF Good, Counted
  <2>4. t.print_time \in Nat /\ u.print_time \in Nat
    BY <2>2, FieldTypes DEF Good, Counted
  <2> QED BY <2>2, <2>3, <2>4 DEF Follows
<1>2. CASE t.state # "main"
  <2> DEFINE f == FlushLookahead(t)
  <2>1. Good(f) /\ Tells(t, f)
    BY LookaheadFlushes, LookaheadTells
  <2>2. u = CalcPrintTime(f)
    BY <1>2 DEF LastMoveTime
  <2> HIDE DEF f
  <2>3. Tells(f, u) /\ u.print_time > now
    BY <2>1, <2>2, PrintTimeTells DEF Good
  <2> QED BY <2>1, <2>3, TellsTwice
<1> QED BY <1>1, <1>2

LEMMA DweltTells ==
  ASSUME Punctual, NEW t, Good(t), t.state # "Drip", now \in Nat,
         TimesKept(now, t), NEW d \in Nat, NEW u, u = Dwelt(t, d)
  PROVE  Tells(t, u)
<1> DEFINE l == LastMoveTime(t)
           to == l.print_time + d
<1>1. Good(l) /\ Tells(t, l) /\ l.print_time > now
  BY LastMove, LastMoveTells
<1>2. u = AdvanceMoveTime(l, to)
  BY DEF Dwelt
<1> HIDE DEF l
<1>3. to \in Nat
  BY <1>1, FieldTypes DEF Good, Counted
<1> HIDE DEF to
<1>4. Tells(l, u)
  BY <1>1, <1>2, <1>3, MoveTimeTells DEF Good
<1> QED BY <1>1, <1>4, TellsTwice

LEMMA AddedTells ==
  ASSUME Punctual, NEW t, Good(t), t.state # "Drip", now \in Nat,
         TimesKept(now, t), NEW d \in Nat, NEW u \in Added(t, d)
  PROVE  Tells(t, u)
<1>1. t \in ToolHeadState /\ t.queue \in Nat /\ t.junction_flush \in Int
  BY FieldTypes DEF Good, Counted
<1>2. CASE t.queue = 0
  <2>1. u = [t EXCEPT !.queue = d]
    BY <1>2 DEF Added
  <2>2. SameClock(t, u)
    BY <1>1, <2>1 DEF ToolHeadState, SameClock, SameTimes, SameSteps
  <2>3. u.can_pause = t.can_pause /\ u.synced = t.synced
    BY <1>1, <2>1 DEF ToolHeadState
  <2> QED BY <2>2, <2>3, ClockTells
<1>3. CASE t.queue # 0 /\ t.junction_flush > d
  <2> DEFINE q == t.queue + d
             j == t.junction_flush - d
  <2>1. u = [t EXCEPT !.queue = q, !.junction_flush = j]
    BY <1>3 DEF Added
  <2> HIDE DEF q, j
  <2>2. SameClock(t, u)
    BY <1>1, <2>1 DEF ToolHeadState, SameClock, SameTimes, SameSteps
  <2>3. u.can_pause = t.can_pause /\ u.synced = t.synced
    BY <1>1, <2>1 DEF ToolHeadState
  <2> QED BY <2>2, <2>3, ClockTells
<1>4. CASE t.queue # 0 /\ ~(t.junction_flush > d)
  <2> DEFINE f == [t EXCEPT !.junction_flush = LOOKAHEAD_FLUSH_TIME]
             g(q) == [f EXCEPT !.queue = q]
  <2>1. /\ f \in ToolHeadState /\ f.queue = t.queue /\ Alike(t, f)
        /\ f.state = t.state
    BY <1>1, ConstantTypes DEF Alike, ToolHeadState, SameSteps, SameFlush
  <2>2. SameClock(t, f)
    BY <1>1 DEF ToolHeadState, SameClock, SameTimes, SameSteps
  <2>3. f.can_pause = t.can_pause /\ f.synced = t.synced
    BY <1>1 DEF ToolHeadState
  <2>4. u = g(f.queue + d) \/ \E p \in 1..t.queue :
                                u = ProcessMoves(g(f.queue + d - p), p)
    BY <1>4 DEF Added
  <2> HIDE DEF f
  <2>5. \A q \in Nat : /\ Alike(f, g(q)) /\ g(q).state = f.state
                       /\ g(q) \in ToolHeadState
    BY <2>1 DEF Alike, ToolHeadState, SameSteps, SameFlush
  <2>6. \A q \in Nat : SameClock(f, g(q))
    BY <2>1 DEF ToolHeadState, SameClock, SameTimes, SameSteps
  <2>7. \A q \in Nat : g(q).can_pause = f.can_pause /\ g(q).synced = f.synced
    BY <2>1 DEF ToolHeadState
  <2> HIDE DEF g
  <2>8. Good(f) /\ TimesKept(now, f) /\ Tells(t, f)
    BY <1>1, <2>1, <2>2, <2>3, AlikeGood, ClockKept, ClockTells
  <2>9. \A q \in Nat : /\ Good(g(q)) /\ TimesKept(now, g(q))
                       /\ g(q).state # "Drip" /\ Tells(t, g(q))
    <3> TAKE q \in Nat
    <3>1. /\ Alike(f, g(q)) /\ g(q).state = f.state /\ g(q) \in ToolHeadState
          /\ SameClock(f, g(q))
          /\ g(q).can_pause = f.can_pause /\ g(q).synced = f.synced
      BY <2>5, <2>6, <2>7
    <3>2. Tells(t, g(q))
      BY <2>8, <3>1, ClockTells, TellsTwice
    <3> QED BY <2>1, <2>8, <3>1, <3>2, AlikeGood, ClockKept
  <2>10. CASE u = g(f.queue + d)
    <3>1. f.queue + d \in Nat
      BY <1>1, <2>1
    <3> QED BY <2>9, <2>10, <3>1
  <2>11. ASSUME NEW p \in 1..t.queue, u = ProcessMoves(g(f.queue + d - p), p)
         PROVE  Tells(t, u)
    <3> DEFINE q == f.queue + d - p
    <3>1. q \in Nat /\ p \in Nat /\ u = ProcessMoves(g(q), p)
      BY <1>1, <2>1, <2>11
    <3> HIDE DEF q
    <3>2. Tells(g(q), u)
      BY <2>9, <3>1, ProcessTells
    <3> QED BY <2>9, <3>1, <3>2, TellsTwice
  <2> QED BY <2>4, <2>10, <2>11
<1> QED BY <1>1, <1>2, <1>3, <1>4

LEMMA DripEndedTells ==
  ASSUME NEW t, Counted(t), t.queue = 0, now \in Nat, NEW u, u = DripEnded(t)
  PROVE  Tells(t, u)
<1> DEFINE x == [t EXCEPT !.flush_timer = now]
           f == FlushLookahead(x)
           l == [x EXCEPT !.junction_flush = LOOKAHEAD_FLUSH_TIME, !.queue = 0]
           a == AdvanceFlushTime(f, f.step_gen_time)
           m == Later(a.min_restart_time, f.print_time)
           v == -1
<1>t. /\ t \in ToolHeadState /\ now \in Int \union {Never}
      /\ LOOKAHEAD_FLUSH_TIME \in Int /\ BUFFER_TIME_HIGH \in Int
      /\ v \in Int \union {Never}
  BY ConstantTypes DEF Counted
<1>1. x.queue = 0 /\ x \in ToolHeadState
  BY <1>t DEF ToolHeadState
<1>2. f = [l EXCEPT !.state = "NeedPrime", !.need_check_pause = v,
                    !.junction_flush = BUFFER_TIME_HIGH]
  BY <1>1 DEF FlushLookahead, Flush
<1>3. u = [a EXCEPT !.min_restart_time = m]
  BY DEF DripEnded, FlushStepGeneration
<1> HIDE DEF f, v
<1>4. f \in ToolHeadState /\ f.step_gen_time \in Int /\ SameSteps(t, f)
  <2>1. f \in ToolHeadState
    BY <1>t, <1>1, <1>2 DEF ToolHeadState
  <2>2. SameSteps(t, f)
    BY <1>t, <1>2 DEF ToolHeadState, SameSteps
  <2> QED BY <2>1, <2>2, FieldTypes
<1>5. Tells(t, f)
  <2>1. /\ f.print_time = t.print_time /\ f.last_flush_time = t.last_flush_time
        /\ f.need_flush_time = t.need_flush_time
        /\ f.kin_flush_delay = t.kin_flush_delay
    BY <1>t, <1>2 DEF ToolHeadState
  <2>2. f.can_pause = t.can_pause /\ f.synced = t.synced
    BY <1>t, <1>2 DEF ToolHeadState
  <2> QED BY <2>1, <2>2 DEF Tells, Steady, NoneLeft
<1>6. Counted(a) /\ Tells(f, a)
  BY <1>4, FlushTime, FlushTimeTells DEF Counted, SameSteps
<1> HIDE DEF a, m
<1>7. /\ u.print_time = a.print_time /\ u.last_flush_time = a.last_flush_time
      /\ u.need_flush_time = a.need_flush_time
      /\ u.kin_flush_delay = a.kin_flush_delay
  BY <1>3, <1>6 DEF Counted, ToolHeadState
<1>8. u.can_pause = a.can_pause /\ u.synced = a.synced
  BY <1>3, <1>6 DEF Counted, ToolHeadState
<1>9. Tells(a, u)
  BY <1>7, <1>8 DEF Tells, Steady, NoneLeft
<1> QED BY <1>5, <1>6, <1>9, TellsTwice

LEMMA BeginTells ==
  ASSUME Punctual, NEW t, Good(t), t.state # "Drip", now \in Nat,
         TimesKept(now, t), NEW d \in Nat, BeginDrip(t, d)
  PROVE  Tells(t, th')
<1> DEFINE l == Flush(t)
           no == FALSE
           f == [l EXCEPT !.state = "Drip", !.need_check_pause = Never,
                          !.flush_timer = Never, !.do_kick = no,
                          !.junction_flush = BUFFER_TIME_HIGH]
           r == Resynced(f)
           a == Appended(r, d)
<1>l. Good(l) /\ l.queue = 0 /\ Tells(t, l)
  BY Flushes, FlushTells
<1>b. \/ th' = DripEnded(f)
      \/ th' = [a EXCEPT !.queue = d, !.junction_flush = LOOKAHEAD_FLUSH_TIME]
  BY DEF BeginDrip
<1>n. no \in BOOLEAN
  OBVIOUS
<1> HIDE DEF l, no
<1>t. l \in ToolHeadState /\ BUFFER_TIME_HIGH \in Int
      /\ LOOKAHEAD_FLUSH_TIME \in Int
  BY <1>l, ConstantTypes DEF Good, Counted
<1>1. /\ f \in ToolHeadState /\ SameSteps(l, f) /\ f.print_time = l.print_time
      /\ f.queue = l.queue /\ f.state = "Drip"
  BY <1>t, <1>n DEF ToolHeadState, SameSteps
<1>2. /\ f.need_flush_time = l.need_flush_time
      /\ f.kin_flush_delay = l.kin_flush_delay
      /\ f.can_pause = l.can_pause /\ f.synced = l.synced
  BY <1>t DEF ToolHeadState
<1> HIDE DEF f
<1>3. Counted(f) /\ Tells(t, f)
  <2>1. Tells(l, f)
    BY <1>1, <1>2 DEF Tells, Steady, NoneLeft, SameSteps
  <2> QED BY <1>l, <1>1, <2>1, TellsTwice DEF Good, Counted, SameSteps
<1>4. CASE th' = DripEnded(f)
  <2>1. Tells(f, th')
    BY <1>1, <1>3, <1>4, <1>l, DripEndedTells
  <2> QED BY <1>3, <2>1, TellsTwice
<1>5. CASE th' = [a EXCEPT !.queue = d,
                           !.junction_flush = LOOKAHEAD_FLUSH_TIME]
  <2>1. r = CalcPrintTime(f)
    BY <1>1 DEF Resynced
  <2> HIDE DEF r
  <2>2. Counted(r) /\ Tells(f, r)
    BY <1>3, <2>1, PrintTime, PrintTimeTells
  <2>3. Counted(a) /\ Onward(r, a) /\ a.print_time = r.print_time
    BY <2>2, AppendedIs, AppendedOnward
  <2>4. a.can_pause = r.can_pause /\ a.synced = r.synced
    BY <2>2 DEF Counted, ToolHeadState, Appended
  <2> HIDE DEF a
  <2>5. Tells(r, a)
    <3>1. Steady(r) => Steady(a)
      BY <2>2, <2>3, OnwardSteady DEF Counted
    <3> QED BY <2>3, <2>4, <3>1 DEF Tells
  <2>6. SameClock(a, th')
    BY <1>5, <2>3 DEF Counted, ToolHeadState, SameClock, SameTimes, SameSteps
  <2>7. th'.can_pause = a.can_pause /\ th'.synced = a.synced
    BY <1>5, <2>3 DEF Counted, ToolHeadState
  <2>8. Tells(a, th')
    BY <2>6, <2>7 DEF Tells, Steady, NoneLeft, SameClock, SameTimes, SameSteps
  <2> QED BY <1>3, <2>2, <2>5, <2>8, TellsTwice
<1> QED BY <1>b, <1>4, <1>5

LEMMA TellsItself == ASSUME NEW t PROVE Tells(t, t)
BY DEF Tells

LEMMA ContinueTells ==
  ASSUME Punctual, NEW t, Good(t), t.state # "Drip", now \in Nat,
         TimesKept(now, t), NEW d \in Nat, Continue(t, d)
  PROVE  Tells(t, th')
<1>1. CASE d = 0
  BY <1>1, TellsItself DEF Continue
<1>2. CASE d # 0
  BY <1>2, BeginTells DEF Continue
<1> QED BY <1>1, <1>2

LEMMA PauseTells ==
  ASSUME Punctual, NEW t, Good(t), t.state # "Drip", now \in Nat,
         TimesKept(now, t), NEW d \in Nat, PauseLoop(t, d)
  PROVE  Tells(t, th')
<1> DEFINE due   == now + BUFFER_TIME_HIGH + TENTH
           p(x)  == [t EXCEPT !.need_check_pause = x]
<1>t. /\ t \in ToolHeadState /\ BUFFER_TIME_HIGH \in Nat /\ TENTH \in Nat
  BY ConstantTypes DEF Good, Counted
<1>1. due \in Int \union {Never} /\ Never \in Int \union {Never}
  BY <1>t
<1>2. ASSUME NEW x \in Int \union {Never}, Continue(p(x), d)
      PROVE  Tells(t, th')
  <2>1. Alike(t, p(x)) /\ p(x).state = t.state
    BY <1>t DEF Alike, ToolHeadState, SameSteps, SameFlush
  <2>2. SameClock(t, p(x))
    BY <1>t DEF ToolHeadState, SameClock, SameTimes, SameSteps
  <2>3. p(x).can_pause = t.can_pause /\ p(x).synced = t.synced
    BY <1>t DEF ToolHeadState
  <2> HIDE DEF p
  <2>4. Good(p(x)) /\ TimesKept(now, p(x)) /\ Tells(t, p(x))
    BY <1>t, <2>1, <2>2, <2>3, AlikeGood, ClockKept, ClockTells DEF Alike
  <2>5. Tells(p(x), th')
    BY <1>2, <2>1, <2>4, ContinueTells
  <2> QED BY <2>4, <2>5, TellsTwice
<1>3. CASE Continue(IF t.state = "main" THEN p(due) ELSE t, d)
  <2>1. CASE t.state = "main"
    BY <1>1, <1>2, <1>3, <2>1
  <2>2. CASE t.state # "main"
    BY <1>3, <2>2, ContinueTells
  <2> QED BY <2>1, <2>2
<1>4. CASE Continue(p(Never), d)
  BY <1>1, <1>2, <1>4
<1>5. CASE th' = t
  BY <1>5, TellsItself
<1> QED BY <1>3, <1>4, <1>5 DEF PauseLoop

LEMMA CheckTells ==
  ASSUME Punctual, NEW t, Good(t), t.state # "Drip", now \in Nat,
         TimesKept(now, t), NEW d \in Nat, CheckPause(t, d)
  PROVE  Tells(t, th')
<1> DEFINE p == Primed(t)
<1>1. PauseLoop(p, d)
  BY DEF CheckPause
<1>2. CASE t.state = "main"
  BY <1>1, <1>2, PauseTells DEF Primed
<1>3. CASE t.state # "main"
  <2> DEFINE v == -1
             wake == now + Later(TENTH, t.print_time - now - BUFFER_TIME_LOW)
  <2>1. p = [t EXCEPT !.state = "Priming", !.need_check_pause = v,
                      !.priming_timer = wake]
    BY <1>3 DEF Primed
  <2>2. t \in ToolHeadState /\ t.print_time \in Nat
    BY FieldTypes DEF Good, Counted
  <2>3. v \in Int \union {Never} /\ wake \in Int \union {Never}
    BY <2>2, ConstantTypes DEF Later
  <2> HIDE DEF p, v, wake
  <2>4. Alike(t, p) /\ p.state = "Priming"
    BY <2>1, <2>2, <2>3, <1>3 DEF Alike, ToolHeadState, SameSteps, SameFlush
  <2>5. SameClock(t, p)
    BY <2>1, <2>2 DEF ToolHeadState, SameClock, SameTimes, SameSteps
  <2>6. p.can_pause = t.can_pause /\ p.synced = t.synced
    BY <2>1, <2>2 DEF ToolHeadState
  <2>7. Good(p) /\ TimesKept(now, p) /\ Tells(t, p)
    BY <2>2, <2>4, <2>5, <2>6, AlikeGood, ClockKept, ClockTells DEF Alike
  <2>8. Tells(p, th')
    BY <1>1, <2>4, <2>7, PauseTells
  <2> QED BY <2>7, <2>8, TellsTwice
<1> QED BY <1>2, <1>3

LEMMA CommandsTell ==
  ASSUME Punctual, IInv, TimeInv, GiveCommand
  PROVE  Tells(TH, th')
<1>i. /\ greenlet = Idle /\ greenlet.at # "drip"
  BY IdleIs DEF GiveCommand, Command, Move, Dwell, DripMove, GetLastMoveTime,
                SetPosition, WaitMoves, NoteScanTime
<1>t. /\ now \in Nat /\ TH.state # "Drip" /\ Good(TH) /\ TimesKept(now, TH)
      /\ th \in ToolHeadState
      /\ \A d \in Durations : d \in Nat
      /\ \A d \in Delays : d \in Nat
  BY <1>i, NothingTold, Typed, AtIdle, ToldKept DEF IInv, Good, Counted
<1>0. 0 \in Nat
  OBVIOUS
<1>1. ASSUME NEW d \in Durations, Move(d)
      PROVE  Tells(TH, th')
  <2>1. PICK u \in Added(TH, d) :
          IF PauseDue(u) THEN CheckPause(u, 0) ELSE Continue(u, 0)
    BY <1>1 DEF Move
  <2>2. /\ Good(u) /\ u.state # "Drip" /\ TimesKept(now, u) /\ Tells(TH, u)
    BY <1>t, Adds, AddedKept, AddedTells
  <2>3. Tells(u, th')
    BY <1>t, <1>0, <2>1, <2>2, CheckTells, ContinueTells
  <2> QED BY <2>2, <2>3, TellsTwice
<1>2. ASSUME NEW k \in Nat, NEW d \in Nat, CheckPause(Dwelt(TH, k), d)
      PROVE  Tells(TH, th')
  <2> DEFINE u == Dwelt(TH, k)
  <2>1. /\ Good(u) /\ u.state # "Drip" /\ TimesKept(now, u) /\ Tells(TH, u)
    BY <1>t, Dwells, DweltKept, DweltTells
  <2>2. CheckPause(u, d)
    BY <1>2
  <2> HIDE DEF u
  <2>3. Tells(u, th')
    BY <1>t, <2>1, <2>2, CheckTells
  <2> QED BY <2>1, <2>3, TellsTwice
<1>3. ASSUME NEW d \in Durations, Dwell(d)
      PROVE  Tells(TH, th')
  BY <1>t, <1>0, <1>2, <1>3 DEF Dwell
<1>4. ASSUME NEW d \in Durations, DripMove(d)
      PROVE  Tells(TH, th')
  BY <1>t, <1>2, <1>4, FieldTypes DEF DripMove
<1>5. ASSUME GetLastMoveTime
      PROVE  Tells(TH, th')
  <2>1. Tells(TH, LastMoveTime(TH))
    BY <1>t, LastMoveTells
  <2> QED BY <1>5, <2>1 DEF GetLastMoveTime, Continue
<1>6. ASSUME SetPosition
      PROVE  Tells(TH, th')
  <2>1. Tells(TH, FlushStepGeneration(TH))
    BY <1>t, StepGenerationTells
  <2> QED BY <1>6, <2>1 DEF SetPosition, Continue
<1>7. ASSUME WaitMoves
      PROVE  Tells(TH, th')
  <2>1. Tells(TH, FlushLookahead(TH))
    BY <1>t, LookaheadTells
  <2> QED BY <1>7, <2>1 DEF WaitMoves, WaitLoop
<1>8. ASSUME NEW d \in Delays, NoteScanTime(d)
      PROVE  Tells(TH, th')
  <2> DEFINE u == FlushStepGeneration(TH)
             w == [u EXCEPT !.kin_flush_delay = d]
  <2>1. Good(u) /\ NoneLeft(u) /\ Tells(TH, u)
    BY <1>t, StepGeneration, StepGenerationKept, StepGenerationTells
  <2>2. th' = w
    BY <1>8 DEF NoteScanTime, Continue
  <2> HIDE DEF u
  <2>3. /\ w.print_time = u.print_time /\ w.can_pause = u.can_pause
        /\ w.synced = u.synced
    BY <2>1 DEF Good, Counted, ToolHeadState
  <2>4. /\ w.last_flush_time = u.last_flush_time
        /\ w.need_flush_time = u.need_flush_time
    BY <2>1 DEF Good, Counted, ToolHeadState
  <2> HIDE DEF w
  <2>5. Tells(u, w)
    BY <2>1, <2>3, <2>4 DEF Tells, Steady, NoneLeft
  <2> QED BY <2>1, <2>2, <2>5, TellsTwice
<1> QED BY <1>1, <1>3, <1>4, <1>5, <1>6, <1>7, <1>8 DEF GiveCommand

LEMMA WaitersTell ==
  ASSUME Punctual, IInv, TimeInv, Resume \/ WaitMore
  PROVE  Tells(TH, th')
<1>t. /\ now \in Nat /\ greenlet.drip \in Nat /\ TH.state # "Drip"
      /\ Good(TH) /\ TimesKept(now, TH)
  BY NothingTold, Typed, AtIdle, ToldKept DEF Resume, WaitMore
<1>1. CASE Resume
  BY <1>1, <1>t, PauseTells DEF Resume
<1>2. CASE WaitMore
  BY <1>2, TellsItself DEF WaitMore, WaitLoop
<1> QED BY <1>1, <1>2

\* The drip mode feeds the move before the print time has passed.
LEMMA DripAhead ==
  ASSUME IInv, TimeInv, greenlet.at = "drip"
  PROVE  th.print_time > now
<1>1. /\ now <= greenlet.wake + Late /\ DripKept(th, greenlet.wake)
  BY DEF TimeInv, WaitKept
<1>2. /\ now \in Nat /\ greenlet.wake \in Int /\ Late \in Nat
      /\ th.print_time \in Nat /\ th.kin_flush_delay \in Nat
      /\ STEPCOMPRESS_FLUSH_TIME \in Nat /\ STEPCOMPRESS_FLUSH_TIME > 0
  BY Typed, FieldTypes, ToolHeadAssumption DEF IInv, Good, Counted
<1> QED BY <1>1, <1>2 DEF DripKept

LEMMA DripsTell ==
  ASSUME IInv, TimeInv, DripSegment \/ DripStops \/ DripDone \/ Complete
  PROVE  Tells(TH, th')
<1>d. greenlet.at = "drip"
  BY DEF DripSegment, DripStops, DripDone, Complete, Dripping
<1>t. /\ Counted(TH) /\ Armed(TH) /\ TH \in ToolHeadState
      /\ TH.kin_flush_delay = th.kin_flush_delay
      /\ th.kin_flush_delay \in Nat /\ th.print_time \in Nat
      /\ TH.print_time > now /\ now \in Nat /\ greenlet.drip \in Nat
  BY <1>d, DripIs, DripAhead, NothingTold, Typed
<1>1. CASE DripSegment
  <2> DEFINE to == Sooner(th.print_time + DRIP_SEGMENT_TIME, greenlet.drip)
             time == to + th.kin_flush_delay
  <2>1. th' = TH \/ th' = AdvanceMoveTime(NoteActivity(TH, time), to)
    BY <1>1 DEF DripSegment
  <2>2. to \in Nat /\ time \in Nat /\ time <= to + TH.kin_flush_delay
    BY <1>t, ConstantTypes DEF Sooner
  <2> HIDE DEF to, time
  <2> QED BY <1>t, <2>1, <2>2, NotedMoveTells, TellsItself
<1>2. CASE DripStops
  <2> DEFINE q == Truncated(TH.trapq, th.generated)
             x == [TH EXCEPT !.queue = 0, !.trapq = q]
  <2>1. th' = DripEnded(x)
    BY <1>2 DEF DripStops
  <2>2. q \in Stretch
    <3> DEFINE end  == Sooner(th.trapq.end, th.generated)
               rest == Sooner(th.trapq.rest, th.generated)
    <3>1. /\ th.trapq \in Stretch /\ th.trapq.end \in Nat
          /\ th.trapq.rest \in Nat /\ th.generated \in Nat
      BY FieldTypes DEF IInv, Good, Counted
    <3>2. end \in Nat /\ rest \in Nat
      BY <3>1 DEF Sooner
    <3>3. q = [th.trapq EXCEPT !.end = end, !.rest = rest]
      BY <1>d, <3>1, DripIs DEF Truncated
    <3> HIDE DEF q, end, rest
    <3> QED BY <3>1, <3>2, <3>3 DEF Stretch
  <2> HIDE DEF q
  <2>3. /\ x \in ToolHeadState /\ SameSteps(TH, x) /\ x.queue = 0
    BY <1>t, <2>2 DEF ToolHeadState, SameSteps
  <2>4. SameClock(TH, x)
    BY <1>t DEF ToolHeadState, SameClock, SameTimes, SameSteps
  <2>5. x.can_pause = TH.can_pause /\ x.synced = TH.synced
    BY <1>t DEF ToolHeadState
  <2> HIDE DEF x
  <2>6. Tells(TH, x) /\ Counted(x)
    BY <1>t, <2>3, <2>4, <2>5, ClockTells DEF Counted, SameSteps
  <2>7. Tells(x, th')
    BY <1>t, <2>1, <2>3, <2>6, DripEndedTells
  <2> QED BY <2>6, <2>7, TellsTwice
<1>3. CASE DripDone
  <2> DEFINE time == greenlet.drip + th.kin_flush_delay
             a == AdvanceMoveTime(NoteActivity(TH, time), greenlet.drip)
             x == [a EXCEPT !.queue = 0]
  <2>1. th' = DripEnded(x)
    BY <1>3 DEF DripDone
  <2>2. time \in Nat /\ time <= greenlet.drip + TH.kin_flush_delay
    BY <1>t
  <2> HIDE DEF time
  <2>3. Tells(TH, a)
    BY <1>t, <2>2, NotedMoveTells
  <2>4. Counted(a)
    <3>1. Counted(NoteActivity(TH, time))
      BY <1>t, <2>2, Note
    <3> QED BY <1>t, <3>1, MoveTime
  <2> HIDE DEF a
  <2>5. /\ x \in ToolHeadState /\ SameSteps(a, x) /\ x.queue = 0
    BY <2>4 DEF Counted, ToolHeadState, SameSteps
  <2>6. SameClock(a, x)
    BY <2>4 DEF Counted, ToolHeadState, SameClock, SameTimes, SameSteps
  <2>7. x.can_pause = a.can_pause /\ x.synced = a.synced
    BY <2>4 DEF Counted, ToolHeadState
  <2> HIDE DEF x
  <2>8. Tells(a, x) /\ Counted(x)
    BY <2>4, <2>5, <2>6, <2>7, ClockTells DEF Counted, SameSteps
  <2>9. Tells(x, th')
    BY <1>t, <2>1, <2>5, <2>8, DripEndedTells
  <2> QED BY <2>3, <2>8, <2>9, TellsTwice
<1>4. CASE Complete
  BY <1>4, TellsItself DEF Complete
<1> QED BY <1>1, <1>2, <1>3, <1>4

LEMMA QueuesTell ==
  ASSUME NEW t, Good(t), now \in Nat, NEW u, u = FlushQueues(t)
  PROVE  Tells(t, u)
<1> DEFINE end == t.need_flush_time + BGFLUSH_EXTRA_TIME
           upto == now + BGFLUSH_LOW_TIME + BGFLUSH_BATCH_TIME
           to  == Sooner(end, upto)
           a   == IF t.last_flush_time - now > BGFLUSH_LOW_TIME THEN t
                  ELSE AdvanceFlushTime(t, to)
           f   == IF t.last_flush_time >= end THEN t ELSE a
           yes == TRUE
           wake == f.last_flush_time - BGFLUSH_LOW_TIME
<1>1. to \in Int
  <2>1. end \in Int /\ upto \in Int
    BY FieldTypes, ConstantTypes DEF Good, Counted
  <2> QED BY <2>1 DEF Sooner
<1>2. u = IF f.last_flush_time >= end
          THEN [f EXCEPT !.do_kick = yes, !.flush_timer = Never]
          ELSE [f EXCEPT !.flush_timer = wake]
  BY DEF FlushQueues
<1>3. f = t \/ f = AdvanceFlushTime(t, to)
  OBVIOUS
<1> HIDE DEF f, to, yes, a, wake, end
<1>4. Counted(f) /\ Tells(t, f)
  BY <1>1, <1>3, FlushTime, FlushTimeTells, TellsItself DEF Good
<1>5. /\ u.print_time = f.print_time /\ u.last_flush_time = f.last_flush_time
      /\ u.need_flush_time = f.need_flush_time
      /\ u.kin_flush_delay = f.kin_flush_delay
  BY <1>2, <1>4 DEF Counted, ToolHeadState
<1>6. u.can_pause = f.can_pause /\ u.synced = f.synced
  BY <1>2, <1>4 DEF Counted, ToolHeadState
<1>7. Tells(f, u)
  BY <1>5, <1>6 DEF Tells, Steady, NoneLeft
<1> QED BY <1>4, <1>7, TellsTwice

LEMMA TimersTell ==
  ASSUME Punctual, IInv, TimeInv, PrimingHandler \/ FlushHandler \/ Shutdown
  PROVE  Tells(TH, th')
<1>t. /\ now \in Nat /\ Good(TH) /\ TimesKept(now, TH) /\ TH \in ToolHeadState
      /\ TH.state = th.state
  BY NothingTold, Typed, ToldKept DEF SameMode
<1>1. CASE PrimingHandler
  <2> DEFINE t == [TH EXCEPT !.priming_timer = Never]
  <2>1. th' = IF t.state = "Priming" THEN FlushLookahead(t) ELSE t
    BY <1>1 DEF PrimingHandler
  <2>2. Alike(TH, t) /\ t.state = TH.state
    BY <1>t DEF Alike, ToolHeadState, SameSteps, SameFlush
  <2>3. SameClock(TH, t)
    BY <1>t DEF ToolHeadState, SameClock, SameTimes, SameSteps
  <2>4. t.can_pause = TH.can_pause /\ t.synced = TH.synced
    BY <1>t DEF ToolHeadState
  <2> HIDE DEF t
  <2>5. Good(t) /\ TimesKept(now, t) /\ Tells(TH, t)
    BY <1>t, <2>2, <2>3, <2>4, AlikeGood, ClockKept, ClockTells DEF Alike
  <2>6. CASE t.state = "Priming"
    <3>1. Tells(t, th')
      BY <1>t, <2>1, <2>5, <2>6, LookaheadTells
    <3> QED BY <2>5, <3>1, TellsTwice
  <2>7. CASE t.state # "Priming"
    BY <2>1, <2>5, <2>7
  <2> QED BY <2>6, <2>7
<1>2. CASE FlushHandler
  <2>1. th' = IF RunningNormally(th)
              THEN [TH EXCEPT !.flush_timer = th.print_time - BUFFER_TIME_LOW]
              ELSE FlushQueues(IF th.state = "main" THEN FlushLookahead(TH)
                               ELSE TH)
    BY <1>2 DEF FlushHandler
  <2>2. CASE RunningNormally(th)
    <3>1. th' = [TH EXCEPT !.flush_timer = th.print_time - BUFFER_TIME_LOW]
      BY <2>1, <2>2
    <3>2. /\ th'.print_time = TH.print_time
          /\ th'.last_flush_time = TH.last_flush_time
          /\ th'.need_flush_time = TH.need_flush_time
          /\ th'.kin_flush_delay = TH.kin_flush_delay
      BY <1>t, <3>1 DEF ToolHeadState
    <3>3. th'.can_pause = TH.can_pause /\ th'.synced = TH.synced
      BY <1>t, <3>1 DEF ToolHeadState
    <3> QED BY <3>2, <3>3 DEF Tells, Steady, NoneLeft
  <2>3. CASE ~RunningNormally(th) /\ th.state = "main"
    <3> DEFINE l == FlushLookahead(TH)
    <3>1. Good(l) /\ Tells(TH, l)
      BY <1>t, <2>3, LookaheadFlushes, LookaheadTells
    <3>2. th' = FlushQueues(l)
      BY <2>1, <2>3
    <3> HIDE DEF l
    <3>3. Tells(l, th')
      BY <1>t, <3>1, <3>2, QueuesTell
    <3> QED BY <3>1, <3>3, TellsTwice
  <2>4. CASE ~RunningNormally(th) /\ th.state # "main"
    BY <1>t, <2>1, <2>4, QueuesTell
  <2> QED BY <2>2, <2>3, <2>4
<1>3. CASE Shutdown
  <2> DEFINE no == FALSE
  <2>1. th' = [TH EXCEPT !.can_pause = no, !.queue = 0,
                         !.junction_flush = LOOKAHEAD_FLUSH_TIME]
    BY <1>3 DEF Shutdown
  <2>2. th'.can_pause = no
    BY <1>t, <2>1 DEF ToolHeadState
  <2>3. ~th'.can_pause
    BY <2>2
  <2> HIDE DEF no
  <2>4. /\ th'.print_time = TH.print_time
        /\ th'.last_flush_time = TH.last_flush_time
        /\ th'.need_flush_time = TH.need_flush_time
        /\ th'.kin_flush_delay = TH.kin_flush_delay
        /\ th'.synced = TH.synced
    BY <1>t, <2>1 DEF ToolHeadState
  <2> QED BY <2>3, <2>4 DEF Tells, Steady, NoneLeft
<1> QED BY <1>1, <1>2, <1>3

-----------------------------------------------------------------------------
(* The idle timeout knows of the moves.                                    *)

IdleFields ==
  [state : {"Idle", "Printing", "Ready"}, timer : Int \union {Never},
   script : BOOLEAN, timeout : Nat, ahead : BOOLEAN]

\* Whoever has put the print time ahead has told it, or is the script.
Awake == th.can_pause /\ th.print_time > now
           => idle.state = "Printing" \/ idle.ahead

IdleInv ==
  IInv /\ TimeInv /\ Steady(th) /\ idle \in IdleFields /\ Awake

LEMMA IdleInvInit == IdleInit => IdleInv
<1> SUFFICES ASSUME IdleInit PROVE IdleInv
  OBVIOUS
<1>1. IInv /\ TimeInv
  BY InitGood, TimeInit DEF IdleInit
<1>2. now = 0 /\ th.print_time = 0 /\ th.need_flush_time = 0
      /\ th.last_flush_time = 0
  BY DEF IdleInit, Init
<1>3. Steady(th) /\ Awake
  BY <1>2 DEF Steady, NoneLeft, Awake
<1>4. idle \in IdleFields
  <2> DEFINE no == FALSE
  <2>1. idle = [state |-> "Idle", timer |-> Never, script |-> no,
                timeout |-> FirstTimeout, ahead |-> no]
    BY DEF IdleInit
  <2>2. no \in BOOLEAN /\ FirstTimeout \in Nat
    BY IdleAssumption
  <2> HIDE DEF no
  <2> QED BY <2>1, <2>2 DEF IdleFields
<1> QED BY <1>1, <1>3, <1>4 DEF IdleInv

(* What the motion does is told in time, or happens while it is known.     *)
LEMMA MotionAwake ==
  ASSUME Punctual, IdleInv, Motion, HandleSync
  PROVE  IdleInv'
<1>i. /\ IInv /\ TimeInv /\ Steady(th) /\ idle \in IdleFields /\ Awake
  BY DEF IdleInv
<1>1. [Next]_vars
  BY DEF Motion, Next
<1>2. IInv' /\ TimeInv'
  BY <1>i, <1>1, NextGood, TimeNext
<1>3. Tells(TH, th')
  <2>1. CASE GiveCommand
    BY <1>i, <2>1, CommandsTell
  <2>2. CASE Resume \/ WaitMore
    BY <1>i, <2>2, WaitersTell
  <2>3. CASE DripSegment \/ DripStops \/ DripDone \/ Complete
    BY <1>i, <2>3, DripsTell
  <2>4. CASE PrimingHandler \/ FlushHandler \/ Shutdown
    BY <1>i, <2>4, TimersTell
  <2> QED BY <2>1, <2>2, <2>3, <2>4 DEF Motion, Work
<1>4. now' = now
  BY DEF Motion, GiveCommand, Work, Move, Dwell, DripMove, GetLastMoveTime,
         SetPosition, WaitMoves, NoteScanTime, Command, Resume, WaitMore,
         DripSegment, DripStops, DripDone, PrimingHandler, FlushHandler,
         Complete, Shutdown
<1>5. /\ th \in ToolHeadState /\ th' \in ToolHeadState
      /\ now \in Nat
  BY <1>i, <1>2, Typed DEF IInv, Good, Counted
<1>6. /\ TH.print_time = th.print_time /\ TH.can_pause = th.can_pause
      /\ TH.synced = 0
      /\ TH.last_flush_time = th.last_flush_time
      /\ TH.need_flush_time = th.need_flush_time
      /\ TH.kin_flush_delay = th.kin_flush_delay
  BY <1>5 DEF TH, ToolHeadState
<1>7. Steady(th')
  BY <1>i, <1>3, <1>6 DEF Tells, Steady, NoneLeft
<1>8. /\ th'.can_pause => th.can_pause
      /\ th'.print_time > now => th.print_time > now \/ th'.synced # 0
  BY <1>3, <1>6 DEF Tells
<1>9. CASE th'.synced = 0 \/ idle.state = "Printing"
  <2>1. idle' = idle
    BY <1>9 DEF HandleSync
  <2>2. Awake'
    BY <1>i, <1>4, <1>8, <1>9, <2>1 DEF Awake
  <2> QED BY <1>i, <1>2, <1>7, <2>1, <2>2 DEF IdleInv
<1>10. CASE ~(th'.synced = 0 \/ idle.state = "Printing")
  <2> DEFINE wake == now + CheckTime
  <2>1. idle' = [idle EXCEPT !.state = "Printing", !.timer = wake]
    BY <1>10 DEF HandleSync
  <2>2. wake \in Int
    BY <1>5, IdleAssumption DEF CheckTime, ToolHeadState
  <2> HIDE DEF wake
  <2>3. idle' \in IdleFields /\ idle'.state = "Printing"
    BY <1>i, <2>1, <2>2 DEF IdleFields
  <2> QED BY <1>2, <1>7, <2>3 DEF IdleInv, Awake
<1> QED BY <1>9, <1>10

(* The handler of the idle timeout leaves the toolhead alone.              *)
LEMMA TimerAwake ==
  ASSUME IdleInv, TimerStops \/ StayReady \/ StayPrinting \/ BecomeReady
  PROVE  IdleInv'
<1>i. IInv /\ TimeInv /\ Steady(th) /\ idle \in IdleFields /\ Awake
  BY DEF IdleInv
<1>t. /\ now \in Nat /\ th.print_time \in Nat /\ th.queue \in Nat
      /\ READY_TIMEOUT \in Nat /\ READY_TIMEOUT > 0 /\ SECOND \in Nat
      /\ \A t \in Timeouts : t \in Nat
      /\ idle.timeout \in Nat
  BY <1>i, Typed, FieldTypes, ConstantTypes, IdleAssumption
     DEF IInv, Good, Counted, IdleFields
<1>1. UNCHANGED vars
  BY DEF TimerStops, StayReady, StayPrinting, BecomeReady, Again
<1>2. now' = now /\ th' = th /\ greenlet' = greenlet /\ completed' = completed
      /\ given' = given
  BY <1>1 DEF vars
<1>3. IInv' /\ TimeInv' /\ Steady(th')
  BY <1>i, <1>2 DEF IInv, TypeOK, Good, Counted, Armed, StepsDone, DripState,
     TimeInv, TimesKept, WaitKept, TimerKept, Running, Near, NoneLeft,
     DripKept, Steady
<1>4. ASSUME NEW wake \in Int \union {Never},
             idle' = [idle EXCEPT !.timer = wake]
      PROVE  IdleInv'
  <2>1. /\ idle' \in IdleFields /\ idle'.state = idle.state
        /\ idle'.ahead = idle.ahead
    BY <1>i, <1>4 DEF IdleFields
  <2>2. Awake'
    BY <1>i, <1>2, <2>1 DEF Awake
  <2> QED BY <1>3, <2>1, <2>2 DEF IdleInv
<1>5. CASE TimerStops
  <2>1. idle' = [idle EXCEPT !.timer = Never]
    BY <1>5 DEF TimerStops, Again
  <2> QED BY <1>4, <2>1
<1>6. CASE StayReady
  <2> DEFINE w1 == now + idle.timeout
             w2 == now + idle.timeout - IdleTime
             w3 == now + SECOND
  <2>1. IdleTime \in Int
    BY <1>t DEF IdleTime
  <2>2. w1 \in Int /\ w2 \in Int /\ w3 \in Int
    BY <1>t, <2>1
  <2>3. \/ idle' = [idle EXCEPT !.timer = w1]
        \/ idle' = [idle EXCEPT !.timer = w2]
        \/ idle' = [idle EXCEPT !.timer = w3]
    BY <1>6 DEF StayReady, Again
  <2> HIDE DEF w1, w2, w3
  <2>4. CASE idle' = [idle EXCEPT !.timer = w1]
    BY <1>4, <2>2, <2>4
  <2>5. CASE idle' = [idle EXCEPT !.timer = w2]
    BY <1>4, <2>2, <2>5
  <2>6. CASE idle' = [idle EXCEPT !.timer = w3]
    BY <1>4, <2>2, <2>6
  <2> QED BY <2>3, <2>4, <2>5, <2>6
<1>7. CASE StayPrinting
  <2> DEFINE w1 == now + READY_TIMEOUT + Later(0, Buffer)
             w2 == now + READY_TIMEOUT + Buffer
             w3 == now + READY_TIMEOUT
  <2>1. Buffer \in Int /\ Later(0, Buffer) \in Int
    BY <1>t DEF Buffer, Sooner, Later
  <2>2. w1 \in Int /\ w2 \in Int /\ w3 \in Int
    BY <1>t, <2>1
  <2>3. \/ idle' = [idle EXCEPT !.timer = w1]
        \/ idle' = [idle EXCEPT !.timer = w2]
        \/ idle' = [idle EXCEPT !.timer = w3]
    BY <1>7 DEF StayPrinting, Again
  <2> HIDE DEF w1, w2, w3
  <2>4. CASE idle' = [idle EXCEPT !.timer = w1]
    BY <1>4, <2>2, <2>4
  <2>5. CASE idle' = [idle EXCEPT !.timer = w2]
    BY <1>4, <2>2, <2>5
  <2>6. CASE idle' = [idle EXCEPT !.timer = w3]
    BY <1>4, <2>2, <2>6
  <2> QED BY <2>3, <2>4, <2>5, <2>6
<1>8. CASE BecomeReady
  <2>1. idle' \in IdleFields
    <3> DEFINE wake == now + idle.timeout
    <3>1. idle' = [idle EXCEPT !.state = "Ready", !.timer = wake]
      BY <1>8 DEF BecomeReady
    <3>2. wake \in Int
      BY <1>t
    <3> HIDE DEF wake
    <3> QED BY <1>i, <3>1, <3>2 DEF IdleFields
  <2>2. ~(th.print_time > now)
    <3>1. Buffer <= -READY_TIMEOUT
      BY <1>8 DEF BecomeReady
    <3> DEFINE two == 2 * SECOND
               left == th.print_time - now
    <3>2. two \in Nat /\ left \in Int
      BY <1>t
    <3>3. Buffer = (IF two <= left THEN two ELSE left)
      BY DEF Buffer, Sooner
    <3> HIDE DEF two, left
    <3>4. left <= 0
      BY <1>t, <3>1, <3>2, <3>3
    <3> QED BY <1>t, <3>4 DEF left
  <2>3. Awake'
    BY <1>2, <2>2 DEF Awake
  <2> QED BY <1>3, <2>1, <2>3 DEF IdleInv
<1> QED BY <1>5, <1>6, <1>7, <1>8

LEMMA TickAwake ==
  ASSUME IdleInv, IdleTick
  PROVE  IdleInv'
<1>i. IInv /\ TimeInv /\ Steady(th) /\ idle \in IdleFields /\ Awake
  BY DEF IdleInv
<1>1. /\ now' = now + 1 /\ th' = TH /\ greenlet' = greenlet
      /\ completed' = completed /\ given' = given
      /\ idle' = [idle EXCEPT !.ahead = @ /\ th.print_time > now']
  BY DEF IdleTick, Elapse
<1>2. TimeInv'
  <2>1. Wakes \subseteq AllWakes
    BY DEF AllWakes
  <2> QED BY <1>i, <2>1, ElapseKept DEF IdleTick
<1>3. IInv'
  <2>1. Good(TH) /\ TH.state = th.state /\ TH.trapq = th.trapq
    BY <1>i, NothingTold DEF SameMode
  <2>2. TypeOK'
    BY <1>i, <1>1, <2>1, Typed DEF TypeOK, GreenletState, Good, Counted
  <2> QED BY <1>i, <1>1, <2>1, <2>2 DEF IInv, DripState
<1>4. /\ th \in ToolHeadState /\ now \in Nat /\ th.print_time \in Nat
  BY <1>i, Typed, FieldTypes DEF IInv, Good, Counted
<1>5. /\ TH.print_time = th.print_time /\ TH.can_pause = th.can_pause
      /\ TH.last_flush_time = th.last_flush_time
      /\ TH.need_flush_time = th.need_flush_time
      /\ TH.kin_flush_delay = th.kin_flush_delay
  BY <1>4 DEF TH, ToolHeadState
<1>6. Steady(th')
  BY <1>1, <1>5, <1>i DEF Steady, NoneLeft
<1> DEFINE still == idle.ahead /\ th.print_time > now'
<1>7. still \in BOOLEAN /\ (still <=> idle.ahead /\ th.print_time > now')
  OBVIOUS
<1>8. idle' = [idle EXCEPT !.ahead = still]
  BY <1>1
<1> HIDE DEF still
<1>9. /\ idle' \in IdleFields /\ idle'.state = idle.state
      /\ idle'.ahead = still
  BY <1>i, <1>7, <1>8 DEF IdleFields
<1>10. Awake'
  BY <1>i, <1>1, <1>4, <1>5, <1>7, <1>9 DEF Awake
<1> QED BY <1>2, <1>3, <1>6, <1>9, <1>10 DEF IdleInv

(* The script begins and ends.                                             *)
LEMMA ScriptAwake ==
  ASSUME Punctual, IdleInv,
         StartScript \/ ScriptEnds \/ ScriptFails \/
         \E t \in Timeouts : SetIdleTimeout(t)
  PROVE  IdleInv'
<1>i. IInv /\ TimeInv /\ Steady(th) /\ idle \in IdleFields /\ Awake
  BY DEF IdleInv
<1>1. greenlet = Idle
  BY DEF StartScript, Elapsed, ScriptEnds, ScriptFails, ScriptOver,
         SetIdleTimeout, Command
<1>t. /\ now \in Nat /\ now \in Int /\ SECOND \in Nat
      /\ given \in 0..MaxCommands /\ MaxCommands \in Nat
      /\ completed \in BOOLEAN /\ TH.state # "Drip"
      /\ Good(TH) /\ TimesKept(now, TH) /\ TH \in ToolHeadState
      /\ th \in ToolHeadState /\ Follows(th, TH)
      /\ \A d \in Durations : d \in Nat
  BY <1>1, <1>i, IdleIs, AtIdle, NothingTold, Typed, ToldKept, ConstantTypes,
     ToolHeadAssumption DEF IInv, Good, Counted
<1>2. /\ TH.print_time = th.print_time /\ TH.can_pause = th.can_pause
      /\ TH.last_flush_time = th.last_flush_time
      /\ TH.need_flush_time = th.need_flush_time
      /\ TH.kin_flush_delay = th.kin_flush_delay
  BY <1>t DEF TH, ToolHeadState
<1>3. Steady(TH)
  BY <1>2, <1>i DEF Steady, NoneLeft
<1>4. /\ now' = now
      /\ given' = given \/ (given < MaxCommands /\ given' = given + 1)
  BY DEF StartScript, ScriptEnds, ScriptFails, SetIdleTimeout, Command
<1>5. given' \in 0..MaxCommands
  BY <1>4, <1>t
<1>6. ASSUME NEW t, Good(t), TimesKept(now, t), Steady(t), t.state # "Drip",
             th' = t, greenlet' = Idle, completed' = completed
      PROVE  IInv' /\ TimeInv' /\ Steady(th')
  <2>1. TypeOK'
    BY <1>4, <1>5, <1>6, <1>t, IdleIs DEF TypeOK, GreenletState, Good, Counted
  <2>2. DripState'
    BY <1>6, IdleIs DEF DripState
  <2>3. TimeInv'
    BY <1>4, <1>6, IdleKept DEF EndsKept, TimeInv
  <2> QED BY <1>6, <2>1, <2>2, <2>3 DEF IInv
<1>7. CASE StartScript
  <2>1. PICK d \in Durations : CheckPause(Dwelt(TH, d), 0)
    BY <1>7 DEF StartScript
  <2> DEFINE u == Dwelt(TH, d)
             yes == TRUE
  <2>2. /\ Good(u) /\ u.state # "Drip" /\ TimesKept(now, u) /\ Tells(TH, u)
    BY <1>t, <2>1, Dwells, DweltKept, DweltTells
  <2>3. CheckPause(u, 0) /\ 0 \in Nat
    BY <2>1
  <2> HIDE DEF u
  <2>4. Ends(u) /\ EndsKept /\ Tells(u, th')
    BY <1>t, <2>2, <2>3, ChecksPause, CheckKept, CheckTells
  <2>5. TypeOK'
    BY <1>4, <1>5, <1>t, <2>4 DEF TypeOK, Ends, GreenletState, Good, Counted
  <2>6. IInv' /\ TimeInv'
    BY <1>4, <2>4, <2>5 DEF IInv, Ends, EndsKept, TimeInv
  <2>7. Steady(th')
    BY <1>3, <2>2, <2>4 DEF Tells
  <2>8. idle' = [idle EXCEPT !.state = "Printing", !.timer = Never,
                             !.script = yes]
    BY <1>7 DEF StartScript
  <2>9. yes \in BOOLEAN
    OBVIOUS
  <2> HIDE DEF yes
  <2>10. idle' \in IdleFields /\ idle'.state = "Printing"
    BY <1>i, <2>8, <2>9 DEF IdleFields
  <2> QED BY <2>6, <2>7, <2>10 DEF IdleInv, Awake
<1>8. CASE ScriptEnds
  <2> DEFINE u == LastMoveTime(TH)
             no == FALSE
             over == th'.print_time > now
  <2>1. Good(u) /\ u.state # "Drip" /\ TimesKept(now, u) /\ Tells(TH, u)
    BY <1>t, LastMove, LastMoveKept, LastMoveTells
  <2>2. th' = u /\ greenlet' = Idle /\ completed' = completed
    BY <1>1, <1>8 DEF ScriptEnds
  <2> HIDE DEF u
  <2>3. Steady(u)
    BY <1>3, <2>1 DEF Tells
  <2>4. IInv' /\ TimeInv' /\ Steady(th')
    BY <1>6, <2>1, <2>2, <2>3
  <2>5. idle' = [idle EXCEPT !.state = "Idle", !.script = no, !.ahead = over]
    BY <1>8 DEF ScriptEnds
  <2>6. no \in BOOLEAN /\ over \in BOOLEAN /\ (over <=> th'.print_time > now)
    OBVIOUS
  <2> HIDE DEF no, over
  <2>7. idle' \in IdleFields /\ idle'.ahead = over
    BY <1>i, <2>5, <2>6 DEF IdleFields
  <2> QED BY <1>4, <2>4, <2>6, <2>7 DEF IdleInv, Awake
<1>9. CASE ScriptFails
  <2> DEFINE no == FALSE
             over == th.print_time > now
             wake == now + SECOND
  <2>1. th' = TH /\ greenlet' = Idle /\ completed' = completed
    BY <1>1, <1>9 DEF ScriptFails
  <2>2. IInv' /\ TimeInv' /\ Steady(th')
    BY <1>3, <1>6, <1>t, <2>1
  <2>3. idle' = [idle EXCEPT !.state = "Ready", !.script = no,
                             !.timer = wake, !.ahead = over]
    BY <1>9 DEF ScriptFails
  <2>4. /\ no \in BOOLEAN /\ over \in BOOLEAN /\ wake \in Int
        /\ (over <=> th.print_time > now)
    BY <1>t
  <2> HIDE DEF no, over, wake
  <2>5. idle' \in IdleFields /\ idle'.ahead = over
    BY <1>i, <2>3, <2>4 DEF IdleFields
  <2>6. th'.print_time = th.print_time
    BY <1>2, <2>1
  <2> QED BY <1>4, <2>2, <2>4, <2>5, <2>6 DEF IdleInv, Awake
<1>10. ASSUME NEW t \in Timeouts, SetIdleTimeout(t)
       PROVE  IdleInv'
  <2> DEFINE wake == IF idle.state = "Ready" THEN now + t ELSE idle.timer
  <2>1. th' = TH /\ greenlet' = Idle /\ completed' = completed
    BY <1>1, <1>10 DEF SetIdleTimeout
  <2>2. IInv' /\ TimeInv' /\ Steady(th')
    BY <1>3, <1>6, <1>t, <2>1
  <2>3. idle' = [idle EXCEPT !.timeout = t, !.timer = wake]
    BY <1>i, <1>10 DEF SetIdleTimeout, IdleFields
  <2>4. t \in Nat /\ wake \in Int \union {Never}
    BY <1>i, <1>t, IdleAssumption DEF IdleFields
  <2> HIDE DEF wake
  <2>5. /\ idle' \in IdleFields /\ idle'.state = idle.state
        /\ idle'.ahead = idle.ahead
    BY <1>i, <2>3, <2>4 DEF IdleFields
  <2>6. th'.print_time = th.print_time /\ th'.can_pause = th.can_pause
    BY <1>2, <2>1
  <2> QED BY <1>4, <1>i, <2>2, <2>5, <2>6 DEF IdleInv, Awake
<1> QED BY <1>7, <1>8, <1>9, <1>10

LEMMA IdleStep ==
  ASSUME Punctual, IdleInv, [IdleNext]_idleVars
  PROVE  IdleInv'
<1>1. CASE UNCHANGED idleVars
  BY <1>1 DEF idleVars, vars, IdleInv, IInv, TypeOK, Good, Counted, Armed,
     StepsDone, DripState, TimeInv, TimesKept, WaitKept, TimerKept, Running,
     Near, NoneLeft, DripKept, Steady, Awake
<1>2. CASE IdleNext
  BY <1>2, MotionAwake, TimerAwake, TickAwake, ScriptAwake DEF IdleNext
<1> QED BY <1>1, <1>2

(* Moves end before the print time, and the drip mode goes on ahead of it. *)
LEMMA AwakeKnows == IdleInv => BusyKnown
<1> SUFFICES ASSUME IdleInv PROVE BusyKnown
  OBVIOUS
<1>1. IInv /\ TimeInv /\ Awake
  BY DEF IdleInv
<1>2. /\ now \in Nat /\ th.print_time \in Nat /\ th.trapq.end \in Nat
  BY <1>1, Typed, FieldTypes DEF IInv, Good, Counted
<1>3. CASE th.state = "Drip"
  <2>1. th.print_time > now
    BY <1>1, <1>3, DripAhead DEF IInv, DripState
  <2> QED BY <1>1, <2>1 DEF BusyKnown, Awake
<1>4. CASE th.state # "Drip"
  <2>1. th.trapq.end <= th.print_time
    BY <1>1, <1>4 DEF IInv, Good
  <2> QED BY <1>1, <1>2, <2>1 DEF BusyKnown, Awake
<1> QED BY <1>3, <1>4

(* While moves are executed or wait for it, idle_timeout.py is printing    *)
(* (96-105), unless the print time that its script has left is still to     *)
(* come (44-56): for any commands and timeouts, when the reactor is late   *)
(* by no more than the times of the toolhead leave room for.               *)
THEOREM BusyIsKnown == ASSUME Punctual PROVE IdleSpec => []BusyKnown
<1>1. IdleInv /\ [IdleNext]_idleVars => IdleInv'
  BY IdleStep
<1> QED BY <1>1, IdleInvInit, AwakeKnows, PTL DEF IdleSpec

\* The smoothing of the movement looks no further than what the timeout
\* waits for at least.
Smooth == \A d \in Delays : d <= SECOND

LEMMA ScriptAtRest ==
  ASSUME Punctual, Smooth, IdleInv, [IdleNext]_idleVars,
         idle'.script, ~idle.script
  PROVE  /\ th.trapq.end <= now /\ th.queue = 0
         /\ th.need_flush_time <= th.last_flush_time
<1>i. IInv /\ TimeInv /\ Steady(th) /\ idle \in IdleFields
  BY DEF IdleInv
<1>1. StartScript
  <2>1. CASE UNCHANGED idleVars
    BY <2>1 DEF idleVars
  <2>2. CASE HandleSync
    BY <1>i, <2>2 DEF HandleSync, IdleFields
  <2>3. CASE IdleTick \/ TimerStops \/ StayReady \/ StayPrinting
    BY <1>i, <2>3 DEF IdleTick, TimerStops, StayReady, StayPrinting, Again,
                      IdleFields
  <2>4. CASE BecomeReady
    BY <1>i, <2>4 DEF BecomeReady, IdleFields
  <2>5. CASE ScriptEnds \/ ScriptFails
    BY <2>5 DEF ScriptEnds, ScriptFails, ScriptOver
  <2>6. CASE \E t \in Timeouts : SetIdleTimeout(t)
    BY <1>i, <2>6 DEF SetIdleTimeout, IdleFields
  <2> QED BY <2>1, <2>2, <2>3, <2>4, <2>5, <2>6 DEF IdleNext
<1>2. th.queue = 0 /\ now - th.print_time >= SECOND /\ greenlet = Idle
  BY <1>1 DEF StartScript, Elapsed, IdleTime
<1>t. /\ now \in Nat /\ th.print_time \in Nat /\ th.trapq.end \in Nat
      /\ th.last_flush_time \in Nat /\ th.need_flush_time \in Nat
      /\ th.kin_flush_delay \in Nat /\ th.kin_flush_delay <= SECOND
      /\ SECOND \in Nat
  BY <1>i, Typed, FieldTypes, ConstantTypes DEF IInv, Good, Counted, Smooth
<1>3. th.trapq.end <= th.print_time
  BY <1>i, <1>2, IdleIs, AtIdle DEF IInv, Good
<1>4. InTime
  BY <1>i, TimeIsIn
<1>5. th.need_flush_time <= th.last_flush_time
  BY <1>i, <1>t, <1>2, <1>4 DEF InTime, Steady, NoneLeft
<1> QED BY <1>2, <1>3, <1>5, <1>t

(* The script that turns the motors off (idle_timeout.py:44-48, 57-70) is  *)
(* only run when the last move is over, none waits in the lookahead queue, *)
(* and all steps have been flushed.                                        *)
THEOREM ScriptRunsAtRest == ASSUME Punctual, Smooth PROVE IdleSpec => OffAtRest
<1>1. IdleInv /\ [IdleNext]_idleVars => IdleInv'
  BY IdleStep
<1>2. IdleInv /\ [IdleNext]_idleVars =>
        [idle'.script /\ ~idle.script =>
           th.trapq.end <= now /\ th.queue = 0
           /\ th.need_flush_time <= th.last_flush_time]_idleVars
  BY ScriptAtRest
<1>3. IdleSpec => []IdleInv
  BY <1>1, IdleInvInit, PTL DEF IdleSpec
<1> QED BY <1>2, <1>3, PTL DEF IdleSpec, OffAtRest

-----------------------------------------------------------------------------
(* The coordinates of g-code.                                              *)

\* A saved state, too, has the virtual offset in its origin once.
SavedState ==
  [absolute_coord : BOOLEAN, absolute_extrude : BOOLEAN, base_position : Int,
   last_position : Int, homing_position : Int, origin : Int]

GCodeTypes ==
  /\ last_position \in Int /\ base_position \in Int /\ homing_position \in Int
  /\ origin \in Int /\ tool \in Int /\ saved_state \in SavedState
  /\ absolute_coord \in BOOLEAN /\ absolute_extrude \in BOOLEAN
  /\ axis \in {"X", "E"}

GCodeInv ==
  /\ GCodeTypes /\ KnowsPosition
  /\ saved_state.base_position = saved_state.origin + saved_state.homing_position

LEMMA MoveToKnows ==
  ASSUME last_position \in Int, tool \in Int, NEW pos \in Int, MoveTo(pos),
         last_position = tool
  PROVE  last_position' \in Int /\ tool' \in Int /\ last_position' = tool'
BY DEF MoveTo, AfterError, Positions

LEMMA GCodeInvInit == GMInit => GCodeInv
<1> SUFFICES ASSUME GMInit PROVE GCodeInv
  OBVIOUS
<1>1. GCodeTypes
  BY DEF GMInit, GCodeTypes, SavedState, GCodeState
<1>2. KnowsPosition /\ saved_state.base_position = saved_state.origin + saved_state.homing_position
  BY DEF GMInit, KnowsPosition, GCodeState
<1> QED  BY <1>1, <1>2 DEF GCodeInv

LEMMA GCodeStep == GCodeInv /\ [GMNext]_gcodeMoveVars => GCodeInv'
<1> SUFFICES ASSUME GCodeInv, [GMNext]_gcodeMoveVars PROVE GCodeInv'
  OBVIOUS
<1>t. /\ last_position \in Int /\ base_position \in Int /\ homing_position \in Int
      /\ origin \in Int /\ tool \in Int /\ last_position = tool
      /\ base_position = origin + homing_position /\ saved_state \in SavedState
      /\ saved_state.base_position = saved_state.origin + saved_state.homing_position
      /\ absolute_coord \in BOOLEAN /\ absolute_extrude \in BOOLEAN
      /\ axis \in {"X", "E"}
  BY DEF GCodeInv, GCodeTypes, KnowsPosition
<1>p. \A v \in Positions : v \in Int
  BY DEF Positions
<1>1. CASE UNCHANGED gcodeMoveVars
  BY <1>1 DEF GCodeInv, GCodeTypes, KnowsPosition, gcodeMoveVars
<1>2. CASE G1
  <2>1. PICK pos \in Int : MoveTo(pos)
    BY <1>2, <1>t, <1>p DEF G1
  <2>2. last_position' \in Int /\ tool' \in Int /\ last_position' = tool'
    BY <1>t, <2>1, MoveToKnows
  <2> QED  BY <1>2, <1>t, <2>2 DEF G1, GCodeInv, GCodeTypes, KnowsPosition
<1>3. CASE SetMode
  BY <1>3, <1>t DEF SetMode, GCodeInv, GCodeTypes, KnowsPosition
<1>4. CASE G92
  BY <1>4, <1>t, <1>p DEF G92, GCodeInv, GCodeTypes, KnowsPosition
<1>5. CASE SetGCodeOffset
  <2>1. PICK offset_ \in Positions :
          /\ homing_position' = offset_
          /\ base_position' = base_position + (offset_ - homing_position)
          /\ \/ UNCHANGED <<last_position, tool>>
             \/ MoveTo(last_position + (offset_ - homing_position))
    BY <1>5 DEF SetGCodeOffset
  <2>2. last_position' \in Int /\ tool' \in Int /\ last_position' = tool'
    <3>1. offset_ \in Int /\ last_position + (offset_ - homing_position) \in Int
      BY <1>t, <1>p
    <3> QED  BY <1>t, <2>1, <3>1, MoveToKnows
  <2> QED  BY <1>5, <1>t, <1>p, <2>1, <2>2
           DEF SetGCodeOffset, GCodeInv, GCodeTypes, KnowsPosition
<1>6. CASE SaveGCodeState
  <2>1. /\ saved_state' = [absolute_coord |-> absolute_coord,
                           absolute_extrude |-> absolute_extrude,
                           base_position |-> base_position,
                           last_position |-> last_position,
                           homing_position |-> homing_position, origin |-> origin]
        /\ UNCHANGED <<axis, last_position, base_position, homing_position,
                       absolute_coord, absolute_extrude, tool, origin>>
    BY <1>6 DEF SaveGCodeState, GCodeState
  <2>2. saved_state' \in SavedState
    BY <1>t, <2>1 DEF SavedState
  <2> QED  BY <1>t, <2>1, <2>2 DEF GCodeInv, GCodeTypes, KnowsPosition
<1>7. CASE RestoreGCodeState
  <2>1. /\ saved_state.base_position \in Int /\ saved_state.last_position \in Int
        /\ saved_state.homing_position \in Int /\ saved_state.origin \in Int
        /\ saved_state.absolute_coord \in BOOLEAN
        /\ saved_state.absolute_extrude \in BOOLEAN
    BY <1>t DEF SavedState
  <2>2. /\ base_position' = saved_state.base_position +
             (IF axis = "E" THEN last_position - saved_state.last_position ELSE 0)
        /\ homing_position' = saved_state.homing_position
        /\ absolute_coord' = saved_state.absolute_coord
        /\ absolute_extrude' = saved_state.absolute_extrude
        /\ origin' = IF axis = "X" THEN saved_state.origin
                     ELSE last_position - homing_position'
                          - (saved_state.last_position - saved_state.base_position)
        /\ \/ UNCHANGED <<last_position, tool>>
           \/ MoveTo(IF axis = "X" THEN saved_state.last_position ELSE last_position)
        /\ UNCHANGED <<axis, saved_state>>
    BY <1>7 DEF RestoreGCodeState, RestoredBase
  <2>3. last_position' \in Int /\ tool' \in Int /\ last_position' = tool'
    <3>1. (IF axis = "X" THEN saved_state.last_position ELSE last_position) \in Int
      BY <1>t, <2>1
    <3> QED  BY <1>t, <2>2, <3>1, MoveToKnows
  <2>4. axis = "X" \/ axis = "E"
    BY <1>t
  <2>5. base_position' \in Int /\ origin' \in Int /\ base_position' = origin' + homing_position'
    BY <1>t, <2>1, <2>2, <2>4
  <2>6. absolute_coord' \in BOOLEAN /\ absolute_extrude' \in BOOLEAN
    BY <2>1, <2>2, Zenon
  <2> QED  BY <1>t, <2>1, <2>2, <2>3, <2>5, <2>6 DEF GCodeInv, GCodeTypes, KnowsPosition
<1>8. CASE ToolMoves
  BY <1>8, <1>t, <1>p DEF ToolMoves, GCodeInv, GCodeTypes, KnowsPosition
<1>9. CASE HomeRailsEnd
  BY <1>9, <1>t, <1>p DEF HomeRailsEnd, HomedBase, GCodeInv, GCodeTypes, KnowsPosition
<1>10. CASE ActivateExtruder
  BY <1>10, <1>t, <1>p DEF ActivateExtruder, GCodeInv, GCodeTypes, KnowsPosition
<1> QED  BY <1>1, <1>2, <1>3, <1>4, <1>5, <1>6, <1>7, <1>8, <1>9, <1>10 DEF GMNext

(* Whatever fails or moves the toolhead beside it, g-code knows where it   *)
(* is, for any range of positions (gcode_move.py:74-84, 115-120, 182-236). *)
THEOREM GCodeKnowsPosition == GMSpec => []KnowsPosition
<1>1. GCodeInv => KnowsPosition
  BY DEF GCodeInv
<1> QED  BY <1>1, GCodeInvInit, GCodeStep, PTL DEF GMSpec

-----------------------------------------------------------------------------
(* Excluded objects.                                                       *)

Point == [x : Int, z : Int, e : Int]

FlagTypes ==
  in_excluded_region \in BOOLEAN /\ transforming \in BOOLEAN /\ back \in BOOLEAN

ExcludeTypes ==
  /\ offset \in Point /\ at_gcode \in Point /\ last_extruded \in Point
  /\ last_excluded \in Point /\ nozzle \in Point
  /\ max_extruded \in Int /\ max_excluded \in Int /\ extruder_adj \in Int
  /\ initial_extrusion_moves \in 0..InitialMoves
  /\ pushed \in Int /\ wanted_e \in Int
  /\ FlagTypes

\* As long as nothing was excluded the toolhead follows g-code.
Plain ==
  ~transforming =>
    ~in_excluded_region /\ back /\ nozzle = at_gcode /\ pushed = wanted_e

\* Among the objects that are printed: the offset of E, with the adjustment
\* that is still due, is what the toolhead was spared.  Until g-code moves in
\* X the offset of X tells that there is something to make good.
Printing ==
  transforming /\ ~in_excluded_region =>
    /\ last_extruded = at_gcode
    /\ nozzle = [x |-> at_gcode.x - offset.x, z |-> at_gcode.z - offset.z,
                 e |-> at_gcode.e - offset.e]
    /\ offset.e + extruder_adj = wanted_e - pushed
    /\ extruder_adj # 0 => at_gcode.e = last_excluded.e /\ initial_extrusion_moves = 0
    /\ IF back THEN offset.x = 0 /\ offset.z = 0 /\ extruder_adj = 0 ELSE offset.x # 0

\* In an excluded region the toolhead stands still.
Excluded ==
  in_excluded_region =>
    /\ transforming /\ ~back /\ initial_extrusion_moves = 0
    /\ at_gcode = last_excluded
    /\ offset.x = at_gcode.x - last_extruded.x
    /\ offset.e = at_gcode.e - nozzle.e
    /\ pushed = nozzle.e + max_extruded - last_extruded.e

\* From the first extrusion on, the highest positions are that.
Highest ==
  initial_extrusion_moves # InitialMoves =>
    nozzle.e <= pushed /\ at_gcode.e <= wanted_e

ExcludeInv == ExcludeTypes /\ Plain /\ Printing /\ Excluded /\ Highest

LEMMA StartIs == Start \in Point /\ Start.x = 0 /\ Start.z = 0 /\ Start.e = 0
BY DEF Start, Point

LEMMA ExcludeInvInit == ExcludeInit => ExcludeInv
<1> SUFFICES ASSUME ExcludeInit PROVE ExcludeInv
  OBVIOUS
<1>1. ExcludeTypes
  <2>1. FlagTypes
    BY DEF ExcludeInit, FlagTypes
  <2>2. InitialMoves \in 0..InitialMoves
    BY ExcludeAssumption
  <2> QED  BY <2>1, <2>2, StartIs DEF ExcludeInit, ExcludeTypes
<1>2. Plain /\ Printing /\ Excluded /\ Highest
  BY DEF ExcludeInit, Plain, Printing, Excluded, Highest
<1> QED  BY <1>1, <1>2 DEF ExcludeInv

\* What a step that does not move leaves alone.
Still == UNCHANGED <<in_excluded_region, transforming, trackVars, at_gcode, nozzle, exHistory>>

LEMMA StillInv == ExcludeInv /\ Still => ExcludeInv'
BY DEF ExcludeInv, ExcludeTypes, FlagTypes, Plain, Printing, Excluded, Highest, Still, trackVars, exHistory

LEMMA ExcludeIs == ExcludeInv /\ Exclude => ExcludeInv'
<1> SUFFICES ASSUME ExcludeInv, Exclude PROVE ExcludeInv'
  OBVIOUS
<1>1. UNCHANGED <<in_excluded_region, at_gcode, nozzle, pushed, wanted_e, back, regions>>
  BY DEF Exclude, exHistory
<1>2. CASE transforming
  BY <1>1, <1>2, StillInv DEF Exclude, Register, Still, exHistory
<1>3. CASE ~transforming
  <2>1. /\ transforming' = TRUE
        /\ offset' = Start /\ max_extruded' = 0 /\ max_excluded' = 0
        /\ extruder_adj' = 0 /\ initial_extrusion_moves' = InitialMoves
        /\ last_extruded' = nozzle /\ last_excluded' = nozzle
    BY <1>3 DEF Exclude, Register
  <2>2. ~in_excluded_region /\ back /\ nozzle = at_gcode /\ pushed = wanted_e
    BY <1>3 DEF ExcludeInv, Plain
  <2>3. ExcludeTypes'
    <3>1. FlagTypes'
      BY <1>1, <2>1 DEF FlagTypes, ExcludeInv, ExcludeTypes
    <3>2. InitialMoves \in 0..InitialMoves
      BY ExcludeAssumption
    <3> QED  BY <1>1, <2>1, <3>1, <3>2, StartIs DEF ExcludeInv, ExcludeTypes
  <2>4. nozzle = [x |-> at_gcode.x - 0, z |-> at_gcode.z - 0, e |-> at_gcode.e - 0]
    BY <2>2 DEF ExcludeInv, ExcludeTypes, Point
  <2>5. pushed \in Int
    BY DEF ExcludeInv, ExcludeTypes, FlagTypes
  <2>6. Printing'
    BY <1>1, <2>1, <2>2, <2>4, <2>5, StartIs DEF Printing
  <2> QED  BY <1>1, <2>1, <2>2, <2>3, <2>6 DEF ExcludeInv, Plain, Excluded, Highest
<1> QED  BY <1>2, <1>3

LEMMA ResetFileInv == ExcludeInv /\ ResetFile => ExcludeInv'
<1> SUFFICES ASSUME ExcludeInv, ResetFile PROVE ExcludeInv'
  OBVIOUS
<1>1. ExcludeTypes'
  <2>1. FlagTypes'
    BY DEF ResetFile, FlagTypes
  <2>2. InitialMoves \in 0..InitialMoves
    BY ExcludeAssumption
  <2> QED  BY <2>1, <2>2, StartIs DEF ExcludeInv, ExcludeTypes, ResetFile
<1> QED  BY <1>1 DEF ResetFile, ExcludeInv, Plain, Printing, Excluded, Highest

LEMMA PlainMoveInv ==
  ASSUME ExcludeInv, ~transforming, transforming' = FALSE, in_excluded_region' = FALSE,
         NEW p \in Point, PlainMove(p), pushed' = Top(pushed, nozzle'.e),
         wanted_e' = Top(wanted_e, p.e), back' = TRUE
  PROVE  ExcludeInv'
<1>1. /\ at_gcode' = p /\ nozzle' = p
      /\ UNCHANGED <<offset, last_extruded, last_excluded, max_extruded, max_excluded,
                     extruder_adj, initial_extrusion_moves>>
  BY DEF PlainMove, trackVars
<1>2. pushed = wanted_e /\ pushed \in Int /\ p.e \in Int
  BY DEF ExcludeInv, ExcludeTypes, Plain, Point
<1>3. pushed' = wanted_e' /\ pushed' \in Int /\ p.e <= pushed'
  BY <1>1, <1>2 DEF Top
<1>4. ExcludeTypes'
  <2>1. FlagTypes'
    BY DEF FlagTypes
  <2> QED  BY <1>1, <1>3, <2>1 DEF ExcludeInv, ExcludeTypes
<1> QED  BY <1>1, <1>3, <1>4 DEF ExcludeInv, Plain, Printing, Excluded, Highest

LEMMA IgnoreMoveInv ==
  ASSUME ExcludeInv, transforming, transforming', in_excluded_region' = TRUE, NEW p \in Point,
         initial_extrusion_moves = 0, ~in_excluded_region => Entering,
         IgnoreMove(p), pushed' = Top(pushed, nozzle'.e), wanted_e' = Top(wanted_e, p.e),
         back' = FALSE
  PROVE  ExcludeInv'
<1>1. /\ offset' = [x |-> p.x - last_extruded.x, z |-> p.z - last_extruded.z,
                    e |-> offset.e + p.e - at_gcode.e]
      /\ at_gcode' = p /\ last_excluded' = p
      /\ max_excluded' = Top(max_excluded, p.e)
      /\ UNCHANGED <<last_extruded, max_extruded, extruder_adj,
                     initial_extrusion_moves, nozzle>>
  BY DEF IgnoreMove
<1>2. /\ nozzle \in Point /\ at_gcode \in Point /\ last_extruded \in Point /\ offset \in Point
      /\ max_extruded \in Int /\ pushed \in Int /\ wanted_e \in Int /\ max_excluded \in Int
      /\ extruder_adj \in Int /\ back \in BOOLEAN /\ in_excluded_region \in BOOLEAN
  BY DEF ExcludeInv, ExcludeTypes, FlagTypes
<1>3. nozzle.e \in Int /\ at_gcode.e \in Int /\ offset.e \in Int /\ p.e \in Int
      /\ last_extruded.e \in Int
  BY <1>2 DEF Point
<1>4. nozzle.e <= pushed /\ at_gcode.e <= wanted_e
  BY ExcludeAssumption DEF ExcludeInv, Highest
<1>5. /\ offset.e = at_gcode.e - nozzle.e
      /\ pushed = nozzle.e + max_extruded - last_extruded.e
  <2>1. CASE in_excluded_region
    BY <2>1 DEF ExcludeInv, Excluded
  <2>2. CASE ~in_excluded_region
    <3>1. /\ last_extruded = at_gcode /\ nozzle.e = at_gcode.e - offset.e
          /\ offset.e + extruder_adj = wanted_e - pushed
          /\ back => extruder_adj = 0
      BY <2>2 DEF ExcludeInv, Printing
    <3>2. back /\ max_extruded = wanted_e
      BY <2>2 DEF Entering
    <3> QED  BY <1>2, <1>3, <3>1, <3>2
  <2> QED  BY <2>1, <2>2
<1>6. pushed' = pushed
  BY <1>1, <1>2, <1>3, <1>4 DEF Top
<1>7. wanted_e' \in Int /\ p.e <= wanted_e' /\ max_excluded' \in Int
  BY <1>1, <1>2, <1>3 DEF Top
<1>8. /\ offset' \in Point /\ offset'.x = p.x - last_extruded.x
      /\ offset'.e = p.e - nozzle.e
  BY <1>1, <1>2, <1>3, <1>5 DEF Point
<1>9. ExcludeTypes'
  <2>1. FlagTypes'
    BY DEF FlagTypes
  <2> QED  BY <1>1, <1>2, <1>6, <1>7, <1>8, <2>1 DEF ExcludeInv, ExcludeTypes
<1> QED  BY <1>1, <1>4, <1>5, <1>6, <1>7, <1>8, <1>9
         DEF ExcludeInv, Plain, Printing, Excluded, Highest

LEMMA NormalMoveInv ==
  ASSUME ExcludeInv, transforming, transforming', in_excluded_region' = FALSE,
         NEW p \in Point, NEW adj \in Int,
         adj = IF in_excluded_region THEN Adjustment ELSE extruder_adj,
         in_excluded_region => Leaving, NormalMove(p, adj),
         pushed' = Top(pushed, nozzle'.e), wanted_e' = Top(wanted_e, p.e),
         back' = (back \/ p.x # last_excluded.x)
  PROVE  ExcludeInv'
<1> DEFINE all == offset.x # 0 /\ p.x # last_excluded.x
<1>1. /\ initial_extrusion_moves' =
           IF initial_extrusion_moves > 0 /\ at_gcode.e # p.e
           THEN initial_extrusion_moves - 1 ELSE initial_extrusion_moves
      /\ at_gcode' = p /\ last_extruded' = p
      /\ max_extruded' = Top(max_extruded, p.e)
      /\ offset' = [x |-> IF all THEN 0 ELSE offset.x,
                    z |-> IF all \/ p.z # last_excluded.z THEN 0 ELSE offset.z,
                    e |-> IF all \/ p.e # last_excluded.e THEN offset.e + adj ELSE offset.e]
      /\ extruder_adj' = IF all \/ p.e # last_excluded.e THEN 0 ELSE adj
      /\ nozzle' = [x |-> p.x - offset'.x, z |-> p.z - offset'.z, e |-> p.e - offset'.e]
      /\ UNCHANGED <<last_excluded, max_excluded>>
  BY DEF NormalMove, OffsetAfter, AdjustedAfter
<1>2. /\ nozzle \in Point /\ at_gcode \in Point /\ last_extruded \in Point /\ offset \in Point
      /\ last_excluded \in Point
      /\ max_extruded \in Int /\ pushed \in Int /\ wanted_e \in Int /\ max_excluded \in Int
      /\ extruder_adj \in Int /\ back \in BOOLEAN /\ in_excluded_region \in BOOLEAN
      /\ initial_extrusion_moves \in 0..InitialMoves
  BY DEF ExcludeInv, ExcludeTypes, FlagTypes
<1>3. /\ nozzle.e \in Int /\ at_gcode.e \in Int /\ offset.e \in Int /\ p.e \in Int
      /\ last_extruded.e \in Int /\ last_excluded.e \in Int
      /\ offset.x \in Int /\ offset.z \in Int /\ p.x \in Int /\ p.z \in Int
  BY <1>2 DEF Point
\* What is true when the offset is made good, and before.
<1>4. offset.e + adj = wanted_e - pushed /\ offset.e = at_gcode.e - nozzle.e
  <2>1. CASE in_excluded_region
    <3>1. /\ at_gcode = last_excluded /\ offset.e = at_gcode.e - nozzle.e
          /\ pushed = nozzle.e + max_extruded - last_extruded.e
      BY <2>1 DEF ExcludeInv, Excluded
    <3>2. max_excluded = wanted_e
      BY <2>1 DEF Leaving
    <3>3. adj = max_excluded - last_excluded.e - (max_extruded - last_extruded.e)
      BY <2>1 DEF Adjustment
    <3> QED  BY <1>2, <1>3, <3>1, <3>2, <3>3
  <2>2. CASE ~in_excluded_region
    <3>1. nozzle.e = at_gcode.e - offset.e /\ offset.e + extruder_adj = wanted_e - pushed
      BY <2>2 DEF ExcludeInv, Printing
    <3> QED  BY <1>3, <2>2, <3>1
  <2> QED  BY <2>1, <2>2
<1>5. adj # 0 => at_gcode.e = last_excluded.e /\ initial_extrusion_moves = 0
  BY DEF ExcludeInv, Excluded, Printing
<1>6. IF back THEN offset.x = 0 /\ offset.z = 0 /\ adj = 0 ELSE offset.x # 0
  <2>1. CASE in_excluded_region
    <3>1. ~back /\ offset.x = at_gcode.x - last_extruded.x /\ at_gcode = last_excluded
      BY <2>1 DEF ExcludeInv, Excluded
    <3>2. last_excluded.x # last_extruded.x /\ last_excluded.x \in Int /\ last_extruded.x \in Int
      BY <1>2, <2>1 DEF Leaving, Point
    <3> QED  BY <3>1, <3>2
  <2>2. CASE ~in_excluded_region
    BY <2>2 DEF ExcludeInv, Printing
  <2> QED  BY <2>1, <2>2
<1>7. /\ offset'.x = IF all THEN 0 ELSE offset.x
      /\ offset'.z = IF all \/ p.z # last_excluded.z THEN 0 ELSE offset.z
      /\ offset'.e = IF all \/ p.e # last_excluded.e THEN offset.e + adj ELSE offset.e
      /\ offset' \in Point
  BY <1>1, <1>3 DEF Point
<1>8. back' => offset'.x = 0 /\ offset'.z = 0 /\ extruder_adj' = 0
  BY <1>1, <1>6, <1>7
<1>9. ~back' => offset'.x # 0
  BY <1>1, <1>6, <1>7
<1> HIDE DEF all
<1>10. nozzle'.e = p.e - offset'.e /\ nozzle' \in Point
  BY <1>1, <1>3, <1>7 DEF Point
<1>11. /\ pushed' \in Int /\ wanted_e' \in Int /\ nozzle'.e <= pushed' /\ p.e <= wanted_e'
       /\ max_extruded' \in Int
  <2>1. nozzle'.e \in Int
    BY <1>10 DEF Point
  <2> QED  BY <1>1, <1>2, <1>3, <2>1 DEF Top
<1>12. offset'.e + extruder_adj' = wanted_e' - pushed'
  <2>1. CASE all \/ p.e # last_excluded.e
    <3>1. offset'.e = offset.e + adj /\ extruder_adj' = 0
      BY <1>1, <1>7, <2>1
    <3> QED  BY <1>2, <1>3, <1>4, <1>10, <3>1 DEF Top
  <2>2. CASE ~(all \/ p.e # last_excluded.e) /\ adj = 0
    <3>1. offset'.e = offset.e + adj /\ extruder_adj' = 0
      BY <1>1, <1>3, <1>7, <2>2
    <3> QED  BY <1>2, <1>3, <1>4, <1>10, <3>1 DEF Top
  <2>3. CASE ~(all \/ p.e # last_excluded.e) /\ adj # 0
    <3>1. offset'.e = offset.e /\ extruder_adj' = adj
      BY <1>1, <1>7, <2>3
    <3>2. p.e = at_gcode.e
      BY <1>5, <2>3
    <3>3. initial_extrusion_moves # InitialMoves
      BY <1>5, <2>3, ExcludeAssumption
    <3>4. nozzle.e <= pushed /\ at_gcode.e <= wanted_e
      BY <3>3 DEF ExcludeInv, Highest
    <3> QED  BY <1>2, <1>3, <1>4, <1>10, <3>1, <3>2, <3>4 DEF Top
  <2> QED  BY <2>1, <2>2, <2>3
<1>13. extruder_adj' # 0 => p.e = last_excluded.e /\ initial_extrusion_moves' = 0
  BY <1>1, <1>5
<1>14. initial_extrusion_moves' \in 0..InitialMoves
  BY <1>1, <1>2, ExcludeAssumption
<1>15. extruder_adj' \in Int
  BY <1>1
<1>16. FlagTypes'
  <2>1. back' \in BOOLEAN
    BY Zenon
  <2> QED  BY <2>1 DEF FlagTypes
<1>17. ExcludeTypes'
  BY <1>1, <1>2, <1>7, <1>10, <1>11, <1>14, <1>15, <1>16 DEF ExcludeTypes, ExcludeInv
<1> QED  BY <1>1, <1>8, <1>9, <1>11, <1>12, <1>13, <1>17
         DEF ExcludeInv, Plain, Printing, Excluded, Highest

LEMMA MoveAtInv == ExcludeInv /\ MoveAt => ExcludeInv'
<1> SUFFICES ASSUME ExcludeInv, MoveAt PROVE ExcludeInv'
  OBVIOUS
<1>1. PICK p \in Place :
        /\ in_excluded_region' = (transforming /\ TestInExcludedRegion)
        /\ in_excluded_region' /\ ~in_excluded_region => Entering
        /\ in_excluded_region /\ ~in_excluded_region' => Leaving
        /\ IF ~transforming THEN PlainMove(p)
           ELSE IF in_excluded_region' THEN IgnoreMove(p)
           ELSE NormalMove(p, IF in_excluded_region THEN Adjustment
                              ELSE extruder_adj)
        /\ pushed' = Top(pushed, nozzle'.e) /\ wanted_e' = Top(wanted_e, p.e)
        /\ back' = (~in_excluded_region' /\ (back \/ p.x # last_excluded.x))
        /\ UNCHANGED transforming
  BY DEF MoveAt
<1>2. p \in Point
  BY DEF Place, Point
<1>3. CASE ~transforming
  <2>1. back
    BY <1>3 DEF ExcludeInv, Plain
  <2>2. transforming' = FALSE /\ in_excluded_region' = FALSE /\ back' = TRUE
    BY <1>1, <1>3, <2>1 DEF ExcludeInv, ExcludeTypes, FlagTypes
  <2> QED  BY <1>1, <1>2, <1>3, <2>2, PlainMoveInv
<1>4. CASE transforming /\ in_excluded_region'
  <2>1. initial_extrusion_moves = 0
    BY <1>1, <1>4 DEF TestInExcludedRegion
  <2> QED  BY <1>1, <1>2, <1>4, <2>1, IgnoreMoveInv
<1>5. CASE transforming /\ ~in_excluded_region'
  <2>1. (IF in_excluded_region THEN Adjustment ELSE extruder_adj) \in Int
    BY DEF ExcludeInv, ExcludeTypes, Adjustment, Point
  <2>2. in_excluded_region' = FALSE /\ back' = (back \/ p.x # last_excluded.x)
    BY <1>1, <1>5
  <2> QED  BY <1>1, <1>2, <1>5, <2>1, <2>2, NormalMoveInv
<1> QED  BY <1>3, <1>4, <1>5

LEMMA ExcludeStep == ExcludeInv /\ [ExcludeNext]_excludeVars => ExcludeInv'
<1> SUFFICES ASSUME ExcludeInv, [ExcludeNext]_excludeVars PROVE ExcludeInv'
  OBVIOUS
<1>1. CASE UNCHANGED excludeVars \/ SetCurrent \/ Unexclude
  <2>1. Still
    BY <1>1 DEF excludeVars, objectVars, SetCurrent, Unexclude, Still
  <2> QED  BY <2>1, StillInv
<1> QED  BY <1>1, ExcludeIs, ResetFileInv, MoveAtInv DEF ExcludeNext

LEMMA BackOnTrackIs == ExcludeInv => BackOnTrack
<1> SUFFICES ASSUME ExcludeInv, back PROVE /\ nozzle.x = at_gcode.x /\ nozzle.z = at_gcode.z
                                           /\ transforming => pushed - nozzle.e = wanted_e - at_gcode.e
  BY DEF BackOnTrack
<1>1. CASE ~transforming
  BY <1>1 DEF ExcludeInv, Plain
<1>2. CASE transforming
  <2>1. ~in_excluded_region
    BY DEF ExcludeInv, Excluded
  <2>2. /\ nozzle = [x |-> at_gcode.x - offset.x, z |-> at_gcode.z - offset.z,
                     e |-> at_gcode.e - offset.e]
        /\ offset.e + extruder_adj = wanted_e - pushed
        /\ offset.x = 0 /\ offset.z = 0 /\ extruder_adj = 0
    BY <1>2, <2>1 DEF ExcludeInv, Printing
  <2>3. /\ at_gcode.x \in Int /\ at_gcode.z \in Int /\ at_gcode.e \in Int /\ offset.e \in Int
        /\ pushed \in Int /\ wanted_e \in Int
    BY DEF ExcludeInv, ExcludeTypes, Point
  <2> QED  BY <2>2, <2>3
<1> QED  BY <1>1, <1>2

(* Back among the objects that are printed the nozzle is where g-code      *)
(* wants it and as far retracted, whatever was excluded before, for any    *)
(* number of regions (exclude_object.py:112-160).                          *)
THEOREM NozzleIsBackOnTrack == ExcludeSpec => []BackOnTrack
BY ExcludeInvInit, ExcludeStep, BackOnTrackIs, PTL DEF ExcludeSpec

(* Both hold of the parts as TLC runs them.                                *)
THEOREM PositionsAreSound == MotionSpec => []PositionsSound
<1>1. MotionInit => GCodeInv /\ ExcludeInv
  BY GCodeInvInit, ExcludeInvInit DEF MotionInit
<1>2. GCodeInv /\ ExcludeInv /\ [MotionNext]_MotionVars => (GCodeInv /\ ExcludeInv)'
  <2>1. [MotionNext]_MotionVars => [GMNext]_gcodeMoveVars /\ [ExcludeNext]_excludeVars
    BY DEF MotionNext, MotionVars, OthersRest
  <2> QED  BY <2>1, GCodeStep, ExcludeStep
<1>3. GCodeInv /\ ExcludeInv => PositionsSound
  BY BackOnTrackIs DEF GCodeInv, PositionsSound
<1> QED  BY <1>1, <1>2, <1>3, PTL DEF MotionSpec

-----------------------------------------------------------------------------
(* Probing.                                                                *)

Commands == {"none", "home", "single", "points"}
Phases   == {"idle", "begin", "move", "finish", "sampled", "probed", "error"}

ProbeTypes ==
  /\ command \in Commands /\ probe_phase \in Phases
  /\ multi \in {"OFF", "FIRST", "ON"}
  /\ failing \in BOOLEAN /\ stow_on_each_sample \in BOOLEAN
  /\ homing_pending \in BOOLEAN /\ session_pending \in BOOLEAN
  /\ lowered \in BOOLEAN /\ script_failed \in BOOLEAN
  /\ results \in Nat /\ probe_num \in Nat /\ positions \in Nat /\ retries \in Nat

\* What is under way, and who has to end it after an error.
InSession ==
  /\ command = "none" <=> probe_phase = "idle"
  /\ probe_phase = "idle" => ~Unfinished
  /\ probe_phase \notin {"idle", "error"} =>
       IF command = "home" THEN homing_pending /\ ~session_pending
       ELSE session_pending /\ ~homing_pending /\ results = probe_num
  /\ probe_phase = "probed" => command # "home"
  /\ probe_phase = "error" /\ ~Unfinished => script_failed

\* The probe is down as long as multi is ON, and during each move.  With
\* deactivate_on_each_sample it is up after each of them.
DownOrUp ==
  /\ probe_phase = "move" \/ (multi = "ON" /\ probe_phase \notin {"idle", "error"}) =>
       lowered
  /\ stow_on_each_sample => multi = "OFF"
  /\ stow_on_each_sample /\ ~script_failed /\ probe_phase \notin {"move", "finish"} =>
       ~lowered
  /\ probe_phase = "idle" /\ ~script_failed => ~lowered /\ multi = "OFF"

ProbeInv == ProbeTypes /\ InSession /\ DownOrUp

LEMMA ProbeInvInit == ProbingInit => ProbeInv
<1> SUFFICES ASSUME ProbingInit PROVE ProbeInv
  OBVIOUS
<1>1. stow_on_each_sample \in BOOLEAN
  BY DEF ProbingInit
<1>2. ProbeTypes
  BY <1>1 DEF ProbingInit, ProbeTypes, Commands, Phases
<1>3. InSession /\ DownOrUp
  BY DEF ProbingInit, InSession, DownOrUp, Unfinished
<1> QED  BY <1>2, <1>3 DEF ProbeInv

LEMMA ProbeStep == ProbeInv /\ [ProbingNext]_probeVars => ProbeInv'
<1> SUFFICES ASSUME ProbeInv, [ProbingNext]_probeVars PROVE ProbeInv'
  OBVIOUS
<1> USE ProbingAssumption
        DEF ProbeInv, ProbeTypes, InSession, DownOrUp, Unfinished, Commands, Phases
<1>1. CASE UNCHANGED probeVars
  BY <1>1 DEF probeVars, countVars
<1>2. CASE CommandError
  BY <1>2 DEF CommandError, MultiProbeEnd, Script
<1>3. CASE Fails
  BY <1>3 DEF Fails, countVars
<1>4. CASE ProbePrepare
  BY <1>4 DEF ProbePrepare, Script, countVars
<1>5. CASE MoveEnds
  BY <1>5 DEF MoveEnds, countVars
<1>6. CASE ProbeFinish
  BY <1>6 DEF ProbeFinish, Script, countVars
<1>7. CASE HomeBegins
  BY <1>7 DEF HomeBegins, MultiProbeBegin, countVars
<1>8. CASE HomeGoesOn
  <2>1. CASE probe_phase' = "begin"
    BY <1>8, <2>1 DEF HomeGoesOn, countVars
  <2>2. CASE probe_phase' # "begin"
    <3>1. PICK worked \in BOOLEAN :
            /\ homing_pending' = FALSE /\ MultiProbeEnd(worked)
            /\ \/ worked /\ probe_phase' = "idle" /\ command' = "none"
               \/ ~worked /\ probe_phase' = "error" /\ UNCHANGED command
      BY <1>8, <2>2 DEF HomeGoesOn
    <3>2. /\ command = "home" /\ probe_phase = "sampled"
          /\ UNCHANGED <<failing, stow_on_each_sample, session_pending, results,
                         positions, retries, probe_num>>
      BY <1>8 DEF HomeGoesOn, countVars
    <3>3. ProbeTypes'
      BY <3>1, <3>2 DEF MultiProbeEnd, Script
    <3>4. InSession'
      BY <3>1, <3>2 DEF MultiProbeEnd, Script
    <3>5. DownOrUp'
      BY <3>1, <3>2 DEF MultiProbeEnd, Script
    <3> QED  BY <3>3, <3>4, <3>5
  <2> QED  BY <2>1, <2>2
<1>9. CASE SessionBegins
  <2>1. ~session_pending /\ ~homing_pending
    BY <1>9 DEF SessionBegins
  <2>2. /\ command = "none" /\ command' \in {"single", "points"} /\ probe_phase' = "begin"
        /\ session_pending' = TRUE /\ results' = 0 /\ probe_num' = 0
        /\ positions' = 0 /\ retries' = 0
        /\ multi' = IF stow_on_each_sample THEN multi ELSE "FIRST"
        /\ UNCHANGED <<failing, stow_on_each_sample, homing_pending, lowered, script_failed>>
    BY <1>9, <2>1 DEF SessionBegins, MultiProbeBegin
  <2>3. ProbeTypes'
    BY <2>2
  <2>4. InSession'
    BY <2>2
  <2>5. DownOrUp'
    BY <2>2
  <2> QED  BY <2>3, <2>4, <2>5
<1>10. CASE RunProbe
  BY <1>10 DEF RunProbe
<1>11. CASE NextPoint
  BY <1>11 DEF NextPoint
<1>12. CASE SessionEnds
  <2>1. PICK worked \in BOOLEAN :
          /\ MultiProbeEnd(worked)
          /\ \/ worked /\ probe_phase' = "idle" /\ command' = "none"
             \/ ~worked /\ probe_phase' = "error" /\ UNCHANGED command
    BY <1>12 DEF SessionEnds
  <2>2. /\ probe_phase = "probed" /\ session_pending' = FALSE /\ results' = 0
        /\ UNCHANGED <<failing, stow_on_each_sample, homing_pending, positions, retries,
                       probe_num>>
    BY <1>12 DEF SessionEnds
  <2>3. ProbeTypes'
    BY <2>1, <2>2 DEF MultiProbeEnd, Script
  <2>4. InSession'
    BY <2>1, <2>2 DEF MultiProbeEnd, Script
  <2>5. DownOrUp'
    BY <2>1, <2>2 DEF MultiProbeEnd, Script
  <2> QED  BY <2>3, <2>4, <2>5
<1> QED  BY <1>1, <1>2, <1>3, <1>4, <1>5, <1>6, <1>7, <1>8, <1>9, <1>10, <1>11, <1>12
         DEF ProbingNext

(* Probing is sound for any numbers of samples, retries and points         *)
(* (probe.py:217-230, 268-291, 524-557).                                   *)
THEOREM ProbingIsSound == ProbingSpec => []ProbeSound
<1>1. ProbeInv => ProbeSound
  BY DEF ProbeInv, ProbeSound, InSession, DownOrUp, Unfinished
<1> QED  BY <1>1, ProbeInvInit, ProbeStep, PTL DEF ProbingSpec

=============================================================================
