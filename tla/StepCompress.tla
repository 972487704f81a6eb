---------------------------- MODULE StepCompress ----------------------------
(***************************************************************************)
(* stepcompress.c: the times of steps become commands `interval, count,    *)
(* add' that a micro-controller can execute, a history of them from which  *)
(* past positions are read, and the steppersync object that hands out the  *)
(* room in the controller's move queue.                                    *)
(*                                                                         *)
(* Clocks of steps are kept modulo Wrap (2^32) in the queue and in full    *)
(* elsewhere.  The conversion of print times to clocks, which is floating  *)
(* point, and the memory of the queue are left out; when it is extended,   *)
(* and perhaps flushed, is a choice.                                       *)
(***************************************************************************)
EXTENDS Integers, Sequences

LOCAL INSTANCE SequencesExt
LOCAL INSTANCE FiniteSetsExt
LOCAL INSTANCE FiniteSets

CONSTANTS
  Compressors,
  ScList,         \* the steppers as sc_list lists them
  Wrap,           \* 2^32 in the code
  ClockDiffMax,   \* 3 << 28
  MaxError,       \* in clocks
  MaxRun,         \* 65535: steps in a command, and those kept in the queue
  KeepSlack,      \* 2000
  AddLimit,       \* 0x8000
  LongRun,        \* 0x200
  FilterTime,     \* SDS_FILTER_TIME in clocks
  MoveNum,        \* room in the controller's move queue
  RestClocks,     \* clocks without steps after a homing
  Plans           \* bounds: [steps: those of each stepper, gaps: clocks between
                  \* them, dirs: their directions, also: what else is done]

ASSUME StepCompressAssumption ==
  /\ ScList \in Seq(Compressors) /\ ToSet(ScList) = Compressors
  /\ ClockDiffMax * 4 < Wrap /\ MaxError < ClockDiffMax /\ MoveNum \in Nat \ {0}
  /\ RestClocks > MaxError

VARIABLES
  step_queue,        \* clocks of steps, modulo Wrap
  last_step_clock,
  sdir,              \* 1, 0, or -1 for unknown
  next_step_clock,   \* the pending step; 0 is none
  next_step_dir,
  sc_position,
  msg_queue,         \* commands not yet batched
  history_list,      \* the newest first
  move_clocks,       \* heap: when items of the move queue become available
  failed,            \* check_line found a bad line
  asked,             \* history: steps put into the queue, [clock, dir]
  pulses,            \* history: what the commands make, [clock, dir]
  net,               \* history: steps given to stepcompress_append, by sign
  mark,              \* history: the last set_last_position, [clock, pos, after]:
                     \* `after' pulses came before it
  cleared,           \* history: the history is kept from this clock on
  generated,         \* history: steps up to this clock have been given
  sent,              \* history: items of the move queue, [avail, free]
  turn,              \* the stepper that generates steps, a place in ScList
  stepped,           \* bound: steps given
  plan

stepVars == <<step_queue, last_step_clock, sdir, next_step_clock, next_step_dir,
              sc_position, msg_queue, history_list, move_clocks, failed, asked,
              pulses, net, mark, cleared, generated, sent, turn, stepped, plan>>

DivUp(a, b) == 0 - ((0 - a) \div b)
Earlier(a, b) == IF a < b THEN a ELSE b
Later(a, b) == IF a > b THEN a ELSE b
Never == 0 - 1       \* UINT64_MAX: an end that every clock is before

-----------------------------------------------------------------------------
(* Compression.  A compressor c is [step_queue, lsc, sdir, pos, msgs,      *)
(* history, failed, pulses].                                               *)

\* at most half of the distance to the step before
ErrorOf(gap) == Earlier(gap \div 2, MaxError)

\* minmax_point of the n-th step in the queue
Point(c, n) ==
  LET point == (c.step_queue[n] - c.lsc) % Wrap
      prev  == IF n > 1 THEN (c.step_queue[n - 1] - c.lsc) % Wrap ELSE 0
  IN [min |-> point - ErrorOf((point - prev) % Wrap), max |-> point]

\* Bounds that the k-th step, between p.min and p.max, puts on the interval of a
\* line with `add'
LeastOf(p, k, add) == DivUp(p.min - add * ((k * (k - 1)) \div 2), k)
MostOf(p, k, add) == (p.max - add * ((k * (k - 1)) \div 2)) \div k

\* A search b has the `add's [min, max] and intervals [lo, hi] left, tries `add'
\* next, and has found the lines best and zero.  Intervals for the first n steps:
Intervals(c, b, n) ==
  [lo |-> Max({b.lo} \cup {LeastOf(Point(c, k), k, b.add) : k \in 2..n}),
   hi |-> Min({b.hi} \cup {MostOf(Point(c, k), k, b.add) : k \in 2..n})]

\* Find longest valid sequence with the given 'add': it reaches the end, or the
\* step before the first one where the bounds cross.
Count(c, b) ==
  LET all == Earlier(Len(c.step_queue), MaxRun) IN
  Min({all} \cup {n - 1 : n \in {k \in 2..all :
                             LET v == Intervals(c, b, k) IN v.lo > v.hi}})

CommandLine(interval, count, add) == [interval |-> interval, count |-> count, add |-> add]
ReachOf(m) == m.add * ((m.count * (m.count - 1)) \div 2) + m.interval * m.count

Better(line, b) == \/ b.best.count = 0 \/ ReachOf(line) > ReachOf(b.best)
                   \/ ReachOf(line) = ReachOf(b.best) /\ line.interval > b.best.interval

Judged(b, line) ==
  IF ~Better(line, b) THEN b
  ELSE [b EXCEPT !.best = line, !.zero = IF line.add = 0 THEN line ELSE @,
                 !.done = line.count > LongRun]

\* Check if a greater or lesser add could extend the sequence to the next step.
Halved(b, line, p, at) ==
  IF ReachOf([line EXCEPT !.count = @ + 1]) < p.min
  THEN [b EXCEPT !.min = line.add + 1, !.hi = at.hi]
  ELSE [b EXCEPT !.max = line.add - 1, !.lo = at.lo]

\* The maximum valid deviation between two quadratic sequences
Near(b, line, err) ==
  IF line.count = 1 THEN b
  ELSE [b EXCEPT !.min = Later(@, line.add - err), !.max = Earlier(@, line.add + err)]

\* See if the next step, the n-th, would further limit the add range.
Clipped(b, p, n) ==
  [b EXCEPT !.min = Later(@, DivUp(p.min - b.hi * n, (n * (n - 1)) \div 2)),
            !.max = Earlier(@, (p.max - b.lo * n) \div ((n * (n - 1)) \div 2))]

\* Bisect valid add range and try again with new 'add'.
Bisected(b) == [b EXCEPT !.add = b.max - (b.max - b.min) \div 4,
                         !.done = @ \/ b.min > b.max]

\* One value of `add'; its longest sequence has `count' steps.
Tried(c, b, count) ==
  LET line == CommandLine(Intervals(c, b, count).hi, count, b.add)
  IN IF count = Earlier(Len(c.step_queue), MaxRun)
     THEN [b EXCEPT !.done = TRUE, !.best = line, !.zero.count = 0]
     ELSE Bisected(Clipped(Near(Halved(Judged(b, line), line, Point(c, count + 1),
                                       Intervals(c, b, count + 1)),
                                line, (MaxError * 11) \div (count * count)),
                           Point(c, count + 1), count + 1))

\* Prefer add=0 if it's similar to the best found sequence.
Chosen(b) == IF b.zero.count + b.zero.count \div 16 >= b.best.count THEN b.zero ELSE b.best

\* compress_bisect_add; a value of `add' is tried only once.
Compressed(c) ==
  Chosen(FoldLeft(LAMBDA b, i : IF b.done THEN b ELSE Tried(c, b, Count(c, b)),
    [add |-> 0, min |-> 0 - AddLimit, max |-> AddLimit - 1, done |-> FALSE,
     lo |-> Point(c, 1).min, hi |-> Point(c, 1).max,
     best |-> CommandLine(0, 0, 1), zero |-> CommandLine(0, 0, 0)],
    [i \in 1..2 * AddLimit |-> i]))

\* When the controller makes the n-th pulse of a line, from the one before it
PulseAt(m, n) == m.interval * n + m.add * ((n * (n - 1)) \div 2)

\* check_line, without its tests of the sign bit
Checked(c, m) ==
  /\ m.count > 0 /\ (m.interval # 0 \/ m.add # 0 \/ m.count = 1)
  /\ \A n \in 1..m.count : /\ PulseAt(m, n) >= Point(c, n).min
                           /\ PulseAt(m, n) <= Point(c, n).max

-----------------------------------------------------------------------------
(* The queue.                                                              *)

Compressor(s) ==
  [step_queue |-> step_queue[s], lsc |-> last_step_clock[s], sdir |-> sdir[s],
   pos |-> sc_position[s], msgs |-> msg_queue[s], history |-> history_list[s],
   failed |-> failed, asked |-> asked[s], pulses |-> pulses[s]]

\* add_move.  `free' is when the controller takes it off its move queue; a
\* lone step far away is wanted at its own time.
AddMove(c, first, m) ==
  LET last == first + PulseAt(m, m.count) - m.interval
      far == m.count = 1 /\ first >= c.lsc + ClockDiffMax
      signed == IF c.sdir # 0 THEN m.count ELSE 0 - m.count
  IN [c EXCEPT
        !.msgs = Append(@, [req |-> IF far THEN first ELSE c.lsc, free |-> c.lsc]),
        !.lsc = last,
        !.pos = @ + signed,
        !.history = << [first |-> first, last |-> last, start |-> c.pos,
                        count |-> signed, interval |-> m.interval,
                        add |-> m.add] >> \o @,
        !.pulses = @ \o [n \in 1..m.count |->
                           [clock |-> first + PulseAt(m, n) - m.interval,
                            dir |-> c.sdir]]]

\* queue_flush
Flushes(c, move_clock) ==
  c.step_queue # <<>> /\ ~c.failed /\ (move_clock = Never \/ c.lsc < move_clock)

FlushLine(c, m) ==
  IF ~Checked(c, m) THEN [c EXCEPT !.failed = TRUE]
  ELSE [AddMove(c, c.lsc + m.interval, m) EXCEPT
          !.step_queue = SubSeq(@, m.count + 1, Len(@))]

QueueFlush(c, move_clock) ==
  FoldLeft(LAMBDA d, i : IF Flushes(d, move_clock) THEN FlushLine(d, Compressed(d)) ELSE d,
           c, c.step_queue)

\* set_next_step_dir; its command uses no room in the move queue.
SetNextStepDir(c, dir) ==
  LET f == QueueFlush(c, Never)
  IN IF c.sdir = dir THEN c
     ELSE [f EXCEPT !.sdir = dir, !.msgs = Append(@, [req |-> f.lsc, free |-> 0])]

Enqueue(c, clock) == [c EXCEPT !.step_queue = Append(@, clock % Wrap)]

\* queue_append_far
AppendFar(c, clock) ==
  LET f == QueueFlush(c, clock - ClockDiffMax + 1)
  IN IF clock >= f.lsc + ClockDiffMax
     THEN AddMove(f, clock, CommandLine(clock - f.lsc, 1, 0))
     ELSE Enqueue(f, clock)

\* queue_append_extend: no more than MaxRun steps are kept.
AppendExtend(c, clock) ==
  LET n == Len(c.step_queue)
      until == c.lsc + ((c.step_queue[n - MaxRun + 1] - c.lsc) % Wrap)
  IN Enqueue(IF n > MaxRun + KeepSlack THEN QueueFlush(c, until) ELSE c, clock)

\* Mutant: steps that are far away are queued like others.
TooFar_Never(c, clock) == FALSE

\* next_step_clock >= last_step_clock + CLOCK_DIFF_MAX
TooFar(c, clock) == clock >= c.lsc + ClockDiffMax

\* queue_append
QueueAppend(c, clock, dir, extend) ==
  LET t == SetNextStepDir(c, dir)
      done == IF TooFar(t, clock) THEN AppendFar(t, clock)
              ELSE IF extend THEN AppendExtend(t, clock) ELSE Enqueue(t, clock)
  IN [done EXCEPT !.asked = Append(@, [clock |-> clock, dir |-> dir])]

\* stepcompress_flush
Flushed(c, clock, dir, move_clock) ==
  QueueFlush(IF clock # 0 /\ (move_clock = Never \/ move_clock >= clock)
             THEN QueueAppend(c, clock, dir, FALSE) ELSE c, move_clock)

\* Compressor s becomes c.
Becomes(s, c) ==
  /\ step_queue' = [step_queue EXCEPT ![s] = c.step_queue]
  /\ last_step_clock' = [last_step_clock EXCEPT ![s] = c.lsc]
  /\ sdir' = [sdir EXCEPT ![s] = c.sdir]
  /\ sc_position' = [sc_position EXCEPT ![s] = c.pos]
  /\ msg_queue' = [msg_queue EXCEPT ![s] = c.msgs]
  /\ history_list' = [history_list EXCEPT ![s] = c.history]
  /\ failed' = c.failed
  /\ asked' = [asked EXCEPT ![s] = c.asked]
  /\ pulses' = [pulses EXCEPT ![s] = c.pulses]

-----------------------------------------------------------------------------
(* The interface.                                                          *)

StepsInit ==
  /\ step_queue = [s \in Compressors |-> <<>>]
  /\ last_step_clock = [s \in Compressors |-> 0]
  /\ sdir = [s \in Compressors |-> 0 - 1]
  /\ next_step_clock = [s \in Compressors |-> 0]
  /\ next_step_dir = [s \in Compressors |-> 0]
  /\ sc_position = [s \in Compressors |-> 0]
  /\ msg_queue = [s \in Compressors |-> <<>>]
  /\ history_list = [s \in Compressors |-> <<>>]
  /\ move_clocks = [i \in 1..MoveNum |-> 0]
  /\ failed = FALSE
  /\ asked = [s \in Compressors |-> <<>>] /\ pulses = [s \in Compressors |-> <<>>]
  /\ net = [s \in Compressors |-> 0] /\ cleared = 0
  /\ mark = [s \in Compressors |-> [clock |-> 0, pos |-> 0, after |-> 0]]
  /\ generated = [s \in Compressors |-> 0] /\ sent = <<>>
  /\ turn = 1 /\ stepped = [s \in Compressors |-> 0] /\ plan \in Plans

\* Steppers generate the steps of a while one after the other (mcu.flush_moves
\* comes after them).
InTurn(s) == \E i \in turn..Len(ScList) : ScList[i] = s /\ turn' = i

\* stepcompress_append: the step replaces the pending one, which goes to the
\* queue unless the two are a step back at once.
StepAppend(s, gap, dir, extend) ==
  LET clock == generated[s] + gap
      pending == next_step_clock[s]
      back == pending # 0 /\ dir # next_step_dir[s] /\ clock - pending < FilterTime
  IN
  /\ stepped[s] < plan.steps[s] /\ stepped' = [stepped EXCEPT ![s] = @ + 1]
  /\ InTurn(s)
  /\ generated' = [generated EXCEPT ![s] = clock]
  /\ net' = [net EXCEPT ![s] = @ + (IF dir = 1 THEN 1 ELSE -1)]
  /\ next_step_clock' = [next_step_clock EXCEPT ![s] = IF back THEN 0 ELSE clock]
  /\ next_step_dir' = [next_step_dir EXCEPT ![s] = dir]
  /\ IF pending # 0 /\ ~back
     THEN Becomes(s, QueueAppend(Compressor(s), pending, next_step_dir[s], extend))
     ELSE ~extend /\ Becomes(s, Compressor(s))
  /\ UNCHANGED <<move_clocks, mark, cleared, sent, plan>>

\* stepcompress_commit
Commit(s) ==
  /\ "commit" \in plan.also /\ next_step_clock[s] # 0 /\ InTurn(s)
  /\ next_step_clock' = [next_step_clock EXCEPT ![s] = 0]
  /\ Becomes(s, QueueAppend(Compressor(s), next_step_clock[s], next_step_dir[s], FALSE))
  /\ UNCHANGED <<next_step_dir, move_clocks, net, mark, cleared, generated, sent,
                 stepped, plan>>

FlushedAll(s) == Flushed(Compressor(s), next_step_clock[s], next_step_dir[s], Never)

\* note_homing_end: stepcompress_reset, a command of stepcompress_queue_msg and,
\* once the controller has been asked, stepcompress_set_last_position.  It was
\* asked before some of the steps that it dropped were due.
HomingEnd(s, pos, ahead) ==
  LET f == FlushedAll(s)
      clock == generated[s] - ahead
  IN
  /\ "homing" \in plan.also /\ f.lsc > 0 /\ mark[s].clock = 0 /\ clock > 0
  /\ generated' = [generated EXCEPT ![s] = @ + RestClocks]
  /\ next_step_clock' = [next_step_clock EXCEPT ![s] = 0]
  /\ Becomes(s, [f EXCEPT !.lsc = 0, !.sdir = 0 - 1, !.pos = pos,
                    !.msgs = Append(@, [req |-> 0, free |-> 0]),
                    !.history = << [first |-> clock, last |-> clock, start |-> pos,
                                    count |-> 0, interval |-> 0, add |-> 0] >> \o @])
  /\ mark' = [mark EXCEPT ![s] = [clock |-> clock, pos |-> pos, after |-> Len(f.pulses)]]
  /\ net' = [net EXCEPT ![s] = pos]
  /\ UNCHANGED <<next_step_dir, move_clocks, cleared, sent, turn, stepped, plan>>

-----------------------------------------------------------------------------
(* steppersync.                                                            *)

\* Mutant: the children are compared the wrong way around.
SmallerChild_Swapped(a, b) == a >= b

SmallerChild(a, b) == a < b

\* heap_replace: the smallest clock makes room for `clock'.
Kid(heap, k) == IF k <= MoveNum THEN heap[k] ELSE Wrap * Wrap

\* A place h.hole of the heap to fill: `clock' fits, or the smaller child moves up.
Sifted(h, clock) ==
  LET a == Kid(h.heap, 2 * h.hole)  b == Kid(h.heap, 2 * h.hole + 1)
  IN IF h.hole = 0 THEN h
     ELSE IF clock <= a /\ clock <= b
     THEN [heap |-> [h.heap EXCEPT ![h.hole] = clock], hole |-> 0]
     ELSE IF SmallerChild(a, b)
     THEN [heap |-> [h.heap EXCEPT ![h.hole] = a], hole |-> 2 * h.hole]
     ELSE [heap |-> [h.heap EXCEPT ![h.hole] = b], hole |-> 2 * h.hole + 1]

HeapReplace(heap, clock) ==
  FoldLeft(LAMBDA h, i : Sifted(h, clock), [heap |-> heap, hole |-> 1], heap).heap

\* The batch: always the earliest of the first commands of each stepper, until
\* one that uses the move queue is not wanted before move_clock.
Ready(b) == {s \in Compressors : b.msgs[s] # <<>>}
Req(b, s) == Head(b.msgs[s]).req
Earliest(b) == SelectSeq(ScList, LAMBDA s : s \in Ready(b) /\
                           \A r \in Ready(b) : Req(b, s) <= Req(b, r))[1]

TakeFrom(b, s, m) ==
  [msgs |-> [b.msgs EXCEPT ![s] = Tail(@)],
   heap |-> IF m.free # 0 THEN HeapReplace(b.heap, m.free) ELSE b.heap,
   sent |-> IF m.free # 0 THEN Append(b.sent, [avail |-> b.heap[1], free |-> m.free])
            ELSE b.sent]

Batched(b, move_clock) ==
  FoldLeft(LAMBDA d, i :
             IF Ready(d) = {} THEN d
             ELSE LET s == Earliest(d)  m == Head(d.msgs[s])
                  IN IF m.free # 0 /\ m.req > move_clock THEN d ELSE TakeFrom(d, s, m),
           b, FlattenSeq([i \in DOMAIN ScList |-> b.msgs[ScList[i]]]))

\* free_history
Expire(h, end) ==
  LET keep == {i \in DOMAIN h : h[i].last > end}
  IN IF keep = {} THEN <<>> ELSE SubSeq(h, 1, Max(keep))

FlushedBy(move_clock) ==
  [s \in Compressors |-> Flushed(Compressor(s), next_step_clock[s], next_step_dir[s], move_clock)]

\* steppersync_flush; all steps before move_clock have been generated.
Flush(move_clock, clear) == \E c \in {FlushedBy(move_clock)} :
  /\ \E s \in Compressors : c[s] # Compressor(s) \/ msg_queue[s] # <<>>
  /\ next_step_clock' = [s \in Compressors |->
                           IF move_clock >= next_step_clock[s] THEN 0
                           ELSE next_step_clock[s]]
  /\ step_queue' = [s \in Compressors |-> c[s].step_queue]
  /\ last_step_clock' = [s \in Compressors |-> c[s].lsc]
  /\ sdir' = [s \in Compressors |-> c[s].sdir]
  /\ sc_position' = [s \in Compressors |-> c[s].pos]
  /\ failed' = (\E s \in Compressors : c[s].failed)
  /\ asked' = [s \in Compressors |-> c[s].asked]
  /\ pulses' = [s \in Compressors |-> c[s].pulses]
  /\ IF failed' THEN msg_queue' = [s \in Compressors |-> c[s].msgs]
                     /\ history_list' = [s \in Compressors |-> c[s].history]
                     /\ UNCHANGED <<move_clocks, sent>>
     ELSE /\ \E b \in {Batched([msgs |-> [s \in Compressors |-> c[s].msgs],
                                heap |-> move_clocks, sent |-> sent], move_clock)} :
               msg_queue' = b.msgs /\ move_clocks' = b.heap /\ sent' = b.sent
          /\ history_list' = [s \in Compressors |-> Expire(c[s].history, clear)]
  /\ generated' = [s \in Compressors |-> Later(generated[s], move_clock)]
  /\ cleared' = Later(cleared, clear)
  /\ turn' = 1
  /\ UNCHANGED <<next_step_dir, net, mark, stepped, plan>>

StepsNext ==
  /\ ~failed
  /\ \/ \E s \in Compressors, gap \in plan.gaps, dir \in plan.dirs, extend \in BOOLEAN :
          StepAppend(s, gap, dir, extend)
     \/ \E s \in Compressors : Commit(s)
     \/ \E s \in Compressors, ahead \in {0, 3} : HomingEnd(s, 5, ahead)
     \/ \E s \in Compressors, back \in {0, 3}, clear \in {0, 4} :
          /\ generated[s] > back + clear /\ back + clear < 7
          /\ \A r \in Compressors : generated[r] <= generated[s]
          /\ Flush(generated[s] - back, clear)

StepsSpec == StepsInit /\ [][StepsNext]_stepVars

-----------------------------------------------------------------------------
(* Past positions.                                                         *)

\* Mutant: the time of the first step is not counted from the one before it.
Offset_First(h, clock) ==
  Cardinality({n \in 1..h.count : PulseAt(h, n) <= clock - h.first})

\* The steps of a line that have been made: ticks / interval, or a root of a
\* quadratic formula, rounded down
Offset(h, clock) ==
  LET ticks == clock - h.first + h.interval
      count == IF h.count < 0 THEN 0 - h.count ELSE h.count
      n == CHOOSE n \in 0..count :
             /\ n > 0 => PulseAt(h, n) <= ticks
             /\ n < count => ticks < PulseAt(h, n + 1)
  IN IF h.count < 0 THEN 0 - n ELSE n

\* stepcompress_find_past_position: the newest entry that has begun
FindPastPosition(s, clock) ==
  LET h == history_list[s]
      begun == {i \in DOMAIN h : clock >= h[i].first}
      e == h[Min(begun)]
  IN IF begun # {}
     THEN e.start + (IF clock >= e.last THEN e.count ELSE Offset(e, clock))
     ELSE IF h = <<>> THEN sc_position[s] ELSE h[Len(h)].start

-----------------------------------------------------------------------------
(* Properties.                                                             *)

\* Signed steps of a sequence of pulses
Signed(ps, Test(_)) ==
  Cardinality({i \in DOMAIN ps : ps[i].dir = 1 /\ Test(i)})
    - Cardinality({i \in DOMAIN ps : ps[i].dir = 0 /\ Test(i)})

\* What the controller is told makes the steps that were asked for: each in
\* its direction, in order, never late, and early by no more than max_error
\* and half of the time since the step before; check_line finds nothing.
PulsesTrue ==
  /\ ~failed
  /\ \A s \in Compressors : \A i \in DOMAIN pulses[s] :
       LET p == pulses[s][i]  a == asked[s][i] IN
       /\ p.dir = a.dir /\ p.clock <= a.clock /\ p.clock >= a.clock - MaxError
       /\ i > 1 => /\ p.clock > pulses[s][i - 1].clock
                   /\ 2 * (a.clock - p.clock) <= a.clock - pulses[s][i - 1].clock

\* No step is lost: those that were given are in a command, in the queue or
\* pending, but for a step and the step back that cancel each other.
NetKept == \A s \in Compressors :
  LET queued == Len(asked[s]) - Len(pulses[s])
      made == Signed(asked[s], LAMBDA i : i > Len(pulses[s]))
      pending == IF next_step_clock[s] = 0 THEN 0
                 ELSE IF next_step_dir[s] = 1 THEN 1 ELSE 0 - 1
  IN /\ ~failed => Len(step_queue[s]) = queued
     /\ net[s] = sc_position[s] + made + pending

\* the oldest clock of the history
Kept(s) == Later(cleared, IF history_list[s] = <<>> THEN mark[s].clock
                            ELSE Earlier(mark[s].clock, Last(history_list[s]).first))

\* the clocks at which positions change, and those before
Moments(s) == LET at == {pulses[s][i].clock : i \in DOMAIN pulses[s]} \cup {mark[s].clock}
              IN at \cup {clock - 1 : clock \in at}

\* A past position is the one of the pulses made until then, across a homing
\* that set the position anew, and as far back as the history is kept.
HistoryTrue == \A s \in Compressors : \A clock \in Moments(s) :
  clock >= Kept(s) => FindPastPosition(s, clock) =
    IF clock >= mark[s].clock
    THEN mark[s].pos + Signed(pulses[s], LAMBDA i : i > mark[s].after /\
                                                    pulses[s][i].clock <= clock)
    ELSE Signed(pulses[s], LAMBDA i : i <= mark[s].after /\ pulses[s][i].clock <= clock)

\* A command may be sent as soon as there is room for it in the controller's
\* move queue and no sooner, however those of several steppers follow.
QueueFits == \A i \in DOMAIN sent :
  LET avail == sent[i].avail IN
  /\ Cardinality({j \in 1..i - 1 : sent[j].free > avail}) < MoveNum
  /\ avail = 0 \/ Cardinality({j \in 1..i - 1 : sent[j].free >= avail}) >= MoveNum

\* What the compressor promises: the pulses are the steps asked for, the net
\* movement is kept, and the history tells where the stepper was.
StepsSound == PulsesTrue /\ NetKept /\ HistoryTrue
=============================================================================
