------------------------------ MODULE LinkProofs ------------------------------
(***************************************************************************)
(* Parts of the link to a micro-controller: for any queues, clocks and     *)
(* delays the background thread never sleeps past a command, and values    *)
(* that are extended with the last one known are right: the clocks of a    *)
(* controller that still answers, for any period, lateness and width, and  *)
(* the counts of the button reports and of bulk messages, whose clients    *)
(* are always served.  The reactor loses no wake-up of a timer, a          *)
(* completion or the mutex, and the mutex excludes.                        *)
(***************************************************************************)
EXTENDS CommandQueue, ClockSync, Buttons, BulkSensor, Reactor,
        SequenceTheorems, FiniteSetTheorems, TLAPS

-----------------------------------------------------------------------------
(* The background thread of the serial queue.  It never sleeps past a      *)
(* command because of need_kick_clock: as long as no wakeup is under way   *)
(* that is not earlier than the timer, so a command no sender wakes the    *)
(* thread for may wait for the timer.                                      *)


Command == [min : Int, req : Nat]

\* The marks of a queue are in order.
MarksInOrder ==
  \A q \in Queues : gone[q] <= moved[q] /\ moved[q] <= Len(log[q])

Asleep == bg = "idle" /\ waking = 0 /\ ~pipe /\ in_flight < MaxBlocks

\* A command that does not wake the thread is not due before the timer.
KickCovers == Asleep => cmd_timer = 0 \/ cmd_timer <= need_kick

CInv == CommandTypes /\ MarksInOrder /\ KickCovers /\ NotOverslept

-----------------------------------------------------------------------------
LEMMA CommandFields ==
  ASSUME NEW c \in Commands
  PROVE  NotTooEarly(c) \in Command
  BY QueueAssumption DEF Commands, Command, NotTooEarly

LEMMA BatchFields ==
  ASSUME NEW batch \in Batches
  PROVE  /\ batch \in Seq(Commands) /\ Len(batch) \in Nat /\ Len(batch) >= 1
         /\ batch[1] \in Commands /\ DOMAIN batch = 1..Len(batch)
<1>1. CASE \E c \in Commands : batch = <<c>>
  BY <1>1
<1>2. CASE \E c \in Commands, d \in Commands : batch = <<c, d>>
  BY <1>2
<1> QED  BY <1>1, <1>2 DEF Batches

\* What a queue holds after a batch was added to it.
LEMMA Joined ==
  ASSUME NEW s \in Seq(Command), NEW batch \in Batches
  PROVE  LET t == s \o [k \in DOMAIN batch |-> NotTooEarly(batch[k])] IN
         /\ t \in Seq(Command) /\ Len(t) >= Len(s)
         /\ \A k \in 1..Len(s) : t[k] = s[k]
         /\ t[Len(s) + 1] = NotTooEarly(batch[1])
<1> DEFINE u == [k \in DOMAIN batch |-> NotTooEarly(batch[k])]
<1>1. u \in Seq(Command) /\ Len(u) = Len(batch)
  <2>1. \A k \in 1..Len(batch) : NotTooEarly(batch[k]) \in Command
    BY CommandFields, BatchFields
  <2> QED  BY <2>1, BatchFields
<1>2. u[1] = NotTooEarly(batch[1])
  BY BatchFields
<1> HIDE DEF u
<1>3. /\ s \o u \in Seq(Command) /\ Len(s \o u) >= Len(s)
      /\ \A k \in 1..Len(s) : (s \o u)[k] = s[k]
      /\ (s \o u)[Len(s) + 1] = u[1]
  BY <1>1, BatchFields
<1> QED  BY <1>2, <1>3 DEF u

-----------------------------------------------------------------------------
LEMMA CommandInitInv == CommandInit => CInv
<1> SUFFICES ASSUME CommandInit PROVE CInv
  OBVIOUS
<1>1. \A q \in Queues : log[q] = << >> /\ moved[q] = 0 /\ gone[q] = 0
  BY DEF CommandInit
<1>2. log \in [Queues -> Seq(Command)]
  <2>1. << >> \in Seq(Command) /\ log = [q \in Queues |-> << >>]
    BY DEF CommandInit
  <2> QED  BY <2>1
<1>3. CommandTypes
  <2>1. moved \in Marks /\ gone \in Marks
    BY QueueAssumption DEF CommandInit, Marks
  <2>2. pipe \in BOOLEAN
    BY DEF CommandInit
  <2> QED
    BY <1>2, <2>1, <2>2, QueueAssumption DEF CommandInit, CommandTypes, Command
<1>4. MarksInOrder
  BY <1>1 DEF MarksInOrder
<1>5. NotOverslept
  BY <1>1 DEF NotOverslept
<1>6. KickCovers
  BY QueueAssumption DEF CommandInit, KickCovers
<1> QED  BY <1>3, <1>4, <1>5, <1>6 DEF CInv

\* The actions of the senders.
LEMMA SendBatchInv ==
  ASSUME CInv, NEW q \in Queues, NEW batch \in Batches, SendBatch(q, batch)
  PROVE  CInv'
<1> DEFINE new == log[q] \o [k \in DOMAIN batch |-> NotTooEarly(batch[k])]
           first == NotTooEarly(batch[1])
<1>1. log[q] \in Seq(Command) /\ log \in [Queues -> Seq(Command)]
  BY DEF CInv, CommandTypes, Command
<1>2. /\ new \in Seq(Command) /\ Len(new) >= Len(log[q])
      /\ \A k \in 1..Len(log[q]) : new[k] = log[q][k]
      /\ new[Len(log[q]) + 1] = first
  BY <1>1, Joined
<1>3. log' = [log EXCEPT ![q] = new]
  BY DEF SendBatch
<1>4. first \in Command
  BY CommandFields, BatchFields
<1>5. \/ MustWake(first) /\ need_kick' = 0 /\ waking' = waking + 1
      \/ ~MustWake(first) /\ need_kick' = need_kick /\ waking' = waking
  BY DEF SendBatch
<1>6. UNCHANGED <<moved, gone, pipe, cmd_timer, lineVars, bg, eventtime,
                  buflen, block, clock>>
  BY DEF SendBatch
<1> HIDE DEF new, first
<1>7. CommandTypes'
  BY <1>1, <1>2, <1>3, <1>5, <1>6 DEF CInv, CommandTypes, lineVars, Command
<1>8. MarksInOrder'
  BY <1>1, <1>2, <1>3, <1>6 DEF CInv, CommandTypes, MarksInOrder, Marks
<1>9. ASSUME Asleep', cmd_timer' # 0
      PROVE  /\ cmd_timer' <= need_kick'
             /\ \A p \in Queues :
                  /\ gone'[p] < moved'[p] =>
                       cmd_timer' <= LookAt(log[p][gone[p] + 1])'
                  /\ moved'[p] < Len(log'[p]) =>
                       cmd_timer' <= log'[p][moved'[p] + 1].min
  <2>1. Asleep /\ cmd_timer # 0 /\ ~MustWake(first) /\ need_kick' = need_kick
    BY <1>5, <1>6, <1>9 DEF Asleep, CInv, CommandTypes, lineVars
  <2>2. cmd_timer <= need_kick /\ cmd_timer <= first.min
    <3>1. cmd_timer <= need_kick /\ ~(first.min < need_kick)
      BY <2>1 DEF CInv, KickCovers, MustWake
    <3>2. first.min \in Int /\ cmd_timer \in Int /\ need_kick \in Int
      BY <1>4 DEF CInv, CommandTypes, Command
    <3> QED  BY <3>1, <3>2
  <2>3. ASSUME NEW p \in Queues
        PROVE  /\ gone[p] < moved[p] => log'[p][gone[p] + 1] = log[p][gone[p] + 1]
               /\ moved[p] < Len(log[p]) => log'[p][moved[p] + 1] = log[p][moved[p] + 1]
               /\ moved[p] < Len(log'[p]) =>
                    \/ moved[p] < Len(log[p])
                    \/ log'[p][moved[p] + 1] = first
    <3>1. /\ gone[p] \in Nat /\ moved[p] \in Nat /\ gone[p] <= moved[p]
          /\ moved[p] <= Len(log[p]) /\ Len(log[p]) \in Nat
      BY <1>1 DEF CInv, CommandTypes, MarksInOrder, Marks
    <3>2. CASE p # q
      BY <1>1, <1>3, <3>2
    <3>3. CASE p = q
      <4>1. log'[p] = new
        BY <1>1, <1>3, <3>3
      <4>2. gone[q] < moved[q] => new[gone[q] + 1] = log[q][gone[q] + 1]
        BY <1>2, <3>1, <3>3
      <4>3. moved[q] < Len(log[q]) => new[moved[q] + 1] = log[q][moved[q] + 1]
        BY <1>2, <3>1, <3>3
      <4>4. moved[q] < Len(log[q]) \/ moved[q] = Len(log[q])
        BY <3>1, <3>3
      <4> QED  BY <1>2, <3>3, <4>1, <4>2, <4>3, <4>4
    <3> QED  BY <3>2, <3>3
  <2>5. ASSUME NEW p \in Queues, gone[p] < moved[p]
        PROVE  cmd_timer <= LookAt(log[p][gone[p] + 1])
    BY <2>1, <2>5 DEF CInv, NotOverslept, Asleep
  <2>6. ASSUME NEW p \in Queues, moved[p] < Len(log[p])
        PROVE  cmd_timer <= log[p][moved[p] + 1].min
    BY <2>1, <2>6 DEF CInv, NotOverslept, Asleep
  <2>7. ASSUME NEW p \in Queues, gone[p] < moved[p]
        PROVE  (log[p][gone[p] + 1])' = log[p][gone[p] + 1]
    BY <1>6, <2>3, <2>7
  <2>8. ASSUME NEW p \in Queues, gone'[p] < moved'[p]
        PROVE  cmd_timer' <= LookAt(log[p][gone[p] + 1])'
    BY <1>6, <2>5, <2>7, <2>8 DEF LookAt, lineVars
  <2>9. ASSUME NEW p \in Queues, moved'[p] < Len(log'[p])
        PROVE  cmd_timer' <= log'[p][moved'[p] + 1].min
    BY <1>6, <2>2, <2>3, <2>6, <2>9
  <2> QED  BY <1>6, <2>1, <2>2, <2>8, <2>9
<1> QED  BY <1>7, <1>8, <1>9 DEF CInv, KickCovers, NotOverslept, Asleep

LEMMA KickThreadInv == ASSUME CInv, KickThread PROVE CInv'
  BY DEF CInv, CommandTypes, MarksInOrder, KickCovers, NotOverslept, Asleep,
         LookAt, KickThread, lineVars

-----------------------------------------------------------------------------
\* The events of the background thread.
LEMMA KickEventInv == ASSUME CInv, KickEvent PROVE CInv'
<1>1. pipe' = FALSE /\ pipe' \in BOOLEAN
  BY DEF KickEvent
<1>2. /\ cmd_timer' = 0
      /\ UNCHANGED <<log, moved, gone, need_kick, waking, lineVars, bg,
                     eventtime, buflen, block, clock>>
  BY DEF KickEvent
<1>3. CommandTypes' /\ MarksInOrder'
  BY <1>1, <1>2 DEF CInv, CommandTypes, MarksInOrder, lineVars
<1> QED
  BY <1>2, <1>3 DEF CInv, KickCovers, NotOverslept

LEMMA AckEventInv == ASSUME CInv, AckEvent PROVE CInv'
  BY DEF CInv, CommandTypes, MarksInOrder, KickCovers, NotOverslept, Asleep,
         LookAt, AckEvent, lineVars

LEMMA CommandEventInv == ASSUME CInv, CommandEvent PROVE CInv'
  BY DEF CInv, CommandTypes, MarksInOrder, KickCovers, NotOverslept, Asleep,
         LookAt, CommandEvent, lineVars

LEMMA WindowClosedInv == ASSUME CInv, WindowClosed PROVE CInv'
  BY QueueAssumption
  DEF CInv, CommandTypes, MarksInOrder, KickCovers, NotOverslept, Asleep,
      LookAt, WindowClosed, Sleep, LineFree, lineVars

LEMMA NothingToSendInv == ASSUME CInv, NothingToSend PROVE CInv'
<1> DEFINE R(c) == WantedBy(c)
<1>1. PICK want \in WakeClocks(moved') :
        /\ \A c \in WakeClocks(moved') : want <= c
        /\ need_kick' = want /\ Sleep(want)
  BY DEF NothingToSend
<1>2. moved' \in Marks /\ Stalls(moved') /\ in_flight < MaxBlocks
  BY DEF NothingToSend
<1>3. /\ cmd_timer' = want /\ need_kick' = want /\ bg' = "idle" /\ buflen' = 0
      /\ idle_time' = (IF buflen > 0 THEN LineFree + buflen ELSE idle_time)
      /\ UNCHANGED <<log, gone, waking, pipe, in_flight, block, clock>>
      /\ eventtime' = 0
  BY <1>1 DEF Sleep
<1>4. /\ log \in [Queues -> Seq(Command)] /\ gone \in Marks
      /\ idle_time \in Nat /\ buflen \in Nat /\ eventtime \in Nat
      /\ LineFree \in Nat
  BY DEF CInv, CommandTypes, Command, LineFree
<1>5. \A q \in Queues :
        /\ gone[q] \in Nat /\ gone[q] <= moved[q] /\ moved[q] \in Nat
        /\ moved'[q] \in moved[q]..Len(log[q]) /\ Len(log[q]) \in Nat
        /\ gone[q] <= moved'[q] /\ moved'[q] <= Len(log[q])
  BY <1>2, <1>4 DEF CInv, CommandTypes, MarksInOrder, Marks, Stalls
<1>6. \A q \in Queues : gone[q] < moved'[q] => log[q][gone[q] + 1] \in Command
  BY <1>4, <1>5
<1>7. \A q \in Queues : moved'[q] < Len(log[q]) => log[q][moved'[q] + 1] \in Command
  BY <1>4, <1>5
<1>8. \A c \in Command : WantedBy(c) \in Int
  BY <1>4, QueueAssumption DEF WantedBy, AckClock, Command
<1>9. want \in Int
  <2>1. CASE want \in StalledClocks(moved')
    BY <1>7, <2>1 DEF StalledClocks, Command
  <2>2. CASE \E c \in ReadyClocks(moved') : want = c - ReqDelta
    BY <1>6, <1>8, <2>2, QueueAssumption DEF ReadyClocks
  <2>3. CASE want = NoClock - ReqDelta
    BY <2>3, QueueAssumption
  <2> QED  BY <2>1, <2>2, <2>3 DEF WakeClocks
<1>10. CommandTypes'
  BY <1>2, <1>3, <1>4, <1>9 DEF CInv, CommandTypes
<1>11. MarksInOrder'
  BY <1>3, <1>5 DEF MarksInOrder
<1>12. ASSUME NEW q \in Queues, gone[q] < moved'[q]
       PROVE  want <= LookAt(log[q][gone[q] + 1])'
  <2>1. WantedBy(log[q][gone[q] + 1]) - ReqDelta \in WakeClocks(moved')
    BY <1>12 DEF WakeClocks, ReadyClocks
  <2>2. want <= WantedBy(log[q][gone[q] + 1]) - ReqDelta
    BY <1>1, <2>1
  <2>3. ASSUME NEW c \in Command, want <= WantedBy(c) - ReqDelta
        PROVE  want <= IF c.req # Background THEN c.req - ReqDelta
                       ELSE idle_time' + 1 + BgDelta
    <3>1. c.req \in Nat
      BY DEF Command
    <3>2. CASE c.req # Background
      BY <2>3, <3>2 DEF WantedBy
    <3>3. CASE c.req = Background /\ buflen > 0
      <4>1. idle_time' = LineFree + buflen
        BY <1>3, <3>3
      <4>2. WantedBy(c) = LineFree + buflen + 1 + ReqDelta + BgDelta
        BY <3>3, <1>4, QueueAssumption DEF WantedBy, AckClock
      <4> QED
        BY <1>4, <1>9, <2>3, <3>3, <4>1, <4>2, QueueAssumption
    <3>4. CASE c.req = Background /\ ~(buflen > 0)
      <4>1. idle_time' = idle_time
        BY <1>3, <3>4
      <4>2. WantedBy(c) = idle_time + ReqDelta + BgDelta
        BY <3>4, <1>4, QueueAssumption DEF WantedBy
      <4> QED
        BY <1>4, <1>9, <2>3, <3>4, <4>1, <4>2, QueueAssumption
    <3> QED  BY <3>2, <3>3, <3>4
  <2>4. log[q][gone[q] + 1] \in Command
    BY <1>6, <1>12
  <2>5. log' = log /\ gone' = gone
    BY <1>3
  <2> QED  BY <2>2, <2>3, <2>4, <2>5 DEF LookAt
<1>13. ASSUME NEW q \in Queues, moved'[q] < Len(log[q])
       PROVE  want <= log[q][moved'[q] + 1].min
  <2>1. log[q][moved'[q] + 1].min \in WakeClocks(moved')
    BY <1>13 DEF WakeClocks, StalledClocks
  <2> QED  BY <1>1, <2>1
<1> QED
  BY <1>3, <1>9, <1>10, <1>11, <1>12, <1>13
  DEF CInv, KickCovers, NotOverslept, LookAt

LEMMA StartBlockInv == ASSUME CInv, StartBlock PROVE CInv'
<1>1. MarksInOrder'
  <2>1. \A q \in Queues : moved'[q] \in moved[q]..Len(log[q])
    BY DEF StartBlock, Stalls
  <2> QED  BY <2>1 DEF CInv, CommandTypes, MarksInOrder, Marks, StartBlock
<1> QED
  BY <1>1 DEF CInv, CommandTypes, KickCovers, NotOverslept, Asleep, StartBlock,
              lineVars

LEMMA TakeCommandInv ==
  ASSUME CInv, NEW q \in Queues, TakeCommand(q) PROVE CInv'
<1>1. /\ gone' = [gone EXCEPT ![q] = @ + 1] /\ gone[q] < moved[q]
      /\ block' = block + 1 /\ bg = "build"
      /\ UNCHANGED <<log, moved, need_kick, waking, pipe, cmd_timer, lineVars,
                     bg, eventtime, buflen, clock>>
  BY DEF TakeCommand
<1>2. gone' \in Marks /\ MarksInOrder'
  BY <1>1, QueueAssumption DEF CInv, CommandTypes, MarksInOrder, Marks
<1> QED
  BY <1>1, <1>2
  DEF CInv, CommandTypes, KickCovers, NotOverslept, Asleep, lineVars

LEMMA CloseBlockInv == ASSUME CInv, CloseBlock PROVE CInv'
  BY DEF CInv, CommandTypes, MarksInOrder, KickCovers, NotOverslept, Asleep,
         CloseBlock, lineVars

LEMMA PassTimeInv == ASSUME CInv, PassTime PROVE CInv'
  BY DEF CInv, CommandTypes, MarksInOrder, KickCovers, NotOverslept, Asleep,
         LookAt, PassTime, lineVars

-----------------------------------------------------------------------------
LEMMA CommandNextInv == CInv /\ [CommandNext]_cqVars => CInv'
<1> SUFFICES ASSUME CInv, [CommandNext]_cqVars PROVE CInv'
  OBVIOUS
<1>1. CASE CommandNext
  BY <1>1, SendBatchInv, KickThreadInv, KickEventInv, AckEventInv,
     CommandEventInv, WindowClosedInv, NothingToSendInv, StartBlockInv,
     TakeCommandInv, CloseBlockInv, PassTimeInv
  DEF CommandNext
<1>2. CASE UNCHANGED cqVars
  BY <1>2
  DEF CInv, CommandTypes, MarksInOrder, KickCovers, NotOverslept, Asleep,
      LookAt, cqVars, lineVars
<1> QED  BY <1>1, <1>2

\* Whatever is queued and however the wakeups and acknowledgements interleave
\* with the rounds of command_event, the background thread never sleeps past
\* a command it could send (serialqueue.c:542-578, 800-812).
THEOREM NeverOverslept == CommandSpec => []NotOverslept
<1>1. CInv => NotOverslept
  BY DEF CInv
<1> QED
  BY <1>1, CommandInitInv, CommandNextInv, PTL DEF CommandSpec

-----------------------------------------------------------------------------
(* Clocks and button reports.                                              *)


LEMMA Division ==
  ASSUME NEW t \in Nat \ {0}, NEW a \in Int
  PROVE  a = t * (a \div t) + (a % t) /\ a \div t \in Int /\ a % t \in 0..(t - 1)
  OBVIOUS

\* A number is its remainder when it differs from it by whole turns.
LEMMA Remainder ==
  ASSUME NEW t \in Nat \ {0}, NEW k \in Int, NEW r \in 0..(t - 1), NEW a \in Int,
         a = t * k + r
  PROVE  a % t = r
<1>1. a = t * (a \div t) + (a % t) /\ a \div t \in Int /\ a % t \in 0..(t - 1)
  BY Division
<1> DEFINE j == (a \div t) - k
<1>2. t * j = r - (a % t) /\ j \in Int
  BY <1>1
<1>3. -t < t * j /\ t * j < t
  BY <1>1, <1>2
<1> HIDE DEF j
<1>4. j = 0
  BY <1>2, <1>3
<1> QED  BY <1>1, <1>2, <1>4

\* How far ahead a value seems to be of which only the remainder is known.
LEMMA AheadIs ==
  ASSUME NEW t \in Nat \ {0}, NEW last \in Int, NEW v \in Int, NEW k \in Int,
         NEW r \in 0..(t - 1), v - last = t * k + r
  PROVE  Ahead(last, v % t, t) = r
<1>1. v = t * (v \div t) + (v % t) /\ v \div t \in Int
  BY Division
<1>2. v % t \in 0..(t - 1)
  BY Division
<1> DEFINE a == (v % t) - last
           j == k - (v \div t)
<1>3. a \in Int /\ j \in Int /\ a = t * j + r
  BY <1>1, <1>2
<1> HIDE DEF a, j
<1>4. a % t = r
  BY <1>3, Remainder
<1> QED  BY <1>4 DEF Ahead, a

LEMMA AheadOf ==
  ASSUME NEW t \in Nat \ {0}, NEW last \in Int, NEW v \in Int,
         v - last \in 0..(t - 1)
  PROVE  Ahead(last, v % t, t) = v - last
<1> DEFINE k == 0
           r == v - last
<1>1. k \in Int /\ r \in 0..(t - 1) /\ v - last = t * k + r
  OBVIOUS
<1> HIDE DEF k, r
<1>2. Ahead(last, v % t, t) = r
  BY <1>1, AheadIs
<1> QED  BY <1>2 DEF r

LEMMA Behind ==
  ASSUME NEW t \in Nat \ {0}, NEW last \in Int, NEW v \in Int,
         v - last + t \in 0..(t - 1)
  PROVE  Ahead(last, v % t, t) = v - last + t
<1> DEFINE k == -1
           r == v - last + t
<1>1. k \in Int /\ r \in 0..(t - 1)
  OBVIOUS
<1>2. t * k = -t
  OBVIOUS
<1>3. v - last = t * k + r
  BY <1>2
<1> HIDE DEF k, r
<1>4. Ahead(last, v % t, t) = r
  BY <1>1, <1>3, AheadIs
<1> QED  BY <1>4 DEF r

LEMMA ForwardExact ==
  ASSUME NEW t \in Nat \ {0}, NEW last \in Int, NEW v \in Int,
         last <= v, v - last < t
  PROVE  ExtendForward(last, v % t, t) = v
<1>1. v - last \in 0..(t - 1)
  OBVIOUS
<1>2. Ahead(last, v % t, t) = v - last
  BY <1>1, AheadOf
<1> QED  BY <1>2 DEF ExtendForward

\* A value less than half a turn ahead, or at most that far behind.
LEMMA NearestExact ==
  ASSUME NEW t \in Nat \ {0}, NEW last \in Int, NEW v \in Int,
         v - last < t \div 2, last - v <= t \div 2
  PROVE  ExtendNearest(last, v % t, t) = v
<1> DEFINE h == t \div 2
<1>1. h \in Int /\ 2 * h <= t /\ t <= 2 * h + 1
  BY Division
<1>2. CASE last <= v
  <2>1. v - last \in 0..(t - 1)
    BY <1>1, <1>2
  <2>2. Ahead(last, v % t, t) = v - last
    BY <2>1, AheadOf
  <2> QED  BY <1>1, <2>2 DEF ExtendNearest
<1>3. CASE v < last
  <2>1. v - last + t \in 0..(t - 1)
    BY <1>1, <1>3
  <2>2. Ahead(last, v % t, t) = v - last + t
    BY <2>1, Behind
  <2> QED  BY <1>1, <2>2 DEF ExtendNearest
<1> QED  BY <1>2, <1>3

-----------------------------------------------------------------------------
(* The clock.                                                              *)

Period == QueryPeriod + Late

\* How long it has been silent at most when so many queries are pending.
Silence(n) == Delay + n * Period + since_query

\* The last clock is the one handled last, as long as the controller was not
\* given up; each answer underway is later, and not too old.
AnswersInOrder ==
  /\ is_timeout \/ last_clock = sampled
  /\ sampled <= mcu_clock
  /\ \A j \in 1..Len(answers) : sampled <= answers[j] /\ answers[j] <= mcu_clock
  /\ \A j, l \in 1..Len(answers) : j < l => answers[j] <= answers[l]
  /\ answers # << >> => mcu_clock <= Head(answers) + Delay

\* Every query adds at most one period to the silence.
SilenceBounded ==
  /\ since_query <= Period /\ since_check <= CheckPeriod + Late
  /\ mcu_clock - sampled <= Silence(queries_pending)

\* Between two rounds of statistics there are at most three queries, so that
\* no more than three are pending above what is_active allows.
PendingBounded ==
  /\ recent \in 0..3
  /\ recent = 1 => since_query <= since_check
  /\ recent = 2 => since_query + QueryPeriod <= since_check
  /\ recent = 3 => since_query + 2 * QueryPeriod <= since_check
  /\ is_timeout \/ queries_pending <= Unanswered + recent

ClockInv == ClockTypes /\ AnswersInOrder /\ SilenceBounded /\ PendingBounded

LEMMA PeriodType == Period \in Nat
  BY ClockAssumption DEF Period

LEMMA ClockInitInv == ClockInit => ClockInv
<1> SUFFICES ASSUME ClockInit PROVE ClockInv
  OBVIOUS
<1>1. answers = << >> /\ Len(answers) = 0 /\ answers \in Seq(Nat)
  BY DEF ClockInit
<1>2. is_timeout \in BOOLEAN
  BY DEF ClockInit
<1>3. ClockTypes
  BY <1>1, <1>2 DEF ClockInit, ClockTypes
<1>4. AnswersInOrder
  BY <1>1 DEF ClockInit, AnswersInOrder
<1>5. SilenceBounded
  BY ClockAssumption, PeriodType DEF ClockInit, SilenceBounded, Silence
<1>6. PendingBounded
  BY ClockAssumption DEF ClockInit, PendingBounded
<1> QED  BY <1>3, <1>4, <1>5, <1>6 DEF ClockInv

LEMMA GetClockEventInv == ASSUME ClockInv, GetClockEvent PROVE ClockInv'
<1>1. /\ since_query >= QueryPeriod /\ since_query' = 0
      /\ queries_pending' = queries_pending + 1 /\ recent' = recent + 1
      /\ asked' \in Nat
      /\ UNCHANGED <<mcu_clock, answers, last_clock, since_check, is_timeout,
                     sampled>>
  BY DEF GetClockEvent, Counted, ClockInv, ClockTypes
<1>2. ClockTypes' /\ AnswersInOrder'
  BY <1>1 DEF ClockInv, ClockTypes, AnswersInOrder
<1>3. SilenceBounded'
  <2>1. (queries_pending + 1) * Period = queries_pending * Period + Period
    BY PeriodType DEF ClockInv, ClockTypes
  <2>2. queries_pending * Period \in Int
    BY PeriodType DEF ClockInv, ClockTypes
  <2> QED
    BY <1>1, <2>1, <2>2, PeriodType, ClockAssumption
    DEF ClockInv, ClockTypes, SilenceBounded, Silence
<1>4. PendingBounded'
  <2>1. recent <= 2
    BY <1>1, ClockAssumption
    DEF ClockInv, ClockTypes, PendingBounded, SilenceBounded
  <2> QED
    BY <1>1, <2>1, ClockAssumption DEF ClockInv, ClockTypes, PendingBounded
<1> QED  BY <1>2, <1>3, <1>4 DEF ClockInv

LEMMA McuAnswersInv == ASSUME ClockInv, McuAnswers PROVE ClockInv'
<1>1. /\ asked' = asked - 1 /\ asked > 0 /\ answers' = Append(answers, mcu_clock)
      /\ UNCHANGED <<mcu_clock, last_clock, queries_pending, since_query,
                     since_check, is_timeout, sampled, recent>>
  BY DEF McuAnswers
<1>2. /\ answers \in Seq(Nat) /\ mcu_clock \in Nat
      /\ Len(answers') = Len(answers) + 1 /\ answers' \in Seq(Nat)
      /\ \A j \in 1..Len(answers) : answers'[j] = answers[j]
      /\ answers'[Len(answers) + 1] = mcu_clock /\ Len(answers) \in Nat
  BY <1>1 DEF ClockInv, ClockTypes
<1>3. ClockTypes'
  BY <1>1, <1>2 DEF ClockInv, ClockTypes
<1>4. AnswersInOrder'
  <2>1. \A j \in 1..Len(answers') :
          sampled <= answers'[j] /\ answers'[j] <= mcu_clock
    BY SMTT(30), <1>2 DEF ClockInv, ClockTypes, AnswersInOrder
  <2>2. ASSUME NEW j \in 1..Len(answers'), NEW l \in 1..Len(answers'), j < l
        PROVE  answers'[j] <= answers'[l]
    <3> DEFINE n == Len(answers)
    <3>0. j \in 1..(n + 1) /\ l \in 1..(n + 1) /\ n \in Nat
      BY <1>2
    <3>1. j \in 1..n /\ (l \in 1..n \/ l = n + 1)
      BY <2>2, <3>0
    <3>2. CASE l \in 1..Len(answers)
      BY <1>2, <2>2, <3>1, <3>2 DEF ClockInv, AnswersInOrder
    <3>3. CASE l = Len(answers) + 1
      BY <1>2, <3>1, <3>3 DEF ClockInv, AnswersInOrder
    <3> QED  BY <3>1, <3>2, <3>3
  <2>3. mcu_clock <= Head(answers') + Delay
    <3>1. CASE answers = << >>
      BY <1>1, <1>2, <3>1, ClockAssumption
    <3>2. CASE answers # << >>
      BY <1>1, <1>2, <3>2 DEF ClockInv, ClockTypes, AnswersInOrder
    <3> QED  BY <3>1, <3>2
  <2> QED
    BY <1>1, <2>1, <2>2, <2>3 DEF ClockInv, ClockTypes, AnswersInOrder
<1>5. SilenceBounded' /\ PendingBounded'
  BY <1>1 DEF ClockInv, SilenceBounded, PendingBounded, Silence
<1> QED  BY <1>3, <1>4, <1>5 DEF ClockInv

\* Without its first answer the rest is still in order.
LEMMA AnswersTail ==
  ASSUME ClockInv, answers # << >>
  PROVE  /\ Tail(answers) \in Seq(Nat) /\ Head(answers) \in Nat
         /\ sampled <= Head(answers) /\ Head(answers) <= mcu_clock
         /\ mcu_clock <= Head(answers) + Delay
         /\ \A j \in 1..Len(Tail(answers)) :
              /\ sampled <= Tail(answers)[j]
              /\ Head(answers) <= Tail(answers)[j]
              /\ Tail(answers)[j] <= mcu_clock
         /\ \A j, l \in 1..Len(Tail(answers)) :
              j < l => Tail(answers)[j] <= Tail(answers)[l]
         /\ Tail(answers) # << >> =>
              mcu_clock <= Head(Tail(answers)) + Delay
<1>1. /\ answers \in Seq(Nat) /\ Len(answers) \in Nat /\ Len(answers) >= 1
      /\ Head(answers) = answers[1] /\ Head(answers) \in Nat
      /\ Tail(answers) \in Seq(Nat) /\ Len(Tail(answers)) = Len(answers) - 1
      /\ \A j \in 1..Len(Tail(answers)) :
           /\ Tail(answers)[j] = answers[j + 1] /\ j + 1 \in 1..Len(answers)
           /\ Tail(answers)[j] \in Nat /\ 1 < j + 1
  BY DEF ClockInv, ClockTypes
<1>2. /\ mcu_clock \in Nat /\ sampled \in Nat
      /\ mcu_clock <= Head(answers) + Delay
      /\ \A j \in 1..Len(answers) : sampled <= answers[j] /\ answers[j] <= mcu_clock
      /\ \A j, l \in 1..Len(answers) : j < l => answers[j] <= answers[l]
  BY DEF ClockInv, ClockTypes, AnswersInOrder
<1>3. \A j \in 1..Len(Tail(answers)) :
        /\ sampled <= Tail(answers)[j]
        /\ Head(answers) <= Tail(answers)[j] /\ Tail(answers)[j] <= mcu_clock
  BY <1>1, <1>2
<1>4. \A j, l \in 1..Len(Tail(answers)) :
        j < l => Tail(answers)[j] <= Tail(answers)[l]
  BY <1>1, <1>2
<1>5. ASSUME Tail(answers) # << >>
      PROVE  mcu_clock <= Head(Tail(answers)) + Delay
  <2>1. 1 \in 1..Len(Tail(answers)) /\ Head(Tail(answers)) = Tail(answers)[1]
    BY <1>1, <1>5
  <2> QED  BY <1>1, <1>2, <1>3, <2>1, ClockAssumption
<1> QED  BY <1>1, <1>2, <1>3, <1>4, <1>5

LEMMA LoseAnswerInv == ASSUME ClockInv, LoseAnswer PROVE ClockInv'
<1>1. /\ answers # << >> /\ answers' = Tail(answers)
      /\ UNCHANGED <<mcu_clock, asked, last_clock, queries_pending,
                     since_query, since_check, is_timeout, sampled, recent>>
  BY DEF LoseAnswer
<1>2. ClockTypes'
  BY <1>1, AnswersTail DEF ClockInv, ClockTypes
<1>3. AnswersInOrder'
  BY <1>1, AnswersTail DEF ClockInv, AnswersInOrder
<1>4. SilenceBounded' /\ PendingBounded'
  BY <1>1 DEF ClockInv, SilenceBounded, PendingBounded, Silence
<1> QED  BY <1>2, <1>3, <1>4 DEF ClockInv

\* Silence is less than half a turn while the controller is not given up.
LEMMA SilenceShort ==
  ASSUME ClockInv, ~is_timeout
  PROVE  mcu_clock - sampled < Turn \div 2 /\ Delay < Turn \div 2
<1>1. queries_pending <= Unanswered + 3 /\ queries_pending \in Nat
  BY ClockAssumption DEF ClockInv, ClockTypes, PendingBounded
<1>2. queries_pending * Period <= (Unanswered + 3) * Period
  <2> DEFINE d == Unanswered + 3 - queries_pending
  <2>1. d \in Nat
    BY <1>1, ClockAssumption
  <2>2. d * Period \in Nat
    BY <2>1, PeriodType
  <2>3. (Unanswered + 3) * Period = queries_pending * Period + d * Period
    BY <1>1, PeriodType, ClockAssumption
  <2> HIDE DEF d
  <2>4. queries_pending * Period \in Int
    BY <1>1, PeriodType
  <2> QED  BY <2>2, <2>3, <2>4
<1>3. (Unanswered + 4) * Period = (Unanswered + 3) * Period + Period
  BY PeriodType, ClockAssumption
<1>4. Turn \div 2 > Delay + (Unanswered + 4) * Period
  BY ClockAssumption DEF Period
<1>5. /\ queries_pending * Period \in Int /\ (Unanswered + 3) * Period \in Nat
      /\ Turn \div 2 \in Int
  BY <1>1, PeriodType, ClockAssumption
<1> QED
  BY <1>2, <1>3, <1>4, <1>5, PeriodType, ClockAssumption
  DEF ClockInv, ClockTypes, SilenceBounded, Silence

LEMMA TurnType == Turn \in Nat \ {0} /\ Turn \div 2 \in Int /\ Turn \div 2 < Turn
<1>1. Turn \div 2 > 0
  <2>1. Turn \div 2 \in Int /\ (Unanswered + 4) * Period \in Nat
    BY PeriodType, ClockAssumption
  <2> QED  BY <2>1, ClockAssumption DEF Period
<1> QED  BY <1>1, ClockAssumption

LEMMA HandleClockInv == ASSUME ClockInv, HandleClock PROVE ClockInv'
<1>1. /\ answers # << >> /\ answers' = Tail(answers)
      /\ queries_pending' = 0 /\ sampled' = Head(answers)
      /\ last_clock' = ExtendForward(last_clock, Head(answers) % Turn, Turn)
      /\ UNCHANGED <<mcu_clock, asked, since_query, since_check, is_timeout,
                     recent>>
  BY DEF HandleClock
<1>2. last_clock' \in Int
  BY <1>1, AnswersTail, TurnType DEF ClockInv, ClockTypes, ExtendForward, Ahead
<1>3. ClockTypes'
  BY <1>1, <1>2, AnswersTail DEF ClockInv, ClockTypes
<1>4. ~is_timeout => last_clock' = Head(answers)
  <2> SUFFICES ASSUME ~is_timeout PROVE last_clock' = Head(answers)
    OBVIOUS
  <2>1. /\ last_clock = sampled /\ sampled \in Nat /\ mcu_clock \in Nat
        /\ mcu_clock - sampled < Turn \div 2
    BY SilenceShort, ClockAssumption
    DEF ClockInv, ClockTypes, AnswersInOrder
  <2>2. /\ sampled <= Head(answers) /\ Head(answers) <= mcu_clock
        /\ Head(answers) \in Nat
    BY <1>1, AnswersTail
  <2>3. Head(answers) - sampled < Turn
    BY <2>1, <2>2, TurnType
  <2> QED  BY <1>1, <2>1, <2>2, <2>3, TurnType, ForwardExact
<1>5. AnswersInOrder'
  BY <1>1, <1>4, AnswersTail DEF ClockInv, AnswersInOrder
<1>6. SilenceBounded'
  BY SMTT(30), <1>1, AnswersTail, PeriodType, ClockAssumption
  DEF ClockInv, ClockTypes, SilenceBounded, Silence
<1>7. PendingBounded'
  BY <1>1, ClockAssumption DEF ClockInv, ClockTypes, PendingBounded
<1> QED  BY <1>3, <1>5, <1>6, <1>7 DEF ClockInv

LEMMA CheckActiveInv == ASSUME ClockInv, CheckActive PROVE ClockInv'
<1>1. /\ since_check' = 0 /\ recent' = 0
      /\ is_timeout' = (is_timeout \/ ~IsActive)
      /\ UNCHANGED <<mcu_clock, asked, answers, last_clock, queries_pending,
                     since_query, sampled>>
  BY DEF CheckActive
<1>2. is_timeout' \in BOOLEAN /\ (is_timeout => is_timeout')
      /\ (~is_timeout' => queries_pending <= Unanswered)
  BY <1>1 DEF IsActive
<1>3. ClockTypes'
  BY <1>1, <1>2 DEF ClockInv, ClockTypes
<1>4. AnswersInOrder'
  BY <1>1, <1>2 DEF ClockInv, AnswersInOrder
<1>5. SilenceBounded'
  BY <1>1, ClockAssumption DEF ClockInv, SilenceBounded, Silence
<1>6. PendingBounded'
  BY <1>1, <1>2, ClockAssumption DEF ClockInv, ClockTypes, PendingBounded
<1> QED  BY <1>3, <1>4, <1>5, <1>6 DEF ClockInv

LEMMA ClockTicksInv == ASSUME ClockInv, ClockTicks PROVE ClockInv'
<1>1. /\ mcu_clock' = mcu_clock + 1
      /\ since_query < Period /\ since_query' = since_query + 1
      /\ since_check < CheckPeriod + Late /\ since_check' = since_check + 1
      /\ answers # << >> => mcu_clock < Head(answers) + Delay
      /\ UNCHANGED <<asked, answers, last_clock, queries_pending, is_timeout,
                     sampled, recent>>
  BY DEF ClockTicks, Period
<1>2. ClockTypes'
  BY <1>1 DEF ClockInv, ClockTypes
<1>3. AnswersInOrder'
  <2>1. \A j \in 1..Len(answers) : answers[j] \in Nat
    BY DEF ClockInv, ClockTypes
  <2>2. answers # << >> => Head(answers) \in Nat
    BY DEF ClockInv, ClockTypes
  <2> QED
    BY <1>1, <2>1, <2>2, ClockAssumption
    DEF ClockInv, ClockTypes, AnswersInOrder
<1>4. SilenceBounded'
  <2>1. queries_pending * Period \in Int
    BY PeriodType DEF ClockInv, ClockTypes
  <2> QED
    BY <1>1, <2>1, PeriodType, ClockAssumption
    DEF ClockInv, ClockTypes, SilenceBounded, Silence
<1>5. PendingBounded'
  BY <1>1, ClockAssumption DEF ClockInv, ClockTypes, PendingBounded
<1> QED  BY <1>2, <1>3, <1>4, <1>5 DEF ClockInv

LEMMA ClockNextInv == ClockInv /\ [ClockNext]_clockVars => ClockInv'
<1> SUFFICES ASSUME ClockInv, [ClockNext]_clockVars PROVE ClockInv'
  OBVIOUS
<1>1. CASE ClockNext
  BY <1>1, GetClockEventInv, McuAnswersInv, LoseAnswerInv, HandleClockInv,
     CheckActiveInv, ClockTicksInv
  DEF ClockNext
<1>2. CASE UNCHANGED clockVars
  BY <1>2 DEF clockVars, ClockInv, ClockTypes, AnswersInOrder, SilenceBounded,
              Silence, PendingBounded
<1> QED  BY <1>1, <1>2

\* Until a micro-controller is given up its clocks are extended correctly,
\* for every width, every period of the two timers, every lateness and every
\* loss that leave is_active the time to see it (clocksync.py:138-144).
THEOREM ClocksAreExact == ClockSpec => []ClocksExact
<1>1. ClockInv => ClocksExact
  <2> SUFFICES ASSUME ClockInv, ~is_timeout,
                      NEW v \in (mcu_clock - Delay)..mcu_clock
               PROVE  Clock32To64(v % Turn) = v
    BY DEF ClocksExact
  <2>1. /\ last_clock = sampled /\ sampled \in Nat /\ mcu_clock \in Nat
        /\ sampled <= mcu_clock
        /\ mcu_clock - sampled < Turn \div 2 /\ Delay < Turn \div 2
    BY SilenceShort, ClockAssumption DEF ClockInv, ClockTypes, AnswersInOrder
  <2>2. /\ v \in Int /\ v - last_clock < Turn \div 2
        /\ last_clock - v <= Turn \div 2 /\ last_clock \in Int
    BY <2>1, TurnType, ClockAssumption
  <2> QED  BY <2>2, TurnType, NearestExact DEF Clock32To64
<1> QED
  BY <1>1, ClockInitInv, ClockNextInv, PTL DEF ClockSpec

-----------------------------------------------------------------------------
(* The buttons.                                                            *)

\* The reports on the wire tell of more and more, and every one of what the
\* host has taken or more; none is further behind than the buffer is large.
ReportsInOrder ==
  /\ mcu_acked <= ack_count /\ ack_count <= pressed
  /\ pressed - mcu_acked <= MaxReports /\ taken.upto = ack_count
  /\ \A j \in 1..Len(wire) :
       /\ wire[j].ack <= ack_count /\ ack_count <= wire[j].upto
       /\ wire[j].upto <= pressed /\ wire[j].upto - wire[j].ack <= MaxReports
  /\ \A j, l \in 1..Len(wire) : j < l => wire[j].upto <= wire[l].upto

ButtonInv == ButtonTypes /\ ReportsInOrder

\* The report handled next, and those behind it.
LEMMA WireTail ==
  ASSUME ButtonInv, wire # << >>
  PROVE  /\ Tail(wire) \in Seq(Report) /\ Head(wire) \in Report
         /\ Head(wire).ack <= ack_count /\ ack_count <= Head(wire).upto
         /\ Head(wire).upto <= pressed
         /\ Head(wire).upto - Head(wire).ack <= MaxReports
         /\ \A j \in 1..Len(Tail(wire)) :
              /\ Tail(wire)[j].ack <= ack_count
              /\ ack_count <= Tail(wire)[j].upto
              /\ Head(wire).upto <= Tail(wire)[j].upto
              /\ Tail(wire)[j].upto <= pressed
              /\ Tail(wire)[j].upto - Tail(wire)[j].ack <= MaxReports
              /\ Tail(wire)[j].ack \in Nat
         /\ \A j, l \in 1..Len(Tail(wire)) :
              j < l => Tail(wire)[j].upto <= Tail(wire)[l].upto
<1>1. /\ wire \in Seq(Report) /\ Len(wire) \in Nat /\ Len(wire) >= 1
      /\ Head(wire) = wire[1] /\ Head(wire) \in Report
      /\ Tail(wire) \in Seq(Report) /\ Len(Tail(wire)) = Len(wire) - 1
      /\ \A j \in 1..Len(Tail(wire)) :
           /\ Tail(wire)[j] = wire[j + 1] /\ j + 1 \in 1..Len(wire)
           /\ Tail(wire)[j] \in Report /\ 1 < j + 1
  BY DEF ButtonInv, ButtonTypes
<1>2. \A r \in Report : r.ack \in Nat /\ r.upto \in Nat
  BY DEF Report
<1>3. /\ \A j \in 1..Len(wire) :
           /\ wire[j].ack <= ack_count /\ ack_count <= wire[j].upto
           /\ wire[j].upto <= pressed
           /\ wire[j].upto - wire[j].ack <= MaxReports
      /\ \A j, l \in 1..Len(wire) : j < l => wire[j].upto <= wire[l].upto
  BY DEF ButtonInv, ReportsInOrder
<1>4. 1 \in 1..Len(wire)
  BY <1>1
<1>5. \A j \in 1..Len(Tail(wire)) : Head(wire).upto <= Tail(wire)[j].upto
  BY <1>1, <1>3, <1>4
<1>6. \A j, l \in 1..Len(Tail(wire)) :
        j < l => Tail(wire)[j].upto <= Tail(wire)[l].upto
  BY <1>1, <1>3
<1>7. \A j \in 1..Len(Tail(wire)) :
        /\ Tail(wire)[j].ack <= ack_count /\ ack_count <= Tail(wire)[j].upto
        /\ Tail(wire)[j].upto <= pressed
        /\ Tail(wire)[j].upto - Tail(wire)[j].ack <= MaxReports
        /\ Tail(wire)[j].ack \in Nat
  BY <1>1, <1>2, <1>3
<1> QED  BY <1>1, <1>3, <1>4, <1>5, <1>6, <1>7

\* The count a report was sent with is found again.
LEMMA CountExact ==
  ASSUME ButtonInv, wire # << >>
  PROVE  MsgAckCount(Head(wire)) = Head(wire).ack
<1> DEFINE a == Head(wire).ack
<1>1. AckTurn \in Nat \ {0} /\ MaxReports \in Nat /\ MaxReports <= AckTurn \div 2
  BY ButtonAssumption
<1>2. AckTurn \div 2 \in Int /\ AckTurn \div 2 > 0
  BY ButtonAssumption
<1>3. /\ a \in Nat /\ ack_count \in Nat /\ Head(wire).upto \in Nat
      /\ a <= ack_count /\ ack_count <= Head(wire).upto
      /\ Head(wire).upto - a <= MaxReports
  BY WireTail DEF ButtonInv, ButtonTypes, Report
<1> HIDE DEF a
<1>4. ack_count - a <= AckTurn \div 2
  BY <1>1, <1>2, <1>3
<1>5. a - ack_count < AckTurn \div 2
  BY <1>2, <1>3
<1>6. ExtendNearest(ack_count, a % AckTurn, AckTurn) = a
  BY <1>1, <1>3, <1>4, <1>5, NearestExact
<1> QED  BY <1>6 DEF MsgAckCount, a

LEMMA ButtonInitInv == ButtonInit => ButtonInv
<1> SUFFICES ASSUME ButtonInit PROVE ButtonInv
  OBVIOUS
<1>1. wire = << >> /\ wire \in Seq(Report) /\ Len(wire) = 0
  BY DEF ButtonInit
<1>2. taken \in [from : Nat, upto : Nat] /\ taken.upto = 0
  BY DEF ButtonInit
<1> QED
  BY <1>1, <1>2, ButtonAssumption
  DEF ButtonInit, ButtonInv, ButtonTypes, ReportsInOrder

LEMMA SendReportInv == ASSUME ButtonInv, SendReport PROVE ButtonInv'
<1> DEFINE r == [ack |-> mcu_acked, upto |-> pressed]
<1>1. /\ wire' = Append(wire, r) /\ pressed > mcu_acked
      /\ UNCHANGED <<pressed, mcu_acked, ack_count, taken>>
  BY DEF SendReport
<1>2. r \in Report /\ r.ack = mcu_acked /\ r.upto = pressed
  BY DEF ButtonInv, ButtonTypes, Report
<1> HIDE DEF r
<1>3. /\ wire \in Seq(Report) /\ Len(wire) \in Nat
      /\ Len(wire') = Len(wire) + 1 /\ wire' \in Seq(Report)
      /\ \A j \in 1..Len(wire) : wire'[j] = wire[j]
      /\ wire'[Len(wire) + 1] = r
  BY <1>1, <1>2 DEF ButtonInv, ButtonTypes
<1>4. \A j \in 1..Len(wire') : j \in 1..Len(wire) \/ j = Len(wire) + 1
  BY <1>3
<1>5. \A j \in 1..Len(wire') :
        /\ wire'[j].ack <= ack_count /\ ack_count <= wire'[j].upto
        /\ wire'[j].upto <= pressed
        /\ wire'[j].upto - wire'[j].ack <= MaxReports
  <2>1. TAKE j \in 1..Len(wire')
  <2>2. CASE j \in 1..Len(wire)
    BY <1>3, <2>2 DEF ButtonInv, ReportsInOrder
  <2>3. CASE j = Len(wire) + 1
    BY <1>2, <1>3, <2>3 DEF ButtonInv, ButtonTypes, ReportsInOrder
  <2> QED  BY <1>4, <2>2, <2>3
<1>6. ASSUME NEW j \in 1..Len(wire'), NEW l \in 1..Len(wire'), j < l
      PROVE  wire'[j].upto <= wire'[l].upto
  <2>1. j \in 1..Len(wire)
    BY <1>3, <1>6
  <2>2. CASE l \in 1..Len(wire)
    BY <1>3, <1>6, <2>1, <2>2 DEF ButtonInv, ReportsInOrder
  <2>3. CASE l = Len(wire) + 1
    BY <1>2, <1>3, <2>1, <2>3 DEF ButtonInv, ReportsInOrder
  <2> QED  BY <1>4, <2>2, <2>3
<1> QED
  BY <1>1, <1>3, <1>5, <1>6 DEF ButtonInv, ButtonTypes, ReportsInOrder

LEMMA ButtonLossInv == ASSUME ButtonInv, LoseButtonReport PROVE ButtonInv'
  BY WireTail DEF ButtonInv, ButtonTypes, ReportsInOrder, LoseButtonReport

\* What a report brings, and where it begins.
LEMMA HandledIs ==
  ASSUME ButtonInv, HandleButtonsState
  PROVE  /\ wire # << >> /\ wire' = Tail(wire)
         /\ UNCHANGED <<pressed, mcu_acked>>
         /\ ack_count' = Head(wire).upto
         /\ \/ ack_count' = ack_count /\ taken' = taken
            \/ taken' = [from |-> ack_count + 1, upto |-> Head(wire).upto]
<1> DEFINE m == Head(wire)
           n == m.upto - ack_count
<1>1. wire # << >> /\ wire' = Tail(wire) /\ UNCHANGED <<pressed, mcu_acked>>
  BY DEF HandleButtonsState
<1>2. /\ m.ack \in Nat /\ m.upto \in Nat /\ ack_count \in Nat
      /\ m.ack <= ack_count /\ ack_count <= m.upto
  BY <1>1, WireTail DEF ButtonInv, ButtonTypes, Report
<1>3. MsgAckCount(m) + (m.upto - m.ack) - ack_count = n
  BY <1>1, <1>2, CountExact
<1>4. IF n <= 0 THEN ack_count' = ack_count /\ taken' = taken
      ELSE /\ ack_count' = ack_count + n
           /\ taken' = [from |-> IF n <= m.upto - m.ack THEN m.upto - n + 1
                                 ELSE m.ack + 1,
                        upto |-> m.upto]
  BY <1>3 DEF HandleButtonsState
<1>5. n <= m.upto - m.ack /\ m.upto - n + 1 = ack_count + 1
  BY <1>2
<1>6. CASE n <= 0
  BY <1>1, <1>2, <1>4, <1>6
<1>7. CASE ~(n <= 0)
  BY <1>1, <1>2, <1>4, <1>5, <1>7
<1> QED  BY <1>6, <1>7

LEMMA HandleButtonsInv == ASSUME ButtonInv, HandleButtonsState PROVE ButtonInv'
<1> DEFINE u == Head(wire).upto
<1>1. /\ wire # << >> /\ wire' = Tail(wire) /\ UNCHANGED <<pressed, mcu_acked>>
      /\ ack_count' = u
      /\ \/ ack_count' = ack_count /\ taken' = taken
         \/ taken' = [from |-> ack_count + 1, upto |-> u]
  BY HandledIs
<1>2. u \in Nat /\ ack_count \in Nat /\ ack_count <= u /\ u <= pressed
  BY <1>1, WireTail DEF ButtonInv, ButtonTypes, Report
<1> HIDE DEF u
<1>3. taken' \in [from : Nat, upto : Nat] /\ taken'.upto = ack_count'
  BY <1>1, <1>2 DEF ButtonInv, ButtonTypes, ReportsInOrder
<1>4. ButtonTypes'
  BY <1>1, <1>2, <1>3, WireTail DEF ButtonInv, ButtonTypes
<1>5. \A j \in 1..Len(wire') :
        /\ wire'[j].ack <= ack_count' /\ ack_count' <= wire'[j].upto
        /\ wire'[j].upto <= pressed
        /\ wire'[j].upto - wire'[j].ack <= MaxReports
  BY <1>1, <1>2, WireTail DEF u
<1>6. \A j, l \in 1..Len(wire') : j < l => wire'[j].upto <= wire'[l].upto
  BY <1>1, WireTail
<1> QED
  BY <1>1, <1>2, <1>3, <1>4, <1>5, <1>6
  DEF ButtonInv, ButtonTypes, ReportsInOrder

LEMMA ButtonNextInv == ButtonInv /\ [ButtonNext]_buttonVars => ButtonInv'
<1> SUFFICES ASSUME ButtonInv, [ButtonNext]_buttonVars PROVE ButtonInv'
  OBVIOUS
<1>0. \A j \in 1..Len(wire) : wire[j].upto \in Nat
  <2> SUFFICES ASSUME NEW j \in 1..Len(wire) PROVE wire[j].upto \in Nat
    OBVIOUS
  <2>1. wire \in Seq(Report)
    BY DEF ButtonInv, ButtonTypes
  <2>2. wire[j] \in Report
    BY <2>1
  <2> QED  BY <2>2 DEF Report
<1>1. CASE Press
  <2>1. /\ pressed' = pressed + 1 /\ pressed - mcu_acked < MaxReports
        /\ UNCHANGED <<mcu_acked, wire, ack_count, taken>>
    BY <1>1 DEF Press
  <2>2. ButtonTypes'
    BY <2>1 DEF ButtonInv, ButtonTypes
  <2>3. \A j \in 1..Len(wire) : wire[j].upto <= pressed'
    BY <1>0, <2>1 DEF ButtonInv, ButtonTypes, ReportsInOrder
  <2>4. ack_count <= pressed' /\ pressed' - mcu_acked <= MaxReports
    BY <2>1, ButtonAssumption DEF ButtonInv, ButtonTypes, ReportsInOrder
  <2> QED  BY <2>1, <2>2, <2>3, <2>4 DEF ButtonInv, ReportsInOrder
<1>2. CASE McuTakesAck
  <2>1. /\ mcu_acked' \in Nat /\ mcu_acked' <= ack_count
        /\ mcu_acked < mcu_acked'
        /\ UNCHANGED <<pressed, wire, ack_count, taken>>
    BY <1>2 DEF McuTakesAck, ButtonInv, ButtonTypes
  <2>2. ButtonTypes'
    BY <2>1 DEF ButtonInv, ButtonTypes
  <2>3. pressed - mcu_acked' <= MaxReports
    <3>1. /\ pressed \in Nat /\ mcu_acked \in Nat /\ MaxReports \in Nat
          /\ pressed - mcu_acked <= MaxReports
      BY ButtonAssumption DEF ButtonInv, ButtonTypes, ReportsInOrder
    <3>2. mcu_acked' \in Nat /\ mcu_acked < mcu_acked'
      BY <2>1
    <3>3. ASSUME NEW a \in Nat, NEW b \in Nat, NEW c \in Nat, NEW m \in Nat,
                 a - b <= m, b < c
          PROVE  a - c <= m
      BY <3>3
    <3> QED  BY <3>1, <3>2, <3>3, Zenon
  <2> QED  BY <2>1, <2>2, <2>3 DEF ButtonInv, ReportsInOrder
<1>3. CASE UNCHANGED buttonVars
  BY <1>3 DEF buttonVars, ButtonInv, ButtonTypes, ReportsInOrder
<1> QED
  BY <1>1, <1>2, <1>3, SendReportInv, ButtonLossInv, HandleButtonsInv
  DEF ButtonNext

\* Every change of the buttons is passed on once and in order, for every
\* width of the count that has room for the buffer (buttons.py:57-82).
THEOREM EachPressIsTakenOnce == ButtonSpec => EachPressOnce
<1>1. ButtonInv /\ [ButtonNext]_buttonVars =>
        (taken' # taken => taken'.from = taken.upto + 1)
  <2> SUFFICES ASSUME ButtonInv, [ButtonNext]_buttonVars, taken' # taken
               PROVE  taken'.from = taken.upto + 1
    OBVIOUS
  <2>1. HandleButtonsState
    BY DEF ButtonNext, Press, SendReport, LoseButtonReport, McuTakesAck,
           buttonVars
  <2>2. taken' = [from |-> ack_count + 1, upto |-> Head(wire).upto]
    BY <2>1, HandledIs
  <2> QED  BY <2>2 DEF ButtonInv, ReportsInOrder
<1> QED
  BY <1>1, ButtonInitInv, ButtonNextInv, PTL DEF ButtonSpec, EachPressOnce

-----------------------------------------------------------------------------
(* The reactor.                                                            *)

Tasks == Timers \cup Greenlets

Places == {"none", "poll", "timers", "callback", "switched", "paused", "spare"}

ReactorInTypes ==
  /\ ReactorTypes /\ at \in [Greenlets -> Places]
  /\ rest \in Seq(Tasks) /\ registered \in Seq(Tasks)
  /\ spare \in Seq(Greenlets) /\ queue \in Seq(Greenlets)

\* One greenlet runs; the dispatcher waits for it in a switch, unless it runs
\* itself. Those that wait for anything are paused, and only they have a time.
OneRuns ==
  /\ at[current] \in {"poll", "timers", "callback"}
  /\ current # g_dispatch => at[g_dispatch] = "switched" /\ at[current] = "callback"
  /\ \A g \in Greenlets : waits[g] # Nothing \/ waketime[g] # NEVER => at[g] = "paused"
  /\ \A n \in 1..Len(spare) : at[spare[n]] = "spare"
  /\ \A m, n \in 1..Len(spare) : m # n => spare[m] # spare[n]

\* The mutex is handed to those in its queue in turn; who waits stands there
\* once.
InQueue ==
  /\ \A n \in 1..Len(queue) : waits[queue[n]] = Mutex
  /\ \A m, n \in 1..Len(queue) : m # n => queue[m] # queue[n]
  /\ next_pending = TRUE => queue # << >>

DueWhenOver == \A g \in Greenlets : WaitIsOver(g) => waketime[g] = NOW

\* The dispatcher looks at a timer before its time, or still in this round.
LooksInTime ==
  \A n \in 1..Len(registered) : waketime[registered[n]] < next_timer =>
    \E k \in 1..Len(rest) : rest[k] = registered[n]

ReactorInv == ReactorInTypes /\ OneRuns /\ InQueue /\ DueWhenOver /\ LooksInTime

LEMMA Times == NOW \in Int /\ NOW = 0 /\ Later = 1 /\ NEVER = 2
BY DEF NOW, Later, NEVER

LEMMA SoonerIs ==
  ASSUME NEW a \in {NOW, Later, NEVER}, NEW b \in {NOW, Later, NEVER}
  PROVE  Sooner(a, b) \in {NOW, Later, NEVER} /\ Sooner(a, b) <= a /\ Sooner(a, b) <= b
BY DEF Sooner, NOW, Later, NEVER

LEMMA NoWakeupLostIs ==
  ASSUME ReactorInTypes
  PROVE  NoWakeupLost <=> DueWhenOver /\ LooksInTime
<1>1. /\ DOMAIN registered = 1..Len(registered) /\ DOMAIN rest = 1..Len(rest)
  BY DEF ReactorInTypes
<1>2. /\ Lists!ToSet(registered) = {registered[n] : n \in 1..Len(registered)}
      /\ Lists!ToSet(rest) = {rest[n] : n \in 1..Len(rest)}
  BY <1>1 DEF Lists!ToSet
<1> QED  BY <1>2 DEF NoWakeupLost, DueWhenOver, LooksInTime

(* When the dispatcher looks at once, it is late for nothing.              *)
LEMMA NothingIsMissed ==
  ASSUME NEW order \in Seq(Tasks), NEW times \in [Tasks -> {NOW, Later, NEVER}],
         NEW n \in 1..Len(order)
  PROVE  ~(times[order[n]] < NOW)
<1>1. order[n] \in Tasks
  OBVIOUS
<1> QED  BY <1>1, Times

(* A list without its last element.                                        *)
LEMMA Shortened ==
  ASSUME NEW S, NEW s \in Seq(S), s # << >>
  PROVE  /\ Lists!Front(s) \in Seq(S) /\ Len(Lists!Front(s)) = Len(s) - 1
         /\ \A n \in 1..Len(Lists!Front(s)) : Lists!Front(s)[n] = s[n]
<1>1. Len(s) \in Nat \ {0}
  OBVIOUS
<1>2. PICK m \in Nat : m = Len(s) - 1
  BY <1>1
<1>3. Lists!Front(s) = SubSeq(s, 1, m)
  BY <1>2 DEF Lists!Front
<1>4. \A n \in 1..m : s[n] \in S
  BY <1>1, <1>2
<1>5. /\ SubSeq(s, 1, m) \in Seq(S) /\ Len(SubSeq(s, 1, m)) = m
      /\ \A n \in 1..m : SubSeq(s, 1, m)[n] = s[n]
  BY <1>4
<1> QED  BY <1>2, <1>3, <1>5

(* A list without one of its elements.                                     *)
LEMMA Removed ==
  ASSUME NEW S, NEW s \in Seq(S), NEW k \in DOMAIN s, NEW r, r = Lists!RemoveAt(s, k)
  PROVE  r \in Seq(S) /\ \A n \in 1..Len(r) : \E m \in 1..Len(s) : r[n] = s[m]
<1>1. k \in 1..Len(s) /\ Len(s) \in Nat
  OBVIOUS
<1> DEFINE a == SubSeq(s, 1, k - 1)
           b == SubSeq(s, k + 1, Len(s))
<1>2. /\ a \in Seq(S) /\ Len(a) = k - 1 /\ \A n \in 1..Len(a) : a[n] = s[n]
  BY <1>1
<1>3. /\ b \in Seq(S) /\ Len(b) = Len(s) - k /\ \A n \in 1..Len(b) : b[n] = s[n + k]
  BY <1>1
<1>4. r = a \o b
  BY DEF Lists!RemoveAt
<1> HIDE DEF a, b
<1>5. /\ r \in Seq(S) /\ Len(r) = Len(a) + Len(b)
      /\ \A n \in 1..Len(r) : r[n] = IF n <= Len(a) THEN a[n] ELSE b[n - Len(a)]
  <2>1. a \in Seq(S) /\ b \in Seq(S)
    BY <1>2, <1>3
  <2>2. /\ a \o b \in Seq(S) /\ Len(a \o b) = Len(a) + Len(b)
        /\ \A n \in 1..Len(a) + Len(b) :
             (a \o b)[n] = IF n <= Len(a) THEN a[n] ELSE b[n - Len(a)]
    BY <2>1, ConcatProperties, Zenon
  <2> QED  BY <1>4, <2>2, Zenon
<1>6. ASSUME NEW n \in 1..Len(r) PROVE \E m \in 1..Len(s) : r[n] = s[m]
  <2>1. CASE n <= Len(a)
    <3>1. n \in 1..Len(a) /\ n \in 1..Len(s)
      BY <1>1, <1>2, <2>1
    <3> QED  BY <1>2, <1>5, <2>1, <3>1
  <2>2. CASE ~(n <= Len(a))
    <3>1. n - Len(a) \in 1..Len(b) /\ n - Len(a) + k \in 1..Len(s)
      <4>1. Len(a) = k - 1 /\ Len(b) = Len(s) - k /\ Len(r) = Len(a) + Len(b)
        BY <1>2, <1>3, <1>5
      <4>2. n \in Nat /\ n <= Len(s) - 1 /\ n > k - 1
        BY SMTT(30), <1>1, <4>1, <2>2
      <4>3. n - (k - 1) \in 1..Len(s) - k /\ n - (k - 1) + k \in 1..Len(s)
        BY <1>1, <4>2
      <4> QED  BY <4>1, <4>3
    <3> QED  BY <1>3, <1>5, <2>2, <3>1
  <2> QED  BY <2>1, <2>2
<1> QED  BY <1>5, <1>6

(* The greenlet that runs waits for nothing.                               *)
LEMMA RunsFreely ==
  ASSUME ReactorInv
  PROVE  /\ current \in Greenlets /\ waits[current] = Nothing /\ waketime[current] = NEVER
         /\ \A n \in 1..Len(spare) : spare[n] \in Greenlets /\ spare[n] # current
         /\ \A n \in 1..Len(queue) : queue[n] \in Greenlets /\ queue[n] # current
<1>1. current \in Greenlets /\ at[current] \in {"poll", "timers", "callback"}
  BY DEF ReactorInv, ReactorInTypes, ReactorTypes, OneRuns
<1>2. waits[current] = Nothing /\ waketime[current] = NEVER
  BY <1>1 DEF ReactorInv, OneRuns
<1>3. \A n \in 1..Len(spare) : spare[n] \in Greenlets /\ spare[n] # current
  BY <1>1 DEF ReactorInv, ReactorInTypes, OneRuns
<1>4. \A n \in 1..Len(queue) : queue[n] \in Greenlets /\ queue[n] # current
  BY <1>2 DEF ReactorInv, ReactorInTypes, InQueue, Mutex, Nothing
<1> QED  BY <1>1, <1>2, <1>3, <1>4

LEMMA ReactorInvInit == ReactorInit => ReactorInv
<1> SUFFICES ASSUME ReactorInit PROVE ReactorInv
  OBVIOUS
<1>1. PICK g \in Greenlets, order \in [1..Cardinality(Timers) -> Timers] :
    /\ current = g /\ g_dispatch = g
    /\ at = [h \in Greenlets |-> IF h = g THEN "poll" ELSE "none"]
    /\ calls = [h \in Greenlets |-> Nothing]
    /\ rest = << >> /\ spare = << >> /\ registered = order
    /\ waits = [h \in Greenlets |-> Nothing]
    /\ waketime = [t \in Timers \cup Greenlets |->
                     IF t \in Timers THEN NOW ELSE NEVER]
    /\ next_timer = NOW
    /\ result = {} /\ is_locked = FALSE /\ next_pending = FALSE
    /\ queue = << >> /\ owners = {}
  BY DEF ReactorInit
<1>2. order \in Seq(Tasks)
  <2>1. Cardinality(Timers) \in Nat
    BY ReactorAssumption, FS_CardinalityType
  <2>2. order \in [1..Cardinality(Timers) -> Timers]
    OBVIOUS
  <2>3. order \in [1..Cardinality(Timers) -> Tasks]
    BY <2>2 DEF Tasks
  <2> QED  BY <2>1, <2>3
<1>3. ReactorInTypes
  BY <1>1, <1>2 DEF ReactorInTypes, ReactorTypes, Places
<1>4. Len(spare) = 0 /\ Len(queue) = 0 /\ Len(rest) = 0
  BY <1>1
<1>5. OneRuns
  BY <1>1, <1>4, ReactorAssumption DEF OneRuns
<1>6. InQueue
  BY <1>1, <1>4 DEF InQueue
<1>7. DueWhenOver
  BY <1>1, ReactorAssumption DEF DueWhenOver, WaitIsOver, Mutex, Nothing
<1>8. LooksInTime
  <2>1. registered \in Seq(Tasks) /\ waketime \in [Tasks -> {NOW, Later, NEVER}]
    BY <1>3 DEF ReactorInTypes, ReactorTypes, Tasks
  <2>2. next_timer = NOW
    BY <1>1
  <2> QED  BY <2>1, <2>2, NothingIsMissed DEF LooksInTime
<1> QED  BY <1>3, <1>5, <1>6, <1>7, <1>8 DEF ReactorInv

LEMMA CheckTimersInv == ReactorInv /\ CheckTimers => ReactorInv'
<1> SUFFICES ASSUME ReactorInv, CheckTimers PROVE ReactorInv'
  OBVIOUS
<1>1. PICK passed \in BOOLEAN :
        LET Aged(w) == IF passed /\ w = Later THEN NOW ELSE w IN
        /\ waketime' = [t \in DOMAIN waketime |-> Aged(waketime[t])]
        /\ IF Aged(next_timer) = NOW
           THEN /\ next_timer' = NEVER /\ rest' = registered
                /\ at' = [at EXCEPT ![current] = "timers"]
           ELSE /\ next_timer' = Aged(next_timer) /\ UNCHANGED <<rest, at>>
  BY DEF CheckTimers
<1>2. /\ current = g_dispatch /\ at[current] = "poll"
      /\ UNCHANGED <<current, g_dispatch, calls, waits, spare, registered, result,
                     is_locked, next_pending, queue, owners>>
  BY DEF CheckTimers, Dispatching, mutexVars
<1>t. ReactorInTypes
  BY DEF ReactorInv
<1>3. \A t \in Tasks :
        /\ waketime'[t] \in {NOW, Later, NEVER}
        /\ waketime'[t] # waketime[t] => waketime[t] = Later /\ waketime'[t] = NOW /\ passed
  BY <1>1, <1>t DEF ReactorInTypes, ReactorTypes, Tasks
<1>4. waketime' \in [Tasks -> {NOW, Later, NEVER}]
  <2>1. waketime' = [t \in Tasks |-> waketime'[t]]
    BY <1>1, <1>t DEF ReactorInTypes, ReactorTypes, Tasks
  <2> QED  BY <2>1, <1>3
<1>5. \/ next_timer' = NEVER /\ rest' = registered /\ at' = [at EXCEPT ![current] = "timers"]
      \/ /\ UNCHANGED <<rest, at>> /\ next_timer' \in {Later, NEVER}
         /\ next_timer' = next_timer /\ (passed => next_timer = NEVER)
  BY <1>1, <1>t, Times DEF ReactorInTypes, ReactorTypes
<1>6. ReactorInTypes'
  BY <1>2, <1>4, <1>5, <1>t DEF ReactorInTypes, ReactorTypes, Places, Tasks
<1>7. OneRuns'
  <2>1. \A g \in Greenlets : waketime'[g] # NEVER => waketime[g] # NEVER
    BY <1>3, Times DEF Tasks
  <2>2. at'[current] \in {"poll", "timers"} /\ \A g \in Greenlets : g # current => at'[g] = at[g]
    BY <1>2, <1>5, <1>t DEF ReactorInTypes, ReactorTypes
  <2>3. current \in Greenlets /\ \A n \in 1..Len(spare) : spare[n] \in Greenlets
    BY <1>t DEF ReactorInTypes, ReactorTypes
  <2> QED  BY <2>1, <2>2, <2>3, <1>2 DEF ReactorInv, OneRuns
<1>8. InQueue'
  BY <1>2 DEF ReactorInv, InQueue
<1>9. DueWhenOver'
  BY <1>2, <1>3, Times DEF ReactorInv, DueWhenOver, WaitIsOver, Tasks
<1>10. LooksInTime'
  <2>1. CASE rest' = registered
    BY <2>1, <1>2 DEF LooksInTime
  <2>2. CASE /\ UNCHANGED <<rest, at>> /\ next_timer' \in {Later, NEVER}
             /\ next_timer' = next_timer /\ (passed => next_timer = NEVER)
    <3>1. \A n \in 1..Len(registered) : registered[n] \in Tasks
      BY <1>t DEF ReactorInTypes
    <3>2. \A t \in Tasks : waketime'[t] < next_timer' => waketime[t] < next_timer
      BY <2>2, <1>3, Times
    <3> QED  BY <3>1, <3>2, <2>2, <1>2 DEF ReactorInv, LooksInTime
  <2> QED  BY <2>1, <2>2, <1>5
<1> QED  BY <1>6, <1>7, <1>8, <1>9, <1>10 DEF ReactorInv

LEMMA LoopEndsInv == ReactorInv /\ LoopEnds => ReactorInv'
<1> SUFFICES ASSUME ReactorInv, LoopEnds PROVE ReactorInv'
  OBVIOUS
<1>1. /\ current = g_dispatch /\ at[current] = "timers"
      /\ at' = [at EXCEPT ![current] = "poll"]
      /\ UNCHANGED <<current, g_dispatch, calls, rest, waits, spare, registered,
                     waketime, next_timer, result, is_locked, next_pending, queue,
                     owners>>
  BY DEF LoopEnds, Dispatching, mutexVars
<1>2. ReactorInTypes
  BY DEF ReactorInv
<1>3. ReactorInTypes'
  BY <1>1, <1>2 DEF ReactorInTypes, ReactorTypes, Places
<1>4. OneRuns'
  BY <1>1, <1>2 DEF ReactorInv, OneRuns, ReactorInTypes, ReactorTypes
<1>5. InQueue' /\ DueWhenOver' /\ LooksInTime'
  BY <1>1 DEF ReactorInv, InQueue, DueWhenOver, LooksInTime, WaitIsOver
<1> QED  BY <1>3, <1>4, <1>5 DEF ReactorInv

(* The loop goes on to the next timer: those that remain are the others.   *)
LEMMA Visited ==
  ASSUME ReactorInTypes, LooksInTime, rest # << >>, rest' = Tail(rest),
         UNCHANGED registered,
         waketime' \in [Tasks -> {NOW, Later, NEVER}],
         next_timer' \in {NOW, Later, NEVER}, next_timer' <= next_timer,
         next_timer' <= waketime'[Head(rest)],
         \A t \in Tasks : t # Head(rest) => waketime'[t] = waketime[t]
  PROVE  LooksInTime' /\ rest' \in Seq(Tasks) /\ Head(rest) \in Tasks
<1>1. /\ rest \in Seq(Tasks) /\ registered \in Seq(Tasks)
      /\ waketime \in [Tasks -> {NOW, Later, NEVER}] /\ next_timer \in {NOW, Later, NEVER}
  BY DEF ReactorInTypes, ReactorTypes, Tasks
<1>2. Head(rest) \in Tasks /\ Tail(rest) \in Seq(Tasks)
  BY <1>1
<1>3. ASSUME NEW n \in 1..Len(registered), waketime'[registered[n]] < next_timer'
      PROVE  \E k \in 1..Len(rest') : rest'[k] = registered[n]
  <2>1. registered[n] \in Tasks
    BY <1>1
  <2>2. registered[n] # Head(rest)
    BY <1>3, <1>2, <2>1, Times
  <2>3. waketime[registered[n]] < next_timer
    BY <1>1, <1>3, <2>1, <2>2, Times
  <2>4. PICK k \in 1..Len(rest) : rest[k] = registered[n]
    BY <2>3 DEF LooksInTime
  <2>5. Head(rest) = rest[1]
    BY <1>1
  <2>6. k # 1
    BY <2>2, <2>4, <2>5
  <2>7. k - 1 \in 1..Len(Tail(rest)) /\ Tail(rest)[k - 1] = rest[k]
    BY <1>1, <2>4, <2>6
  <2> QED  BY <2>4, <2>7
<1> QED  BY <1>2, <1>3 DEF LooksInTime

LEMMA VisitTimerInv == ReactorInv /\ VisitTimer => ReactorInv'
<1> SUFFICES ASSUME ReactorInv, VisitTimer PROVE ReactorInv'
  OBVIOUS
<1> DEFINE t == Head(rest)
<1>1. /\ current = g_dispatch /\ at[current] = "timers"
      /\ rest # << >> /\ rest' = Tail(rest)
      /\ UNCHANGED <<g_dispatch, spare, registered, result>>
  BY DEF VisitTimer, Dispatching
<1>2. ReactorInTypes /\ LooksInTime
  BY DEF ReactorInv
<1>3. t \in Tasks
  BY <1>1, <1>2 DEF ReactorInTypes
<1>4. /\ waketime \in [Tasks -> {NOW, Later, NEVER}] /\ next_timer \in {NOW, Later, NEVER}
      /\ current \in Greenlets /\ at \in [Greenlets -> Places]
      /\ waits \in [Greenlets -> Completions \cup {Mutex, Nothing}]
      /\ calls \in [Greenlets -> Timers \cup {Input, Nothing}]
      /\ spare \in Seq(Greenlets) /\ queue \in Seq(Greenlets) /\ owners \subseteq Greenlets
      /\ result \subseteq Completions
  BY <1>2 DEF ReactorInTypes, ReactorTypes, Tasks
<1> HIDE DEF t
<1>5. CASE waketime[t] # NOW
  <2>1. /\ next_timer' = Sooner(next_timer, waketime[t])
        /\ UNCHANGED <<current, at, calls, waits, waketime, is_locked, next_pending,
                       queue, owners>>
    BY <1>5 DEF VisitTimer, mutexVars, t
  <2>2. /\ next_timer' \in {NOW, Later, NEVER} /\ next_timer' <= next_timer
        /\ next_timer' <= waketime[t]
    BY <1>3, <1>4, <2>1, SoonerIs
  <2>3. LooksInTime' /\ rest' \in Seq(Tasks)
    BY <1>1, <1>2, <1>4, <2>1, <2>2, Visited DEF t
  <2>4. ReactorInTypes'
    BY <1>1, <1>2, <2>1, <2>2, <2>3 DEF ReactorInTypes, ReactorTypes
  <2>5. OneRuns' /\ InQueue' /\ DueWhenOver'
    BY <1>1, <2>1 DEF ReactorInv, OneRuns, InQueue, DueWhenOver, WaitIsOver
  <2> QED  BY <2>3, <2>4, <2>5 DEF ReactorInv
<1>6. CASE waketime[t] = NOW
  <2>1. /\ waketime' = [waketime EXCEPT ![t] = NEVER] /\ next_timer' = next_timer
        /\ IF t \in Timers THEN Call(t) ELSE SwitchTo(t)
    BY <1>6 DEF VisitTimer, t
  <2>2. /\ waketime' \in [Tasks -> {NOW, Later, NEVER}] /\ waketime'[t] = NEVER
        /\ \A u \in Tasks : u # t => waketime'[u] = waketime[u]
    BY <1>3, <1>4, <2>1
  <2>3. LooksInTime' /\ rest' \in Seq(Tasks)
    <3>1. next_timer' <= next_timer /\ next_timer' <= waketime'[t]
      BY <1>4, <2>1, <2>2, Times
    <3> QED  BY <1>1, <1>2, <1>4, <2>1, <2>2, <3>1, Visited DEF t
  <2>4. CASE t \in Timers
    <3>1. /\ at' = [at EXCEPT ![current] = "callback"]
          /\ calls' = [calls EXCEPT ![current] = t]
          /\ UNCHANGED <<current, waits, is_locked, next_pending, queue, owners>>
      BY <2>1, <2>4 DEF Call, mutexVars
    <3>2. ReactorInTypes'
      BY <1>1, <1>2, <1>4, <2>1, <2>2, <2>3, <2>4, <3>1
      DEF ReactorInTypes, ReactorTypes, Places, Tasks
    <3>3. \A g \in Greenlets : waketime'[g] = waketime[g]
      BY <2>2, <2>4, ReactorAssumption DEF Tasks
    <3>4. OneRuns'
      <4>1. at'[current] = "callback" /\ \A g \in Greenlets : g # current => at'[g] = at[g]
        BY <1>4, <3>1
      <4>2. UNCHANGED <<current, g_dispatch, spare, waits>>
        BY <1>1, <3>1
      <4>3. \A g \in Greenlets : waits'[g] # Nothing \/ waketime'[g] # NEVER =>
              g # current /\ waits[g] = waits'[g] /\ waketime'[g] = waketime[g]
        BY <3>3, <4>2, RunsFreely
      <4>4. \A n \in 1..Len(spare) : spare[n] \in Greenlets /\ spare[n] # current
        BY RunsFreely
      <4> QED  BY <1>1, <4>1, <4>2, <4>3, <4>4 DEF ReactorInv, OneRuns
    <3>5. InQueue' /\ DueWhenOver'
      BY <1>1, <3>1, <3>3 DEF ReactorInv, InQueue, DueWhenOver, WaitIsOver
    <3> QED  BY <2>3, <3>2, <3>4, <3>5 DEF ReactorInv
  <2>5. CASE t \notin Timers
    <3>1. t \in Greenlets /\ SwitchTo(t)
      BY <1>3, <2>1, <2>5 DEF Tasks
    <3>2. calls' = calls
      BY <3>1 DEF SwitchTo
    <3>3. CASE waits[t] = Mutex /\ ~(next_pending /\ Head(queue) = t)
      <4>1. UNCHANGED <<current, at, waits, is_locked, next_pending, queue, owners>>
        BY <3>1, <3>3 DEF SwitchTo, mutexVars
      <4>2. ReactorInTypes'
        BY <1>1, <1>2, <1>4, <2>1, <2>2, <2>3, <3>2, <4>1
        DEF ReactorInTypes, ReactorTypes, Tasks
      <4>3. OneRuns'
        <5>1. \A g \in Greenlets : waketime'[g] # NEVER => waketime[g] # NEVER
          BY <2>2, <3>1 DEF Tasks
        <5> QED  BY <1>1, <4>1, <5>1 DEF ReactorInv, OneRuns
      <4>4. DueWhenOver'
        <5>1. ~WaitIsOver(t)
          BY <3>3, <1>4, ReactorAssumption DEF WaitIsOver
        <5>2. \A g \in Greenlets : g # t => waketime'[g] = waketime[g]
          BY <2>2 DEF Tasks
        <5> QED  BY <1>1, <4>1, <5>1, <5>2 DEF ReactorInv, DueWhenOver, WaitIsOver
      <4>5. InQueue'
        BY <4>1 DEF ReactorInv, InQueue
      <4> QED  BY <2>3, <4>2, <4>3, <4>4, <4>5 DEF ReactorInv
    <3>4. CASE ~(waits[t] = Mutex /\ ~(next_pending /\ Head(queue) = t))
      <4>1. /\ current' = t
            /\ at' = [at EXCEPT ![current] = "switched", ![t] = "callback"]
            /\ waits' = [waits EXCEPT ![t] = Nothing]
            /\ IF waits[t] = Mutex
               THEN /\ next_pending' = FALSE /\ queue' = Tail(queue)
                    /\ owners' = owners \cup {t} /\ UNCHANGED is_locked
               ELSE UNCHANGED <<is_locked, next_pending, queue, owners>>
        BY <3>1, <3>4 DEF SwitchTo, mutexVars
      <4>2. at[t] = "paused"
        BY <1>6, <3>1, Times DEF ReactorInv, OneRuns
      <4>3. t # current
        BY <1>1, <4>2
      <4>4. /\ at' \in [Greenlets -> Places] /\ at'[t] = "callback"
            /\ at'[current] = "switched"
            /\ \A g \in Greenlets : g \notin {t, current} => at'[g] = at[g]
        BY <1>4, <3>1, <4>1, <4>3 DEF Places
      <4>5. /\ waits' \in [Greenlets -> Completions \cup {Mutex, Nothing}]
            /\ waits'[t] = Nothing
            /\ \A g \in Greenlets : g # t => waits'[g] = waits[g]
        BY <1>4, <3>1, <4>1
      <4>6. waits[t] = Mutex => next_pending = TRUE /\ queue # << >> /\ Head(queue) = t
        <5>1. waits[t] = Mutex => next_pending = TRUE /\ Head(queue) = t
          BY <3>4, <1>2 DEF ReactorInTypes, ReactorTypes
        <5> QED  BY <5>1 DEF ReactorInv, InQueue
      <4>7. queue' \in Seq(Greenlets) /\ owners' \subseteq Greenlets
        <5>1. queue # << >> => Tail(queue) \in Seq(Greenlets)
          BY <1>4
        <5>2. queue' \in Seq(Greenlets)
          BY <1>4, <4>1, <4>6, <5>1
        <5>3. owners' = owners \/ owners' = owners \cup {t}
          BY <4>1
        <5> QED  BY <1>4, <3>1, <5>2, <5>3
      <4>8. ReactorInTypes'
        BY <1>1, <1>2, <1>4, <2>1, <2>2, <2>3, <3>1, <3>2, <4>1, <4>4, <4>5, <4>7
        DEF ReactorInTypes, ReactorTypes, Tasks
      <4>9. OneRuns'
        <5>1. \A g \in Greenlets : g # t => waketime'[g] = waketime[g]
          BY <2>2 DEF Tasks
        <5>2. \A n \in 1..Len(spare) : spare[n] \in Greenlets /\ spare[n] \notin {t, current}
          BY <1>1, <1>4, <4>2 DEF ReactorInv, OneRuns
        <5>3. \A g \in Greenlets : waits'[g] # Nothing \/ waketime'[g] # NEVER =>
                at'[g] = "paused"
          <6> TAKE g \in Greenlets
          <6>1. CASE g = t
            BY <6>1, <4>5, <2>2
          <6>2. CASE g # t
            BY <6>2, <4>5, <5>1, <4>4, <1>1 DEF ReactorInv, OneRuns
          <6> QED  BY <6>1, <6>2
        <5>4. \A n \in 1..Len(spare) : at'[spare[n]] = "spare"
          BY <5>2, <4>4 DEF ReactorInv, OneRuns
        <5>5. \A m, n \in 1..Len(spare) : m # n => spare[m] # spare[n]
          BY DEF ReactorInv, OneRuns
        <5>6. spare' = spare /\ g_dispatch' = g_dispatch /\ current' = t
          BY <1>1, <4>1
        <5>7. at'[g_dispatch] = "switched" /\ at'[t] = "callback"
          BY <1>1, <4>4
        <5> QED  BY <5>3, <5>4, <5>5, <5>6, <5>7 DEF OneRuns
      <4>10. InQueue'
        <5>1. CASE waits[t] = Mutex
          <6>1. queue' = Tail(queue) /\ next_pending' = FALSE /\ queue # << >> /\ queue[1] = t
            BY <4>1, <4>6, <5>1, <1>4
          <6>2. Len(queue') = Len(queue) - 1 /\ \A n \in 1..Len(queue') :
                  n + 1 \in 1..Len(queue) /\ queue'[n] = queue[n + 1]
            BY <6>1, <1>4
          <6>3. 1 \in 1..Len(queue)
            BY <6>1, <1>4
          <6>4. \A n \in 1..Len(queue') : queue'[n] # t /\ queue'[n] \in Greenlets
            BY <6>1, <6>2, <6>3, <1>4 DEF ReactorInv, InQueue
          <6>5. \A n \in 1..Len(queue') : waits'[queue'[n]] = Mutex
            BY <6>2, <6>4, <4>5 DEF ReactorInv, InQueue
          <6>6. \A m, n \in 1..Len(queue') : m # n => queue'[m] # queue'[n]
            BY <6>2 DEF ReactorInv, InQueue
          <6> QED  BY <6>1, <6>5, <6>6 DEF InQueue
        <5>2. CASE waits[t] # Mutex
          <6>1. UNCHANGED <<next_pending, queue>>
            BY <4>1, <5>2
          <6>2. \A n \in 1..Len(queue) : queue[n] # t /\ queue[n] \in Greenlets
            BY <5>2, <1>4 DEF ReactorInv, InQueue
          <6> QED  BY <6>1, <6>2, <4>5 DEF ReactorInv, InQueue
        <5> QED  BY <5>1, <5>2
      <4>11. DueWhenOver'
        <5> SUFFICES ASSUME NEW g \in Greenlets, WaitIsOver(g)' PROVE waketime'[g] = NOW
          BY DEF DueWhenOver
        <5>1. g # t
          BY <4>5, <1>1, <1>4, ReactorAssumption DEF WaitIsOver, Mutex, Nothing
        <5>2. WaitIsOver(g)
          BY <5>1, <4>1, <4>5, <1>1 DEF WaitIsOver
        <5> QED  BY <5>1, <5>2, <2>2 DEF ReactorInv, DueWhenOver, Tasks
      <4> QED  BY <2>3, <4>8, <4>9, <4>10, <4>11 DEF ReactorInv
    <3> QED  BY <3>3, <3>4
  <2> QED  BY <2>4, <2>5
<1> QED  BY <1>5, <1>6

LEMMA ReadInputInv == ReactorInv /\ ReadInput => ReactorInv'
<1> SUFFICES ASSUME ReactorInv, ReadInput PROVE ReactorInv'
  OBVIOUS
<1>1. /\ current = g_dispatch /\ at[current] = "poll"
      /\ at' = [at EXCEPT ![current] = "callback"]
      /\ calls' = [calls EXCEPT ![current] = Input]
      /\ UNCHANGED <<current, g_dispatch, rest, waits, spare, registered, waketime,
                     next_timer, result, is_locked, next_pending, queue, owners>>
  BY DEF ReadInput, Dispatching, Call, mutexVars
<1>2. ReactorInTypes
  BY DEF ReactorInv
<1>3. ReactorInTypes'
  BY <1>1, <1>2 DEF ReactorInTypes, ReactorTypes, Places
<1>4. OneRuns'
  BY <1>1, <1>2 DEF ReactorInv, OneRuns, ReactorInTypes, ReactorTypes
<1>5. InQueue' /\ DueWhenOver' /\ LooksInTime'
  BY <1>1 DEF ReactorInv, InQueue, DueWhenOver, LooksInTime, WaitIsOver
<1> QED  BY <1>3, <1>4, <1>5 DEF ReactorInv

LEMMA UpdateTimerInv == ReactorInv /\ UpdateTimer => ReactorInv'
<1> SUFFICES ASSUME ReactorInv, UpdateTimer PROVE ReactorInv'
  OBVIOUS
<1>1. PICK t \in Timers : waketime' = [waketime EXCEPT ![t] = NOW]
  BY DEF UpdateTimer
<1>2. /\ next_timer' = NOW
      /\ UNCHANGED <<current, g_dispatch, at, calls, rest, spare, registered, waits,
                     result, is_locked, next_pending, queue, owners>>
  BY DEF UpdateTimer, greenletVars, mutexVars
<1>3. ReactorInTypes
  BY DEF ReactorInv
<1>4. ReactorInTypes'
  BY <1>1, <1>2, <1>3 DEF ReactorInTypes, ReactorTypes
<1>5. \A g \in Greenlets : waketime'[g] = waketime[g]
  BY <1>1, <1>3, ReactorAssumption DEF ReactorInTypes, ReactorTypes
<1>6. OneRuns' /\ InQueue' /\ DueWhenOver'
  BY <1>2, <1>5 DEF ReactorInv, OneRuns, InQueue, DueWhenOver, WaitIsOver
<1>7. LooksInTime'
  <2>1. registered' \in Seq(Tasks) /\ waketime' \in [Tasks -> {NOW, Later, NEVER}]
    BY <1>4 DEF ReactorInTypes, ReactorTypes, Tasks
  <2>2. next_timer' = NOW
    BY <1>2
  <2> QED  BY <2>1, <2>2, NothingIsMissed DEF LooksInTime
<1> QED  BY <1>4, <1>6, <1>7 DEF ReactorInv

LEMMA CompleteOneInv == ReactorInv /\ CompleteOne => ReactorInv'
<1> SUFFICES ASSUME ReactorInv, CompleteOne PROVE ReactorInv'
  OBVIOUS
<1>1. PICK c \in Completions :
        LET waiting == {g \in Greenlets : waits[g] = c} IN
        /\ result' = result \cup {c}
        /\ waketime' = [t \in DOMAIN waketime |->
                          IF t \in waiting THEN NOW ELSE waketime[t]]
        /\ next_timer' = IF waiting = {} THEN next_timer ELSE NOW
  BY DEF CompleteOne
<1> DEFINE waiting == {g \in Greenlets : waits[g] = c}
<1>2. /\ UNCHANGED <<current, g_dispatch, at, calls, rest, spare, registered, waits,
                     is_locked, next_pending, queue, owners>>
      /\ result' = result \cup {c}
      /\ next_timer' = IF waiting = {} THEN next_timer ELSE NOW
  BY <1>1 DEF CompleteOne, greenletVars, mutexVars
<1>3. ReactorInTypes
  BY DEF ReactorInv
<1>4. waketime' = [t \in Tasks |-> IF t \in waiting THEN NOW ELSE waketime[t]]
  BY <1>1, <1>3 DEF ReactorInTypes, ReactorTypes, Tasks
<1>5. \A g \in waiting : g \in Greenlets /\ waits[g] = c /\ c # Nothing
  BY ReactorAssumption
<1>6. \A g \in Greenlets : waits[g] = c => g \in waiting
  OBVIOUS
<1> HIDE DEF waiting
<1>7. ReactorInTypes'
  <2>1. waketime' \in [Tasks -> {NOW, Later, NEVER}]
    BY <1>3, <1>4 DEF ReactorInTypes, ReactorTypes, Tasks
  <2> QED  BY <1>2, <1>3, <2>1 DEF ReactorInTypes, ReactorTypes, Tasks
<1>8. OneRuns'
  BY <1>2, <1>4, <1>5 DEF ReactorInv, OneRuns, Tasks
<1>9. InQueue'
  BY <1>2 DEF ReactorInv, InQueue
<1>10. DueWhenOver'
  BY <1>2, <1>4, <1>6 DEF ReactorInv, DueWhenOver, WaitIsOver, Tasks
<1>11. LooksInTime'
  <2>1. CASE waiting = {}
    <3>1. \A n \in 1..Len(registered) : registered[n] \in Tasks
      BY <1>3 DEF ReactorInTypes
    <3> QED  BY <1>2, <1>4, <2>1, <3>1 DEF ReactorInv, LooksInTime
  <2>2. CASE waiting # {}
    <3>1. registered' \in Seq(Tasks) /\ waketime' \in [Tasks -> {NOW, Later, NEVER}]
      BY <1>7 DEF ReactorInTypes, ReactorTypes, Tasks
    <3>2. next_timer' = NOW
      BY <1>2, <2>2
    <3> QED  BY <3>1, <3>2, NothingIsMissed DEF LooksInTime
  <2> QED  BY <2>1, <2>2
<1> QED  BY <1>7, <1>8, <1>9, <1>10, <1>11 DEF ReactorInv

LEMMA NewCompletionInv == ReactorInv /\ NewCompletion => ReactorInv'
<1> SUFFICES ASSUME ReactorInv, NewCompletion PROVE ReactorInv'
  OBVIOUS
<1>1. /\ UNCHANGED <<current, g_dispatch, at, calls, rest, spare, registered, waits,
                     waketime, next_timer, is_locked, next_pending, queue, owners>>
      /\ result' \subseteq result
  BY DEF NewCompletion, greenletVars, mutexVars
<1> QED  BY <1>1 DEF ReactorInv, ReactorInTypes, ReactorTypes, OneRuns, InQueue,
                     DueWhenOver, LooksInTime, WaitIsOver

(* What a pause leaves, whatever it waits for.                             *)
LEMMA PauseIs ==
  ASSUME ReactorInv, Running, NEW w \in {NOW, Later, NEVER}, Pause(w),
         waits' = [waits EXCEPT ![current] = waits'[current]]
  PROVE  /\ at' \in [Greenlets -> Places] /\ current' \in Greenlets
         /\ g_dispatch' \in Greenlets /\ calls' = calls
         /\ rest' \in Seq(Tasks) /\ registered' \in Seq(Tasks) /\ spare' \in Seq(Greenlets)
         /\ waketime' = [waketime EXCEPT ![current] = w]
         /\ next_timer' \in {NOW, Later, NEVER}
         /\ OneRuns' /\ LooksInTime'
<1>1. ReactorInTypes /\ OneRuns /\ LooksInTime
  BY DEF ReactorInv
<1>2. /\ waketime \in [Tasks -> {NOW, Later, NEVER}] /\ next_timer \in {NOW, Later, NEVER}
      /\ current \in Greenlets /\ g_dispatch \in Greenlets /\ at \in [Greenlets -> Places]
      /\ waits \in [Greenlets -> Completions \cup {Mutex, Nothing}]
      /\ spare \in Seq(Greenlets) /\ rest \in Seq(Tasks) /\ registered \in Seq(Tasks)
      /\ at[current] = "callback" /\ calls' = calls
  BY <1>1 DEF ReactorInTypes, ReactorTypes, Tasks, Running, Pause
<1>3. \A g \in Greenlets : g # current => waits'[g] = waits[g]
  BY <1>2
<1>4. waketime' = [waketime EXCEPT ![current] = w]
  BY DEF Pause, PauseSwitched, PauseDispatcher
<1>5. /\ waketime' \in [Tasks -> {NOW, Later, NEVER}] /\ waketime'[current] = w
      /\ \A t \in Tasks : t # current => waketime'[t] = waketime[t]
  BY <1>2, <1>4 DEF Tasks
<1>6. \A n \in 1..Len(spare) : spare[n] \in Greenlets /\ spare[n] # current
  BY RunsFreely
<1>7. CASE PauseSwitched(w)
  <2>1. /\ current # g_dispatch /\ current' = g_dispatch
        /\ at' = [at EXCEPT ![current] = "paused", ![g_dispatch] = "timers"]
        /\ next_timer' = Sooner(next_timer, w)
        /\ UNCHANGED <<g_dispatch, rest, spare, registered>>
    BY <1>7 DEF PauseSwitched
  <2>2. /\ next_timer' \in {NOW, Later, NEVER} /\ next_timer' <= next_timer
        /\ next_timer' <= w
    BY <1>2, <2>1, SoonerIs
  <2>3. /\ at' \in [Greenlets -> Places] /\ at'[current] = "paused"
        /\ at'[g_dispatch] = "timers"
        /\ \A g \in Greenlets : g \notin {current, g_dispatch} => at'[g] = at[g]
    BY <1>2, <2>1 DEF Places
  <2>4. at[g_dispatch] = "switched"
    BY <1>1, <2>1 DEF OneRuns
  <2>5. \A g \in Greenlets : waits'[g] # Nothing \/ waketime'[g] # NEVER => at'[g] = "paused"
    <3> TAKE g \in Greenlets
    <3>1. CASE g = current
      BY <3>1, <2>3
    <3>2. CASE g # current
      BY <3>2, <1>1, <1>3, <1>5, <2>3, <2>4 DEF OneRuns, Tasks
    <3> QED  BY <3>1, <3>2
  <2>6. \A n \in 1..Len(spare) : at'[spare[n]] = "spare"
    BY <1>1, <1>6, <2>3, <2>4 DEF OneRuns
  <2>7. OneRuns'
    <3>1. current' = g_dispatch /\ g_dispatch' = g_dispatch /\ spare' = spare
      BY <2>1
    <3>2. \A m, n \in 1..Len(spare) : m # n => spare[m] # spare[n]
      BY <1>1 DEF OneRuns
    <3> QED  BY <2>3, <2>5, <2>6, <3>1, <3>2 DEF OneRuns
  <2>8. LooksInTime'
    <3>1. \A n \in 1..Len(registered) : registered[n] \in Tasks
      BY <1>2
    <3>2. ASSUME NEW t \in Tasks, waketime'[t] < next_timer' PROVE waketime[t] < next_timer
      <4>1. t # current
        BY <1>5, <2>2, <3>2, Times
      <4>2. waketime[t] = waketime'[t] /\ waketime[t] \in {NOW, Later, NEVER}
        BY <1>2, <1>5, <4>1
      <4> QED  BY <1>2, <2>2, <3>2, <4>2, Times
    <3> QED  BY <1>1, <2>1, <3>1, <3>2 DEF LooksInTime
  <2> QED  BY <1>2, <1>4, <2>1, <2>2, <2>3, <2>7, <2>8
<1>8. CASE PauseDispatcher(w)
  <2>1. PICK h \in Greenlets :
          /\ \/ spare # << >> /\ h = Lists!Last(spare) /\ spare' = Lists!Front(spare)
             \/ spare = << >> /\ at[h] = "none" /\ UNCHANGED spare
          /\ current' = h /\ g_dispatch' = h
          /\ at' = [at EXCEPT ![current] = "paused", ![h] = "poll"]
    BY <1>8 DEF PauseDispatcher
  <2>2. /\ current = g_dispatch /\ rest' = << >> /\ registered' = Append(registered, current)
        /\ next_timer' = NOW
    BY <1>8 DEF PauseDispatcher, PauseWakes
  <2>3. /\ spare' \in Seq(Greenlets) /\ at[h] \in {"spare", "none"}
        /\ Len(spare') \in 0..Len(spare)
        /\ \A n \in 1..Len(spare') : n \in 1..Len(spare) /\ spare'[n] = spare[n] /\ spare[n] # h
    <3>1. CASE spare = << >>
      BY <1>2, <2>1, <3>1
    <3>2. CASE spare # << >>
      <4>1. /\ h = spare[Len(spare)] /\ spare' = SubSeq(spare, 1, Len(spare) - 1)
        BY <2>1, <3>2 DEF Lists!Last, Lists!Front
      <4>2. Len(spare) \in Nat \ {0}
        BY <1>2, <3>2
      <4>3. /\ spare' \in Seq(Greenlets) /\ Len(spare') = Len(spare) - 1
            /\ \A n \in 1..Len(spare') : spare'[n] = spare[n]
        BY <1>2, <2>1, <3>2, Shortened
      <4>4. at[h] = "spare"
        BY <1>1, <4>1, <4>2 DEF OneRuns
      <4>5. \A n \in 1..Len(spare) - 1 : spare[n] # h
        BY <1>1, <4>1, <4>2 DEF OneRuns
      <4> QED  BY <4>2, <4>3, <4>4, <4>5
    <3> QED  BY <3>1, <3>2
  <2>4. h # current
    BY <1>2, <2>3
  <2>5. /\ at' \in [Greenlets -> Places] /\ at'[current] = "paused" /\ at'[h] = "poll"
        /\ \A g \in Greenlets : g \notin {current, h} => at'[g] = at[g]
    BY <1>2, <2>1, <2>4 DEF Places
  <2>6. \A g \in Greenlets : waits'[g] # Nothing \/ waketime'[g] # NEVER => at'[g] = "paused"
    <3> TAKE g \in Greenlets
    <3>1. CASE g = current
      BY <3>1, <2>5
    <3>2. CASE g # current
      BY <3>2, <1>1, <1>3, <1>5, <2>3, <2>5 DEF OneRuns, Tasks
    <3> QED  BY <3>1, <3>2
  <2>7. \A n \in 1..Len(spare') : at'[spare'[n]] = "spare"
    BY <1>1, <1>6, <2>3, <2>5 DEF OneRuns
  <2>8. \A m, n \in 1..Len(spare') : m # n => spare'[m] # spare'[n]
    BY <1>1, <2>3 DEF OneRuns
  <2>9. OneRuns'
    BY <2>1, <2>5, <2>6, <2>7, <2>8 DEF OneRuns
  <2>10. registered' \in Seq(Tasks)
    BY <1>2, <2>2 DEF Tasks
  <2>11. LooksInTime'
    <3>1. next_timer' = NOW
      BY <2>2
    <3> QED  BY <1>5, <2>10, <3>1, NothingIsMissed DEF LooksInTime
  <2>12. rest' \in Seq(Tasks) /\ next_timer' \in {NOW, Later, NEVER}
    BY <2>2
  <2>13. current' \in Greenlets /\ g_dispatch' \in Greenlets
    BY <2>1
  <2> QED  BY <1>2, <1>4, <2>3, <2>5, <2>9, <2>10, <2>11, <2>12, <2>13
<1> QED  BY <1>7, <1>8 DEF Pause

LEMMA WaitCompletionInv == ReactorInv /\ WaitCompletion => ReactorInv'
<1> SUFFICES ASSUME ReactorInv, WaitCompletion PROVE ReactorInv'
  OBVIOUS
<1>1. PICK c \in Completions \ result, w \in {Later, NEVER} :
        waits' = [waits EXCEPT ![current] = c] /\ Pause(w)
  BY DEF WaitCompletion
<1>2. Running /\ UNCHANGED <<result, is_locked, next_pending, queue, owners>>
  BY DEF WaitCompletion, mutexVars
<1>3. ReactorInTypes
  BY DEF ReactorInv
<1>4. /\ waits \in [Greenlets -> Completions \cup {Mutex, Nothing}]
      /\ waketime \in [Tasks -> {NOW, Later, NEVER}] /\ queue \in Seq(Greenlets)
  BY <1>3 DEF ReactorInTypes, ReactorTypes, Tasks
<1>5. /\ current \in Greenlets
      /\ \A n \in 1..Len(queue) : queue[n] \in Greenlets /\ queue[n] # current
  BY RunsFreely
<1>6. waits' = [waits EXCEPT ![current] = waits'[current]] /\ w \in {NOW, Later, NEVER}
  BY <1>1, <1>4, <1>5
<1>7. /\ at' \in [Greenlets -> Places] /\ current' \in Greenlets
      /\ g_dispatch' \in Greenlets /\ calls' = calls
      /\ rest' \in Seq(Tasks) /\ registered' \in Seq(Tasks) /\ spare' \in Seq(Greenlets)
      /\ waketime' = [waketime EXCEPT ![current] = w]
      /\ next_timer' \in {NOW, Later, NEVER}
      /\ OneRuns' /\ LooksInTime'
  BY <1>1, <1>2, <1>6, PauseIs
<1>8. /\ waits' \in [Greenlets -> Completions \cup {Mutex, Nothing}]
      /\ waketime' \in [Tasks -> {NOW, Later, NEVER}]
      /\ waits'[current] = c /\ \A g \in Greenlets : g # current =>
                                   waits'[g] = waits[g] /\ waketime'[g] = waketime[g]
  BY <1>1, <1>4, <1>5, <1>6, <1>7 DEF Tasks
<1>9. ReactorInTypes'
  BY <1>2, <1>3, <1>7, <1>8 DEF ReactorInTypes, ReactorTypes, Tasks
<1>10. InQueue'
  BY <1>2, <1>5, <1>8 DEF ReactorInv, InQueue
<1>11. DueWhenOver'
  <2> SUFFICES ASSUME NEW g \in Greenlets, WaitIsOver(g)' PROVE waketime'[g] = NOW
    BY DEF DueWhenOver
  <2>1. g # current
    BY <1>1, <1>2, <1>8, ReactorAssumption DEF WaitIsOver
  <2>2. WaitIsOver(g)
    BY <2>1, <1>2, <1>8 DEF WaitIsOver
  <2> QED  BY <2>1, <2>2, <1>8 DEF ReactorInv, DueWhenOver
<1> QED  BY <1>7, <1>9, <1>10, <1>11 DEF ReactorInv

LEMMA LockInv == ReactorInv /\ Lock => ReactorInv'
<1> SUFFICES ASSUME ReactorInv, Lock PROVE ReactorInv'
  OBVIOUS
<1>1. ReactorInTypes /\ Running /\ UNCHANGED result
  BY DEF ReactorInv, Lock
<1>2. /\ waits \in [Greenlets -> Completions \cup {Mutex, Nothing}]
      /\ waketime \in [Tasks -> {NOW, Later, NEVER}] /\ queue \in Seq(Greenlets)
  BY <1>1 DEF ReactorInTypes, ReactorTypes, Tasks
<1>3. /\ current \in Greenlets
      /\ \A n \in 1..Len(queue) : queue[n] \in Greenlets /\ queue[n] # current
  BY RunsFreely
<1>4. CASE ~is_locked
  <2>1. /\ is_locked' = TRUE /\ owners' = owners \cup {current}
        /\ UNCHANGED <<current, g_dispatch, at, calls, rest, spare, registered, waits,
                       waketime, next_timer, queue, next_pending>>
    BY <1>4 DEF Lock, greenletVars
  <2>2. ReactorInTypes'
    BY <1>1, <1>3, <2>1 DEF ReactorInTypes, ReactorTypes
  <2> QED  BY <1>1, <2>1, <2>2
           DEF ReactorInv, OneRuns, InQueue, DueWhenOver, LooksInTime, WaitIsOver
<1>5. CASE is_locked
  <2>1. /\ queue' = Append(queue, current)
        /\ waits' = [waits EXCEPT ![current] = Mutex] /\ Pause(NEVER)
        /\ UNCHANGED <<is_locked, next_pending, owners>>
    BY <1>5 DEF Lock
  <2>2. waits' = [waits EXCEPT ![current] = waits'[current]] /\ NEVER \in {NOW, Later, NEVER}
    BY <1>2, <1>3, <2>1
  <2>3. /\ at' \in [Greenlets -> Places] /\ current' \in Greenlets
        /\ g_dispatch' \in Greenlets /\ calls' = calls
        /\ rest' \in Seq(Tasks) /\ registered' \in Seq(Tasks) /\ spare' \in Seq(Greenlets)
        /\ waketime' = [waketime EXCEPT ![current] = NEVER]
        /\ next_timer' \in {NOW, Later, NEVER}
        /\ OneRuns' /\ LooksInTime'
    BY <1>1, <2>1, <2>2, PauseIs
  <2>4. /\ waits' \in [Greenlets -> Completions \cup {Mutex, Nothing}]
        /\ waketime' \in [Tasks -> {NOW, Later, NEVER}]
        /\ waits'[current] = Mutex /\ \A g \in Greenlets : g # current =>
                                        waits'[g] = waits[g] /\ waketime'[g] = waketime[g]
    BY <1>2, <1>3, <2>1, <2>2, <2>3 DEF Tasks
  <2>5. /\ queue' \in Seq(Greenlets) /\ Len(queue') = Len(queue) + 1
        /\ queue'[Len(queue) + 1] = current /\ queue' # << >>
        /\ \A n \in 1..Len(queue) : queue'[n] = queue[n]
    BY <1>2, <1>3, <2>1
  <2>6. ReactorInTypes'
    BY <1>1, <2>1, <2>3, <2>4, <2>5 DEF ReactorInTypes, ReactorTypes, Tasks
  <2>7. InQueue'
    <3>1. \A n \in 1..Len(queue') : n \in 1..Len(queue) \/ n = Len(queue) + 1
      BY <1>2, <2>5
    <3> QED  BY <1>3, <2>1, <2>4, <2>5, <3>1 DEF ReactorInv, InQueue
  <2>8. DueWhenOver'
    <3> SUFFICES ASSUME NEW g \in Greenlets, WaitIsOver(g)' PROVE waketime'[g] = NOW
      BY DEF DueWhenOver
    <3>1. next_pending' => next_pending = TRUE /\ queue # << >> /\ Head(queue') = Head(queue)
      <4>1. next_pending' => next_pending = TRUE /\ queue # << >>
        BY <1>1, <2>1 DEF ReactorInv, InQueue, ReactorInTypes, ReactorTypes
      <4>2. queue # << >> => Head(queue') = Head(queue)
        BY <1>2, <2>5
      <4> QED  BY <4>1, <4>2
    <3>2. next_pending' => Head(queue') # current
      <4>1. queue # << >> => 1 \in 1..Len(queue) /\ Head(queue) = queue[1]
        BY <1>2
      <4> QED  BY <1>3, <3>1, <4>1
    <3>3. g # current
      BY <1>1, <1>2, <2>4, <3>2, ReactorAssumption
      DEF WaitIsOver, ReactorInTypes, ReactorTypes
    <3>4. WaitIsOver(g)
      BY <1>1, <2>4, <3>1, <3>3 DEF WaitIsOver
    <3> QED  BY <2>4, <3>3, <3>4 DEF ReactorInv, DueWhenOver
  <2> QED  BY <2>3, <2>6, <2>7, <2>8 DEF ReactorInv
<1> QED  BY <1>4, <1>5

LEMMA UnlockInv == ReactorInv /\ Unlock => ReactorInv'
<1> SUFFICES ASSUME ReactorInv, Unlock PROVE ReactorInv'
  OBVIOUS
<1>1. /\ owners' = owners \ {current}
      /\ UNCHANGED <<current, g_dispatch, at, calls, rest, spare, registered, waits,
                     queue, result>>
  BY DEF Unlock, greenletVars
<1>2. ReactorInTypes
  BY DEF ReactorInv
<1>3. CASE queue = << >>
  <2>1. is_locked' = FALSE /\ UNCHANGED <<next_pending, waketime, next_timer>>
    BY <1>3 DEF Unlock
  <2>2. ReactorInTypes'
    BY <1>1, <1>2, <2>1 DEF ReactorInTypes, ReactorTypes
  <2> QED  BY <1>1, <2>1, <2>2
           DEF ReactorInv, OneRuns, InQueue, DueWhenOver, LooksInTime, WaitIsOver
<1>4. CASE queue # << >>
  <2>1. /\ next_pending' = TRUE /\ next_timer' = NOW
        /\ waketime' = [waketime EXCEPT ![Head(queue)] = NOW] /\ UNCHANGED is_locked
    BY <1>4 DEF Unlock
  <2>2. Head(queue) \in Greenlets /\ waits[Head(queue)] = Mutex
    <3>1. 1 \in 1..Len(queue) /\ Head(queue) = queue[1] /\ queue[1] \in Greenlets
      BY <1>2, <1>4 DEF ReactorInTypes
    <3> QED  BY <3>1 DEF ReactorInv, InQueue
  <2>3. /\ waketime' \in [Tasks -> {NOW, Later, NEVER}] /\ waketime'[Head(queue)] = NOW
        /\ \A t \in Tasks : t # Head(queue) => waketime'[t] = waketime[t]
    BY <1>2, <2>1, <2>2 DEF ReactorInTypes, ReactorTypes, Tasks
  <2>4. ReactorInTypes'
    BY <1>1, <1>2, <2>1, <2>3 DEF ReactorInTypes, ReactorTypes, Tasks
  <2>5. at[Head(queue)] = "paused"
    BY <2>2 DEF ReactorInv, OneRuns, Mutex, Nothing
  <2>6. OneRuns'
    BY <1>1, <2>3, <2>5 DEF ReactorInv, OneRuns, Tasks
  <2>7. InQueue'
    BY <1>1, <1>4, <2>1 DEF ReactorInv, InQueue
  <2>8. DueWhenOver'
    BY <1>1, <2>1, <2>3 DEF ReactorInv, DueWhenOver, WaitIsOver, Tasks
  <2>9. LooksInTime'
    <3>1. registered' \in Seq(Tasks) /\ waketime' \in [Tasks -> {NOW, Later, NEVER}]
      BY <2>4 DEF ReactorInTypes, ReactorTypes, Tasks
    <3>2. next_timer' = NOW
      BY <2>1
    <3> QED  BY <3>1, <3>2, NothingIsMissed DEF LooksInTime
  <2> QED  BY <2>4, <2>6, <2>7, <2>8, <2>9 DEF ReactorInv
<1> QED  BY <1>3, <1>4

LEMMA CallbackReturnsInv == ReactorInv /\ CallbackReturns => ReactorInv'
<1> SUFFICES ASSUME ReactorInv, CallbackReturns PROVE ReactorInv'
  OBVIOUS
<1>1. PICK w \in {NOW, Later, NEVER} :
        /\ calls[current] = Input => w = NEVER
        /\ waketime' = [t \in DOMAIN waketime |->
                          IF t = calls[current] THEN w
                          ELSE IF t = current THEN NEVER ELSE waketime[t]]
        /\ next_timer' = Sooner(next_timer, w)
  BY DEF CallbackReturns
<1>2. /\ Running /\ calls' = [calls EXCEPT ![current] = Nothing]
      /\ UNCHANGED <<g_dispatch, rest, waits, result, is_locked, next_pending, queue,
                     owners>>
  BY DEF CallbackReturns, mutexVars
<1>3. ReactorInTypes /\ OneRuns /\ LooksInTime
  BY DEF ReactorInv
<1>4. /\ waketime \in [Tasks -> {NOW, Later, NEVER}] /\ next_timer \in {NOW, Later, NEVER}
      /\ current \in Greenlets /\ g_dispatch \in Greenlets /\ at \in [Greenlets -> Places]
      /\ calls \in [Greenlets -> Timers \cup {Input, Nothing}]
      /\ spare \in Seq(Greenlets) /\ rest \in Seq(Tasks) /\ registered \in Seq(Tasks)
      /\ at[current] = "callback"
  BY <1>2, <1>3 DEF ReactorInTypes, ReactorTypes, Tasks, Running
<1>5. waketime' = [t \in Tasks |-> IF t = calls[current] THEN w
                                   ELSE IF t = current THEN NEVER ELSE waketime[t]]
  BY <1>1, <1>4
<1>6. waketime' \in [Tasks -> {NOW, Later, NEVER}]
  BY <1>4, <1>5
<1>7. /\ next_timer' \in {NOW, Later, NEVER} /\ next_timer' <= next_timer
      /\ next_timer' <= w
  BY <1>1, <1>4, SoonerIs
<1>8. calls[current] \notin Greenlets
  BY <1>4, ReactorAssumption
<1>9. \A g \in Greenlets : waketime'[g] = waketime[g]
  BY <1>5, <1>8, RunsFreely DEF Tasks
<1>10. \A t \in Tasks : waketime'[t] < next_timer' => waketime[t] < next_timer
  BY <1>4, <1>5, <1>7, Times
<1>11. calls' \in [Greenlets -> Timers \cup {Input, Nothing}]
  BY <1>2, <1>4
<1>12. InQueue' /\ DueWhenOver'
  BY <1>2, <1>9 DEF ReactorInv, InQueue, DueWhenOver, WaitIsOver
<1>13. CASE current = g_dispatch
  <2>1. /\ at' = [at EXCEPT ![current] = IF calls[current] = Input THEN "poll" ELSE "timers"]
        /\ UNCHANGED <<current, spare, registered>>
    BY <1>13 DEF CallbackReturns
  <2>2. /\ at' \in [Greenlets -> Places] /\ at'[current] \in {"poll", "timers"}
        /\ \A g \in Greenlets : g # current => at'[g] = at[g]
    BY <1>4, <2>1 DEF Places
  <2>3. ReactorInTypes'
    BY <1>2, <1>3, <1>6, <1>7, <1>11, <2>1, <2>2 DEF ReactorInTypes, ReactorTypes, Tasks
  <2>4. OneRuns'
    BY <1>2, <1>3, <1>9, <1>13, <2>1, <2>2, RunsFreely DEF OneRuns
  <2>5. LooksInTime'
    <3>1. \A n \in 1..Len(registered) : registered[n] \in Tasks
      BY <1>4
    <3> QED  BY <1>2, <1>3, <1>10, <2>1, <3>1 DEF LooksInTime
  <2> QED  BY <1>12, <2>3, <2>4, <2>5 DEF ReactorInv
<1>14. CASE current # g_dispatch
  <2>1. /\ at' = [at EXCEPT ![current] = "spare", ![g_dispatch] = "timers"]
        /\ current' = g_dispatch /\ spare' = Append(spare, current)
    BY <1>14 DEF CallbackReturns
  <2>2. PICK k \in DOMAIN registered : registered' = Lists!RemoveAt(registered, k)
    BY <1>14 DEF CallbackReturns
  <2>3. /\ at' \in [Greenlets -> Places] /\ at'[current] = "spare"
        /\ at'[g_dispatch] = "timers"
        /\ \A g \in Greenlets : g \notin {current, g_dispatch} => at'[g] = at[g]
    BY <1>4, <1>14, <2>1 DEF Places
  <2>4. at[g_dispatch] = "switched"
    BY <1>3, <1>14 DEF OneRuns
  <2>5. /\ spare' \in Seq(Greenlets) /\ Len(spare') = Len(spare) + 1
        /\ spare'[Len(spare) + 1] = current
        /\ \A n \in 1..Len(spare) : spare'[n] = spare[n]
        /\ \A n \in 1..Len(spare') : n \in 1..Len(spare) \/ n = Len(spare) + 1
    BY <1>4, <2>1
  <2>6. \A n \in 1..Len(spare) : spare[n] \in Greenlets /\ spare[n] # current
                                  /\ at[spare[n]] = "spare"
    BY <1>3, RunsFreely DEF OneRuns
  <2>7. OneRuns'
    <3>1. \A n \in 1..Len(spare') : at'[spare'[n]] = "spare"
      BY <2>3, <2>4, <2>5, <2>6
    <3>2. \A m, n \in 1..Len(spare') : m # n => spare'[m] # spare'[n]
      BY <1>3, <2>5, <2>6 DEF OneRuns
    <3>3. \A g \in Greenlets : waits'[g] # Nothing \/ waketime'[g] # NEVER => at'[g] = "paused"
      <4> TAKE g \in Greenlets
      <4>1. CASE g = current
        BY <4>1, <1>2, <1>9, RunsFreely
      <4>2. CASE g # current
        BY <4>2, <1>2, <1>3, <1>9, <2>3, <2>4 DEF OneRuns
      <4> QED  BY <4>1, <4>2
    <3> QED  BY <1>2, <2>1, <2>3, <3>1, <3>2, <3>3 DEF OneRuns
  <2>8. /\ registered' \in Seq(Tasks)
        /\ \A n \in 1..Len(registered') : \E m \in 1..Len(registered) :
              registered'[n] = registered[m]
    BY <1>4, <2>2, Removed
  <2>9. ReactorInTypes'
    BY <1>2, <1>3, <1>4, <1>6, <1>7, <1>11, <2>1, <2>3, <2>5, <2>8
    DEF ReactorInTypes, ReactorTypes, Tasks
  <2>10. LooksInTime'
    <3>1. \A n \in 1..Len(registered) : registered[n] \in Tasks
      BY <1>4
    <3> QED  BY <1>2, <1>3, <1>10, <2>8, <3>1 DEF LooksInTime
  <2> QED  BY <1>12, <2>7, <2>9, <2>10 DEF ReactorInv
<1> QED  BY <1>13, <1>14

LEMMA ReactorStep == ReactorInv /\ [ReactorNext]_reactorVars => ReactorInv'
<1> SUFFICES ASSUME ReactorInv, [ReactorNext]_reactorVars PROVE ReactorInv'
  OBVIOUS
<1>1. CASE UNCHANGED reactorVars
  <2>1. ReactorInTypes'
    BY <1>1 DEF ReactorInv, ReactorInTypes, ReactorTypes, reactorVars
  <2>2. OneRuns' /\ InQueue'
    BY <1>1 DEF ReactorInv, OneRuns, InQueue, reactorVars
  <2>3. DueWhenOver' /\ LooksInTime'
    BY <1>1 DEF ReactorInv, DueWhenOver, LooksInTime, WaitIsOver, reactorVars
  <2> QED BY <2>1, <2>2, <2>3 DEF ReactorInv
<1> QED  BY <1>1, CheckTimersInv, LoopEndsInv, VisitTimerInv, ReadInputInv,
            UpdateTimerInv, CompleteOneInv, NewCompletionInv, WaitCompletionInv,
            LockInv, UnlockInv, CallbackReturnsInv DEF ReactorNext

(* No wake-up is lost, for any timers, greenlets and completions           *)
(* (reactor.py:120-164, 208-250).                                          *)
THEOREM WakeupsAreKept == ReactorSpec => []NoWakeupLost
<1>1. ReactorInv => NoWakeupLost
  BY NoWakeupLostIs DEF ReactorInv
<1> QED  BY <1>1, ReactorInvInit, ReactorStep, PTL DEF ReactorSpec

(* Whoever is inside the mutex is alone there: it is handed over only after *)
(* it was left, and while it is handed over it stays locked                *)
(* (reactor.py:55-82).                                                     *)
OneOwner == \A g, h \in owners : g = h

MutexInv ==
  /\ OneOwner
  /\ is_locked = (owners # {} \/ next_pending)
  /\ next_pending => owners = {}

THEOREM MutexExcludes == ReactorSpec => []OneOwner
<1>1. ReactorInit => ReactorInv /\ MutexInv
  BY ReactorInvInit DEF ReactorInit, MutexInv, OneOwner
<1>2. ReactorInv /\ MutexInv /\ [ReactorNext]_reactorVars => MutexInv'
  <2> SUFFICES ASSUME ReactorInv, MutexInv, [ReactorNext]_reactorVars PROVE MutexInv'
    OBVIOUS
  <2>1. CASE UNCHANGED mutexVars
    BY <2>1 DEF MutexInv, OneOwner, mutexVars
  <2>2. CASE VisitTimer /\ ~UNCHANGED mutexVars
    <3>1. PICK g : /\ next_pending
                   /\ next_pending' = FALSE /\ owners' = owners \cup {g}
                   /\ UNCHANGED is_locked
      BY <2>2 DEF VisitTimer, Call, SwitchTo, mutexVars
    <3> QED  BY <3>1 DEF MutexInv, OneOwner
  <2>3. CASE Lock /\ is_locked
    BY <2>3 DEF Lock, MutexInv, OneOwner
  <2>4. CASE Lock /\ ~is_locked
    <3>1. owners = {} /\ ~next_pending
      BY <2>4 DEF MutexInv
    <3> QED  BY <2>4, <3>1 DEF Lock, MutexInv, OneOwner
  <2>5. CASE Unlock
    <3>1. owners = {current} /\ owners' = {} /\ ~next_pending
      BY <2>5 DEF Unlock, MutexInv, OneOwner
    <3>2. CASE queue = << >>
      BY <2>5, <3>1, <3>2 DEF Unlock, MutexInv, OneOwner
    <3>3. CASE queue # << >>
      <4>1. next_pending' = TRUE /\ is_locked' = is_locked
        BY <2>5, <3>3 DEF Unlock
      <4> QED  BY <3>1, <4>1 DEF MutexInv, OneOwner
    <3> QED  BY <3>2, <3>3
  <2>6. CASE UNCHANGED reactorVars
    BY <2>1, <2>6 DEF reactorVars, mutexVars
  <2>7. CheckTimers \/ LoopEnds \/ ReadInput \/ UpdateTimer \/ CompleteOne
        \/ NewCompletion \/ WaitCompletion \/ CallbackReturns => UNCHANGED mutexVars
    BY DEF CheckTimers, LoopEnds, ReadInput, Call, UpdateTimer, CompleteOne,
           NewCompletion, WaitCompletion, CallbackReturns, mutexVars
  <2> QED  BY <2>1, <2>2, <2>3, <2>4, <2>5, <2>6, <2>7 DEF ReactorNext
<1>3. ReactorInv /\ [ReactorNext]_reactorVars => ReactorInv'
  BY ReactorStep
<1>4. MutexInv => OneOwner
  BY DEF MutexInv
<1> QED  BY <1>1, <1>2, <1>3, <1>4, PTL DEF ReactorSpec

-----------------------------------------------------------------------------
(* Measurements in bulk.  A message of the sensor carries its sequence     *)
(* number modulo SeqTurn; it is extended with the answer of a query that   *)
(* was sent after it and came before what was sent later.                  *)

BulkMessage == [data : BOOLEAN, n : Nat, session : Nat]

BulkTypes ==
  /\ session \in Nat /\ sensor_on \in BOOLEAN /\ sent \in Nat
  /\ queried \in BOOLEAN /\ link \in Seq(BulkMessage)
  /\ phase \in {"idle", "id", "power", "clock", "batch", "off", "ack"}
  /\ reply \in Seq(Nat) /\ is_started \in BOOLEAN /\ batch_timer \in BOOLEAN
  /\ last_sequence \in Nat /\ raw_samples \in Seq(BulkMessage)
  /\ pulled \in Nat

\* The host awaits an answer in these phases, and has it if reply is one.
Awaits == phase \in {"power", "clock", "batch", "ack"} /\ reply = << >>

\* At most one query is under way, as a request or as an answer.
OneQuery ==
  /\ queried => Awaits /\ \A i \in 1..Len(link) : link[i].data
  /\ \A i \in 1..Len(link) : ~link[i].data => Awaits
  /\ \A i, j \in 1..Len(link) : ~link[i].data /\ ~link[j].data => i = j

\* The sensor that clients use was started after all that was thrown away.
Fresh == phase \in {"clock", "batch"} \/ (phase = "idle" /\ is_started)

\* Nothing is newer than what was sent; behind the answer to a start there is
\* nothing of the starts before.
Sessions ==
  /\ \A i \in 1..Len(link) :
       /\ link[i].session <= session
       /\ link[i].session = session =>
            link[i].n <= sent /\ (link[i].data => link[i].n < sent)
  /\ phase = "power" =>
       /\ \A i, j \in 1..Len(link) :
            ~link[i].data /\ i <= j => link[j].session = session
       /\ reply # << >> => \A i \in 1..Len(link) : link[i].session = session
  /\ Fresh => \A i \in 1..Len(link) : link[i].session = session

\* While the sensor runs, it is less than half a turn ahead of the last pull.
WithinTurn ==
  /\ is_started /\ phase # "id" =>
       pulled <= sent /\ sent <= pulled + SeqTurn \div 2
  /\ phase \in {"power", "clock"} => pulled = 0
  /\ phase = "clock" => last_sequence = 0
  /\ Fresh => pulled <= last_sequence /\ last_sequence <= sent

\* What was not pulled yet lies between the last pull and what was sent, and an
\* answer tells what was sent before and after it.
Counts ==
  /\ Fresh =>
       /\ \A i \in 1..Len(link) : link[i].data => pulled <= link[i].n
       /\ \A i \in 1..Len(raw_samples) :
            /\ raw_samples[i].session = session
            /\ pulled <= raw_samples[i].n /\ raw_samples[i].n < sent
  /\ phase \in {"clock", "batch"} =>
       /\ reply # << >> =>
            /\ last_sequence <= reply[1] /\ reply[1] <= sent
            /\ \A i \in 1..Len(link) : link[i].data => reply[1] <= link[i].n
       /\ \A i, j \in 1..Len(link) :
            ~link[i].data => /\ last_sequence <= link[i].n
                             /\ i <= j => link[i].n <= link[j].n

\* Who serves the clients.
Serving ==
  /\ client_cbs # {} => is_started
  /\ ~is_started => phase = "idle"
  /\ phase \in {"id", "power", "clock"} => client_cbs # {}
  /\ phase \in {"power", "clock", "batch"} => sensor_on
  /\ batch_timer => is_started /\ phase \in {"idle", "batch"}
  /\ is_started /\ phase = "idle" =>
       client_cbs # {} /\ batch_timer /\ sensor_on

BulkInv == /\ OneQuery /\ Sessions /\ WithinTurn /\ Counts
           /\ Serving

\* Half a turn is less than a turn.
LEMMA HalfTurn == SeqTurn \div 2 \in Nat /\ SeqTurn \div 2 < SeqTurn
  BY BulkAssumption, Division

LEMMA EmptySeqs == << >> \in Seq(Nat) /\ << >> \in Seq(BulkMessage)
  OBVIOUS

LEMMA OfAppend ==
  ASSUME NEW S, NEW s \in Seq(S), NEW x \in S
  PROVE  /\ Append(s, x) \in Seq(S) /\ Len(Append(s, x)) = Len(s) + 1
         /\ \A i \in 1..Len(s) : Append(s, x)[i] = s[i]
         /\ Append(s, x)[Len(s) + 1] = x
  OBVIOUS

\* What the messages of a sequence hold.
LEMMA Messages ==
  ASSUME NEW s \in Seq(BulkMessage)
  PROVE  /\ Len(s) \in Nat
         /\ \A i \in 1..Len(s) : s[i].data \in BOOLEAN /\ s[i].n \in Nat /\ s[i].session \in Nat
<1> SUFFICES ASSUME NEW i \in 1..Len(s)
             PROVE  s[i].data \in BOOLEAN /\ s[i].n \in Nat /\ s[i].session \in Nat
  OBVIOUS
<1>1. s[i] \in BulkMessage
  OBVIOUS
<1> QED  BY <1>1 DEF BulkMessage

LEMMA OfTail ==
  ASSUME NEW S, NEW s \in Seq(S), s # << >>
  PROVE  /\ Tail(s) \in Seq(S) /\ Len(Tail(s)) = Len(s) - 1 /\ Len(s) \in Nat \ {0}
         /\ Head(s) = s[1] /\ Head(s) \in S /\ s[1] \in S
         /\ \A i \in 1..Len(Tail(s)) : Tail(s)[i] = s[i + 1] /\ i + 1 \in 1..Len(s)
  OBVIOUS

\* The answer to a query is less than a turn ahead of the last one.
LEMMA UpdatedIs ==
  ASSUME BulkTypes, BulkInv, phase \in {"clock", "batch"}, reply # << >>
  PROVE  /\ reply[1] \in Nat /\ Updated(reply[1]) = reply[1]
         /\ pulled <= last_sequence /\ last_sequence <= reply[1] /\ reply[1] <= sent
         /\ sent <= pulled + SeqTurn \div 2
<1>1. reply[1] \in Nat
  BY DEF BulkTypes
<1>2. /\ last_sequence <= reply[1] /\ reply[1] <= sent
      /\ pulled <= last_sequence
  BY DEF BulkInv, Counts, WithinTurn, Fresh
<1>3. is_started
  BY DEF BulkInv, Serving
<1>4. sent <= pulled + SeqTurn \div 2
  BY <1>3 DEF BulkInv, WithinTurn
<1>5. last_sequence \in Nat /\ sent \in Nat /\ pulled \in Nat
  BY DEF BulkTypes
<1>6. reply[1] - last_sequence < SeqTurn
  <2>1. SeqTurn \in Nat
    BY BulkAssumption
  <2> QED  BY <2>1, <1>1, <1>2, <1>4, <1>5, HalfTurn
<1>7. Updated(reply[1]) = reply[1]
  <2> DEFINE v == reply[1]
             l == last_sequence
  <2>1. v \in Int /\ l \in Int /\ l <= v /\ v - l < SeqTurn
    BY <1>1, <1>2, <1>5, <1>6
  <2> HIDE DEF v, l
  <2>2. ExtendForward(l, v % SeqTurn, SeqTurn) = v
    BY <2>1, ForwardExact, BulkAssumption
  <2> QED  BY <2>2 DEF Updated, v, l
<1> QED  BY <1>1, <1>2, <1>4, <1>7

LEMMA BulkInitInv == BulkInit => BulkTypes /\ BulkInv
<1> SUFFICES ASSUME BulkInit PROVE BulkTypes /\ BulkInv
  OBVIOUS
<1>1. BulkTypes
  BY EmptySeqs DEF BulkInit, BulkTypes
<1> QED  BY <1>1, HalfTurn DEF BulkInit, BulkTypes, BulkInv, OneQuery, Sessions, WithinTurn,
              Counts, Serving, Fresh, Awaits

LEMMA BulkStep == BulkTypes /\ BulkInv /\ [BulkNext]_bulkVars => BulkTypes' /\ BulkInv'
<1> SUFFICES ASSUME BulkTypes, BulkInv, [BulkNext]_bulkVars PROVE BulkTypes' /\ BulkInv'
  OBVIOUS
<1>1. CASE Measure
  <2> USE DEF BulkTypes
  <2> DEFINE m == [data |-> TRUE, n |-> sent, session |-> session]
  <2>0. m \in BulkMessage /\ m.data = TRUE /\ m.n = sent /\ m.session = session
    BY DEF BulkMessage
  <2> HIDE DEF m
  <2>1. link' = Append(link, m)
    BY <1>1 DEF Measure, m
  <2>2. /\ link' \in Seq(BulkMessage) /\ Len(link') = Len(link) + 1
        /\ \A i \in 1..Len(link) : link'[i] = link[i]
        /\ link'[Len(link) + 1] = m /\ Len(link) \in Nat
    BY <2>0, <2>1, OfAppend
  <2>3. /\ Len(raw_samples) \in Nat /\ Len(link) \in Nat
        /\ \A i \in 1..Len(raw_samples) : raw_samples[i].n \in Nat /\ raw_samples[i].session \in Nat
        /\ \A i \in 1..Len(link) : link[i].n \in Nat /\ link[i].session \in Nat
        /\ reply # << >> => reply[1] \in Nat
    BY Messages
  <2>11. \A i \in 1..Len(link') : \/ i \in 1..Len(link) /\ link'[i] = link[i]
                                  \/ i = Len(link) + 1 /\ link'[i] = m
    BY <2>2
  <2>10. /\ sensor_on /\ sent' = sent + 1 /\ session' = session /\ phase' = phase
         /\ sensor_on' = sensor_on /\ queried' = queried /\ reply' = reply
         /\ is_started' = is_started /\ batch_timer' = batch_timer
         /\ client_cbs' = client_cbs /\ last_sequence' = last_sequence
         /\ raw_samples' = raw_samples /\ pulled' = pulled
         /\ is_started => sent < pulled + SeqTurn \div 2
    BY <1>1 DEF Measure
  <2>4. BulkTypes'
    BY <2>10, <2>11, <2>0, <2>2 DEF BulkTypes, WaitAt, sensorVars
  <2>5. OneQuery'
    BY <2>10, <2>11, <2>0, <2>2 DEF Awaits, BulkInv, Fresh, OneQuery,
         Serving, WaitAt, sensorVars
  <2>6. Sessions'
    <3>1. ASSUME NEW i \in 1..Len(link')
          PROVE  /\ link'[i].session <= session'
                 /\ link'[i].session = session' =>
                      link'[i].n <= sent' /\ (link'[i].data => link'[i].n < sent')
      <4>1. CASE i \in 1..Len(link) /\ link'[i] = link[i]
        <5>1. /\ link[i].session <= session
              /\ link[i].session = session =>
                   link[i].n <= sent /\ (link[i].data => link[i].n < sent)
          BY <4>1 DEF BulkInv, Sessions
        <5> QED  BY <2>3, <2>10, <4>1, <5>1
      <4>2. CASE link'[i] = m
        BY <2>0, <2>10, <4>2
      <4> QED  BY <2>11, <4>1, <4>2
    <3>2. ASSUME phase' = "power"
          PROVE  /\ \A i, j \in 1..Len(link') :
                      ~link'[i].data /\ i <= j => link'[j].session = session'
                 /\ reply' # << >> => \A i \in 1..Len(link') : link'[i].session = session'
      <4>1. phase = "power"
        BY <2>10, <3>2
      <4>2. \A i, j \in 1..Len(link) : ~link[i].data /\ i <= j => link[j].session = session
        BY <4>1 DEF BulkInv, Sessions
      <4>3. reply # << >> => \A i \in 1..Len(link) : link[i].session = session
        BY <4>1 DEF BulkInv, Sessions
      <4>4. \A i, j \in 1..Len(link') :
              ~link'[i].data /\ i <= j => link'[j].session = session'
        BY <2>0, <2>2, <2>10, <2>11, <4>2
      <4> QED  BY <2>0, <2>10, <2>11, <4>3, <4>4
    <3>3. ASSUME Fresh' PROVE \A i \in 1..Len(link') : link'[i].session = session'
      <4>1. \A i \in 1..Len(link) : link[i].session = session
        BY <2>10, <3>3 DEF BulkInv, Sessions, Fresh
      <4> QED  BY <2>0, <2>10, <2>11, <4>1
    <3> QED  BY <3>1, <3>2, <3>3 DEF Sessions
  <2>7. WithinTurn'
    BY HalfTurn, <2>10, <2>0, <2>2 DEF Awaits, BulkInv, Fresh, OneQuery,
         Serving, WaitAt, WithinTurn, sensorVars
  <2>8. Counts'
    <3>1. Fresh' => \A i \in 1..Len(link') : link'[i].data => pulled' <= link'[i].n
      <4> SUFFICES ASSUME Fresh', NEW i \in 1..Len(link'), link'[i].data
                   PROVE  pulled' <= link'[i].n
        OBVIOUS
      <4>1. Fresh /\ pulled' = pulled
        BY <2>10 DEF Fresh
      <4>2. CASE i \in 1..Len(link)
        BY <2>2, <4>1, <4>2 DEF BulkInv, Counts
      <4>3. CASE i = Len(link) + 1
        <5>1. pulled <= sent
          BY <4>1 DEF BulkInv, WithinTurn, Fresh
        <5> QED  BY <2>0, <2>2, <4>1, <4>3, <5>1
      <4> QED  BY <2>2, <4>2, <4>3
    <3>2. Fresh' => \A i \in 1..Len(raw_samples') :
            /\ raw_samples'[i].session = session'
            /\ pulled' <= raw_samples'[i].n /\ raw_samples'[i].n < sent'
      BY <2>10, <2>11, <2>0, <2>2, <2>3 DEF Awaits, BulkInv, Fresh,
           OneQuery, Serving,
           Sessions, Counts, WithinTurn, WaitAt, sensorVars
    <3>3. ASSUME phase' \in {"clock", "batch"}, reply' # << >>
          PROVE  /\ last_sequence' <= reply'[1] /\ reply'[1] <= sent'
                 /\ \A i \in 1..Len(link') : link'[i].data => reply'[1] <= link'[i].n
      <4>1. phase \in {"clock", "batch"} /\ reply # << >>
        BY <2>10, <3>3
      <4>2. /\ last_sequence <= reply[1] /\ reply[1] <= sent
            /\ \A i \in 1..Len(link) : link[i].data => reply[1] <= link[i].n
        BY <4>1 DEF BulkInv, Counts
      <4>3. ASSUME NEW i \in 1..Len(link'), link'[i].data PROVE reply[1] <= link'[i].n
        BY <2>0, <2>11, <4>2, <4>3
      <4>4. reply'[1] = reply[1] /\ last_sequence' = last_sequence /\ sent' = sent + 1
        BY <2>10
      <4>5. reply[1] \in Nat /\ sent \in Nat
        BY <2>3, <4>1
      <4> QED  BY <4>2, <4>3, <4>4, <4>5
    <3>4. ASSUME phase' \in {"clock", "batch"}
          PROVE  \A i, j \in 1..Len(link') :
                   ~link'[i].data => /\ last_sequence' <= link'[i].n
                                     /\ i <= j => link'[i].n <= link'[j].n
      <4>1. phase \in {"clock", "batch"}
        BY <2>10, <3>4
      <4>2. \A i, j \in 1..Len(link) :
              ~link[i].data => /\ last_sequence <= link[i].n
                               /\ i <= j => link[i].n <= link[j].n
        BY <4>1 DEF BulkInv, Counts
      <4>3. \A i \in 1..Len(link) : link[i].n <= sent
        BY <4>1 DEF BulkInv, Sessions, Fresh
      <4> QED  BY <2>0, <2>2, <2>3, <2>10, <2>11, <4>2, <4>3
    <3> QED  BY <3>1, <3>2, <3>3, <3>4 DEF Counts
  <2>9. Serving'
    BY <2>10, <2>11, <2>0, <2>2 DEF Awaits, BulkInv, Fresh, OneQuery,
         Serving, WaitAt, sensorVars
  <2> QED  BY <2>4, <2>5, <2>6, <2>7, <2>8, <2>9 DEF BulkInv
<1>2. CASE McuReplies
  <2> USE DEF BulkTypes
  <2> DEFINE m == [data |-> FALSE, n |-> sent, session |-> session]
  <2>0. m \in BulkMessage /\ m.data = FALSE /\ m.n = sent /\ m.session = session
    BY DEF BulkMessage
  <2> HIDE DEF m
  <2>1. link' = Append(link, m)
    BY <1>2 DEF McuReplies, m
  <2>2. /\ link' \in Seq(BulkMessage) /\ Len(link') = Len(link) + 1
        /\ \A i \in 1..Len(link) : link'[i] = link[i]
        /\ link'[Len(link) + 1] = m /\ Len(link) \in Nat
    BY <2>0, <2>1, OfAppend
  <2>4. BulkTypes'
    BY <1>2, <2>0, <2>2 DEF BulkTypes, McuReplies, WaitAt, sensorVars
  <2>5. OneQuery'
    BY <1>2, <2>0, <2>2 DEF Awaits, BulkInv, Fresh, McuReplies, OneQuery,
         Serving, WaitAt, sensorVars
  <2>6. Sessions'
    BY <1>2, <2>0, <2>2 DEF Awaits, BulkInv, Fresh, McuReplies, OneQuery,
         Serving, Sessions, WaitAt, sensorVars
  <2>7. WithinTurn'
    BY HalfTurn, <1>2, <2>0, <2>2 DEF Awaits, BulkInv, Fresh, McuReplies,
         OneQuery, Serving, WaitAt, WithinTurn, sensorVars
  <2>8. Counts'
    <3> USE Messages
    <3>1. Fresh' => \A i \in 1..Len(link') : link'[i].data => pulled' <= link'[i].n
      BY <1>2, <2>0, <2>2 DEF Awaits, BulkInv, Fresh, McuReplies,
           OneQuery, Serving,
           Sessions, Counts, WithinTurn, WaitAt, sensorVars
    <3>2. Fresh' => \A i \in 1..Len(raw_samples') :
            /\ raw_samples'[i].session = session'
            /\ pulled' <= raw_samples'[i].n /\ raw_samples'[i].n < sent'
      BY <1>2, <2>0, <2>2 DEF Awaits, BulkInv, Fresh, McuReplies,
           OneQuery, Serving,
           Sessions, Counts, WithinTurn, WaitAt, sensorVars
    <3>3. phase' \in {"clock", "batch"} /\ reply' # << >> =>
            /\ last_sequence' <= reply'[1] /\ reply'[1] <= sent'
            /\ \A i \in 1..Len(link') : link'[i].data => reply'[1] <= link'[i].n
      BY <1>2, <2>0, <2>2 DEF Awaits, BulkInv, Fresh, McuReplies,
           OneQuery, Serving,
           Sessions, Counts, WithinTurn, WaitAt, sensorVars
    <3>4. phase' \in {"clock", "batch"} =>
            \A i, j \in 1..Len(link') :
              ~link'[i].data => /\ last_sequence' <= link'[i].n
                                /\ i <= j => link'[i].n <= link'[j].n
      BY <1>2, <2>0, <2>2 DEF Awaits, BulkInv, Fresh, McuReplies,
           OneQuery, Serving,
           Sessions, Counts, WithinTurn, WaitAt, sensorVars
    <3> QED  BY <3>1, <3>2, <3>3, <3>4 DEF Counts
  <2>9. Serving'
    BY <1>2, <2>0, <2>2 DEF Awaits, BulkInv, Fresh, McuReplies, OneQuery,
         Serving, WaitAt, sensorVars
  <2> QED  BY <2>4, <2>5, <2>6, <2>7, <2>8, <2>9 DEF BulkInv
<1>3. CASE ReceiveBulk
  <2> USE DEF BulkTypes
  <2>1. /\ link # << >> /\ link' = Tail(link)
    BY <1>3 DEF ReceiveBulk
  <2>2. /\ link' \in Seq(BulkMessage) /\ Len(link') = Len(link) - 1
        /\ Len(link) \in Nat \ {0} /\ Head(link) = link[1] /\ link[1] \in BulkMessage
        /\ \A i \in 1..Len(link') : link'[i] = link[i + 1] /\ i + 1 \in 1..Len(link)
    BY <2>1, OfTail
  <2>0. Head(link).data \in BOOLEAN /\ Head(link).n \in Nat /\ Head(link).session \in Nat
    BY <2>2 DEF BulkMessage
  <2>3. /\ Len(raw_samples) \in Nat /\ Len(link) \in Nat
        /\ \A i \in 1..Len(raw_samples) : raw_samples[i].n \in Nat /\ raw_samples[i].session \in Nat
        /\ \A i \in 1..Len(link) : link[i].n \in Nat /\ link[i].session \in Nat
        /\ reply # << >> => reply[1] \in Nat
    BY Messages
  <2>4. BulkTypes'
    <3>1. raw_samples' \in Seq(BulkMessage)
      <4>1. raw_samples \in Seq(BulkMessage) /\ Head(link) \in BulkMessage
        BY <2>2 DEF BulkTypes
      <4>2. Append(raw_samples, Head(link)) \in Seq(BulkMessage)
        BY <4>1, OfAppend
      <4> QED  BY <1>3, <4>1, <4>2 DEF ReceiveBulk
    <3>2. reply' \in Seq(Nat)
      <4> DEFINE n == Head(link).n
      <4>1. n \in Nat /\ (reply' = <<n>> \/ reply' = reply)
        BY <1>3, <2>0 DEF ReceiveBulk
      <4> HIDE DEF n
      <4>2. reply \in Seq(Nat) /\ <<n>> \in Seq(Nat)
        BY <4>1
      <4> QED  BY <4>1, <4>2
    <3> QED  BY <1>3, <2>2, <3>1, <3>2 DEF BulkTypes, ReceiveBulk, sensorVars
  <2>10. /\ sent' = sent /\ session' = session /\ phase' = phase
         /\ sensor_on' = sensor_on /\ queried' = queried
         /\ is_started' = is_started /\ batch_timer' = batch_timer
         /\ client_cbs' = client_cbs /\ last_sequence' = last_sequence
         /\ pulled' = pulled
         /\ link[1].data => reply' = reply
         /\ ~link[1].data => reply' # << >> /\ reply'[1] = link[1].n /\ raw_samples' = raw_samples
    BY <1>3, <2>2 DEF ReceiveBulk, sensorVars
  <2>5. OneQuery'
    BY <1>3, <2>0, <2>2 DEF Awaits, BulkInv, Fresh, OneQuery, ReceiveBulk,
         Serving, WaitAt, sensorVars
  <2>6. Sessions'
    <3>1. /\ link[1].data \in BOOLEAN /\ 1 \in 1..Len(link)
          /\ ~link[1].data => reply' # << >>
      BY <2>0, <2>2, <2>10
    <3> USE Messages
    <3>2. \A i \in 1..Len(link') :
            /\ link'[i].session <= session'
            /\ link'[i].session = session' =>
                 link'[i].n <= sent' /\ (link'[i].data => link'[i].n < sent')
      BY <2>2, <2>10 DEF BulkInv, Sessions
    <3>3. ASSUME phase' = "power"
          PROVE  /\ \A i, j \in 1..Len(link') :
                      ~link'[i].data /\ i <= j => link'[j].session = session'
                 /\ reply' # << >> => \A i \in 1..Len(link') : link'[i].session = session'
      <4>1. phase = "power"
        BY <2>10, <3>3
      <4>2. /\ \A i, j \in 1..Len(link) : ~link[i].data /\ i <= j => link[j].session = session
            /\ reply # << >> => \A i \in 1..Len(link) : link[i].session = session
        BY <4>1 DEF BulkInv, Sessions
      <4>3. \A i, j \in 1..Len(link') :
              ~link'[i].data /\ i <= j => link'[j].session = session'
        <5> SUFFICES ASSUME NEW i \in 1..Len(link'), NEW j \in 1..Len(link'),
                            ~link'[i].data, i <= j
                     PROVE  link'[j].session = session'
          OBVIOUS
        <5>1. /\ i + 1 \in 1..Len(link) /\ j + 1 \in 1..Len(link) /\ i + 1 <= j + 1
              /\ ~link[i + 1].data
          BY <2>2
        <5>2. link[j + 1].session = session
          BY <4>2, <5>1
        <5> QED  BY <2>2, <2>10, <5>2
      <4>4. CASE link[1].data
        <5>1. reply' # << >> => \A i \in 1..Len(link) : link[i].session = session
          BY <2>10, <4>2, <4>4
        <5>2. reply' # << >> => \A i \in 1..Len(link') : link'[i].session = session'
          BY <2>2, <2>10, <5>1
        <5> QED  BY <4>3, <5>2
      <4>5. CASE ~link[1].data
        <5>1. \A j \in 1..Len(link) : link[j].session = session
          BY <3>1, <4>2, <4>5
        <5>2. \A i \in 1..Len(link') : link'[i].session = session'
          BY <2>2, <2>10, <5>1
        <5> QED  BY <4>3, <5>2
      <4> QED  BY <3>1, <4>4, <4>5
    <3>4. Fresh' => \A i \in 1..Len(link') : link'[i].session = session'
      <4>1. Fresh' => Fresh
        BY <2>10 DEF Fresh
      <4>2. Fresh => \A i \in 1..Len(link) : link[i].session = session
        BY DEF BulkInv, Sessions
      <4> QED  BY <2>2, <2>10, <4>1, <4>2
    <3> QED  BY <3>2, <3>3, <3>4 DEF Sessions
  <2>7. WithinTurn'
    BY HalfTurn, <1>3, <2>0, <2>2 DEF Awaits, BulkInv, Fresh, OneQuery,
         ReceiveBulk, Serving, WaitAt, WithinTurn, sensorVars
  <2>8. Counts'
    <3>1. Fresh' => \A i \in 1..Len(link') : link'[i].data => pulled' <= link'[i].n
      BY <1>3, <2>0, <2>2, <2>3 DEF Awaits, BulkInv, Fresh, ReceiveBulk,
           OneQuery, Serving,
           Sessions, Counts, WithinTurn, WaitAt, sensorVars
    <3>2. Fresh' => \A i \in 1..Len(raw_samples') :
            /\ raw_samples'[i].session = session'
            /\ pulled' <= raw_samples'[i].n /\ raw_samples'[i].n < sent'
      <4> SUFFICES ASSUME Fresh', NEW i \in 1..Len(raw_samples')
                   PROVE  /\ raw_samples'[i].session = session'
                          /\ pulled' <= raw_samples'[i].n /\ raw_samples'[i].n < sent'
        OBVIOUS
      <4>1. /\ Fresh /\ pulled' = pulled /\ sent' = sent /\ session' = session
            /\ raw_samples' = raw_samples \/ (Head(link).data /\ raw_samples' = Append(raw_samples, Head(link)))
        BY <1>3 DEF ReceiveBulk, Fresh, sensorVars
      <4>2. CASE raw_samples' = raw_samples
        BY <4>1, <4>2 DEF BulkInv, Counts
      <4>3. CASE Head(link).data /\ raw_samples' = Append(raw_samples, Head(link))
        <5> DEFINE m == Head(link)
        <5>1. /\ m.session = session /\ pulled <= m.n /\ m.n < sent
              /\ m \in BulkMessage
          <6>1. m = link[1] /\ link[1].data /\ 1 \in 1..Len(link)
            BY <2>2, <4>3
          <6>2. link[1].session = session /\ pulled <= link[1].n
            BY <4>1, <6>1 DEF BulkInv, Counts, Sessions
          <6>3. link[1].n < sent
            BY <6>1, <6>2 DEF BulkInv, Sessions
          <6> QED  BY <2>2, <6>1, <6>2, <6>3
        <5> HIDE DEF m
        <5>2. /\ Len(raw_samples') = Len(raw_samples) + 1
              /\ \A j \in 1..Len(raw_samples) : raw_samples'[j] = raw_samples[j]
              /\ raw_samples'[Len(raw_samples) + 1] = m
          BY <4>3, <5>1, OfAppend DEF m
        <5>3. CASE i \in 1..Len(raw_samples)
          BY <4>1, <5>2, <5>3 DEF BulkInv, Counts
        <5>4. CASE i = Len(raw_samples) + 1
          BY <4>1, <5>1, <5>2, <5>4
        <5> QED  BY <2>3, <5>2, <5>3, <5>4
      <4> QED  BY <4>1, <4>2, <4>3
    <3>3. phase' \in {"clock", "batch"} /\ reply' # << >> =>
            /\ last_sequence' <= reply'[1] /\ reply'[1] <= sent'
            /\ \A i \in 1..Len(link') : link'[i].data => reply'[1] <= link'[i].n
      <4> SUFFICES ASSUME phase' \in {"clock", "batch"}, reply' # << >>
                   PROVE  /\ last_sequence' <= reply'[1] /\ reply'[1] <= sent'
                          /\ \A i \in 1..Len(link') : link'[i].data => reply'[1] <= link'[i].n
        OBVIOUS
      <4>1. /\ phase \in {"clock", "batch"} /\ Fresh /\ last_sequence' = last_sequence
            /\ sent' = sent /\ session' = session
        BY <1>3 DEF ReceiveBulk, Fresh, sensorVars
      <4>2. CASE Head(link).data
        <5>1. reply' = reply
          BY <1>3, <4>2 DEF ReceiveBulk
        <5> QED  BY <2>2, <4>1, <5>1 DEF BulkInv, Counts
      <4>3. CASE ~Head(link).data
        <5>1. reply'[1] = link[1].n /\ ~link[1].data /\ 1 \in 1..Len(link)
          BY <1>3, <2>2, <4>3 DEF ReceiveBulk
        <5>2. /\ last_sequence <= link[1].n
              /\ \A j \in 1..Len(link) : link[1].n <= link[j].n
          BY <4>1, <5>1 DEF BulkInv, Counts
        <5>3. link[1].n <= sent
          BY <4>1, <5>1 DEF BulkInv, Sessions
        <5> QED  BY <2>2, <4>1, <5>1, <5>2, <5>3
      <4> QED  BY <4>2, <4>3
    <3>4. phase' \in {"clock", "batch"} =>
            \A i, j \in 1..Len(link') :
              ~link'[i].data => /\ last_sequence' <= link'[i].n
                                /\ i <= j => link'[i].n <= link'[j].n
      BY <1>3, <2>0, <2>2, <2>3 DEF Awaits, BulkInv, Fresh, ReceiveBulk,
           OneQuery, Serving,
           Sessions, Counts, WithinTurn, WaitAt, sensorVars
    <3> QED  BY <3>1, <3>2, <3>3, <3>4 DEF Counts
  <2>9. Serving'
    BY <1>3, <2>0, <2>2 DEF Awaits, BulkInv, Fresh, OneQuery, ReceiveBulk,
         Serving, WaitAt, sensorVars
  <2> QED  BY <2>4, <2>5, <2>6, <2>7, <2>8, <2>9 DEF BulkInv
<1>4. CASE AddClient
  <2> USE DEF BulkTypes
  <2>4. BulkTypes'
    <3>1. is_started' \in BOOLEAN /\ sensor_on' \in BOOLEAN /\ batch_timer' \in BOOLEAN
          /\ queried' \in BOOLEAN
      BY <1>4, Zenon DEF BulkTypes, AddClient, sensorVars
    <3> QED  BY <1>4, <3>1, EmptySeqs DEF BulkTypes, AddClient, WaitAt, sensorVars
  <2>5. OneQuery'
    BY <1>4 DEF AddClient, Awaits, BulkInv, Fresh, OneQuery, Serving,
         WaitAt, sensorVars
  <2>6. Sessions'
    BY <1>4 DEF AddClient, Awaits, BulkInv, Fresh, OneQuery, Serving,
         Sessions, WaitAt, sensorVars
  <2>7. WithinTurn'
    BY HalfTurn, <1>4 DEF AddClient, Awaits, BulkInv, Fresh, OneQuery,
         Serving, WaitAt, WithinTurn, sensorVars
  <2>8. Counts'
    BY <1>4 DEF AddClient, Awaits, BulkInv, Counts, Fresh, OneQuery,
         Serving, WaitAt, sensorVars
  <2>9. Serving'
    BY <1>4 DEF AddClient, Awaits, BulkInv, Fresh, OneQuery, Serving,
         WaitAt, sensorVars
  <2> QED  BY <2>4, <2>5, <2>6, <2>7, <2>8, <2>9 DEF BulkInv
<1>5. CASE StartFails
  <2> USE DEF BulkTypes
  <2>4. BulkTypes'
    <3>1. is_started' \in BOOLEAN /\ sensor_on' \in BOOLEAN /\ batch_timer' \in BOOLEAN
          /\ queried' \in BOOLEAN
      BY <1>5, Zenon DEF BulkTypes, StartFails, sensorVars
    <3> QED  BY <1>5, <3>1, EmptySeqs DEF BulkTypes, StartFails, WaitAt, sensorVars
  <2>5. OneQuery'
    BY <1>5 DEF Awaits, BulkInv, Fresh, OneQuery, Serving, StartFails,
         WaitAt, sensorVars
  <2>6. Sessions'
    BY <1>5 DEF Awaits, BulkInv, Fresh, OneQuery, Serving, Sessions,
         StartFails, WaitAt, sensorVars
  <2>7. WithinTurn'
    BY HalfTurn, <1>5 DEF Awaits, BulkInv, Fresh, OneQuery, Serving,
         StartFails, WaitAt, WithinTurn, sensorVars
  <2>8. Counts'
    BY <1>5 DEF Awaits, BulkInv, Counts, Fresh, OneQuery, Serving,
         StartFails, WaitAt, sensorVars
  <2>9. Serving'
    BY <1>5 DEF Awaits, BulkInv, Fresh, OneQuery, Serving, StartFails,
         WaitAt, sensorVars
  <2> QED  BY <2>4, <2>5, <2>6, <2>7, <2>8, <2>9 DEF BulkInv
<1>6. CASE SendStart
  <2> USE DEF BulkTypes
  <2>4. BulkTypes'
    BY <1>6 DEF BulkTypes, SendStart, WaitAt, sensorVars
  <2>5. OneQuery'
    BY <1>6 DEF Awaits, BulkInv, Fresh, OneQuery, SendStart, Serving,
         WaitAt, sensorVars
  <2>6. Sessions'
    <3> USE Messages
    <3>1. \A i \in 1..Len(link') :
            /\ link'[i].session <= session'
            /\ link'[i].session = session' =>
                 link'[i].n <= sent' /\ (link'[i].data => link'[i].n < sent')
      BY <1>6 DEF Awaits, BulkInv, Fresh, SendStart, OneQuery, Serving,
           Sessions, WithinTurn, WaitAt, sensorVars
    <3>2. phase' = "power" =>
            /\ \A i, j \in 1..Len(link') :
                 ~link'[i].data /\ i <= j => link'[j].session = session'
            /\ reply' # << >> => \A i \in 1..Len(link') : link'[i].session = session'
      BY <1>6 DEF Awaits, BulkInv, Fresh, SendStart, OneQuery, Serving,
           Sessions, WithinTurn, WaitAt, sensorVars
    <3>3. Fresh' => \A i \in 1..Len(link') : link'[i].session = session'
      BY <1>6 DEF Awaits, BulkInv, Fresh, SendStart, OneQuery, Serving,
           Sessions, WithinTurn, WaitAt, sensorVars
    <3> QED  BY <3>1, <3>2, <3>3 DEF Sessions
  <2>7. WithinTurn'
    BY HalfTurn, <1>6 DEF Awaits, BulkInv, Fresh, OneQuery, SendStart,
         Serving, WaitAt, WithinTurn, sensorVars
  <2>8. Counts'
    BY <1>6 DEF Awaits, BulkInv, Counts, Fresh, OneQuery, SendStart,
         Serving, WaitAt, sensorVars
  <2>9. Serving'
    BY <1>6 DEF Awaits, BulkInv, Fresh, OneQuery, SendStart, Serving,
         WaitAt, sensorVars
  <2> QED  BY <2>4, <2>5, <2>6, <2>7, <2>8, <2>9 DEF BulkInv
<1>7. CASE NoteStart
  <2> USE DEF BulkTypes
  <2>4. BulkTypes'
    BY <1>7 DEF BulkTypes, NoteStart, WaitAt, sensorVars
  <2>5. OneQuery'
    BY <1>7 DEF Awaits, BulkInv, Fresh, NoteStart, OneQuery, Serving,
         WaitAt, sensorVars
  <2>6. Sessions'
    BY <1>7 DEF Awaits, BulkInv, Fresh, NoteStart, OneQuery, Serving,
         Sessions, WaitAt, sensorVars
  <2>7. WithinTurn'
    BY HalfTurn, <1>7 DEF Awaits, BulkInv, Fresh, NoteStart, OneQuery,
         Serving, WaitAt, WithinTurn, sensorVars
  <2>8. Counts'
    <3> USE Messages
    <3>1. Fresh' => \A i \in 1..Len(link') : link'[i].data => pulled' <= link'[i].n
      BY <1>7 DEF Awaits, BulkInv, Fresh, NoteStart, OneQuery, Serving,
           Sessions, Counts, WithinTurn, WaitAt, sensorVars
    <3>2. Fresh' => \A i \in 1..Len(raw_samples') :
            /\ raw_samples'[i].session = session'
            /\ pulled' <= raw_samples'[i].n /\ raw_samples'[i].n < sent'
      BY <1>7 DEF Awaits, BulkInv, Fresh, NoteStart, OneQuery, Serving,
           Sessions, Counts, WithinTurn, WaitAt, sensorVars
    <3>3. phase' \in {"clock", "batch"} /\ reply' # << >> =>
            /\ last_sequence' <= reply'[1] /\ reply'[1] <= sent'
            /\ \A i \in 1..Len(link') : link'[i].data => reply'[1] <= link'[i].n
      BY <1>7 DEF Awaits, BulkInv, Fresh, NoteStart, OneQuery, Serving,
           Sessions, Counts, WithinTurn, WaitAt, sensorVars
    <3>4. phase' \in {"clock", "batch"} =>
            \A i, j \in 1..Len(link') :
              ~link'[i].data => /\ last_sequence' <= link'[i].n
                                /\ i <= j => link'[i].n <= link'[j].n
      BY <1>7 DEF Awaits, BulkInv, Fresh, NoteStart, OneQuery, Serving,
           Sessions, Counts, WithinTurn, WaitAt, sensorVars
    <3> QED  BY <3>1, <3>2, <3>3, <3>4 DEF Counts
  <2>9. Serving'
    BY <1>7 DEF Awaits, BulkInv, Fresh, NoteStart, OneQuery, Serving,
         WaitAt, sensorVars
  <2> QED  BY <2>4, <2>5, <2>6, <2>7, <2>8, <2>9 DEF BulkInv
<1>8. CASE StartDone
  <2> USE DEF BulkTypes
  <2>1. phase \in {"clock", "batch"} /\ reply # << >>
    BY <1>8 DEF StartDone
  <2>2. /\ reply[1] \in Nat /\ Updated(reply[1]) = reply[1]
        /\ pulled <= last_sequence /\ last_sequence <= reply[1] /\ reply[1] <= sent
        /\ sent <= pulled + SeqTurn \div 2
    BY <2>1, UpdatedIs
  <2>4. BulkTypes'
    BY <1>8, <2>2 DEF BulkTypes, StartDone, WaitAt, sensorVars
  <2>5. OneQuery'
    BY <1>8, <2>2 DEF Awaits, BulkInv, Fresh, OneQuery, Serving,
         StartDone, WaitAt, sensorVars
  <2>6. Sessions'
    BY <1>8, <2>2 DEF Awaits, BulkInv, Fresh, OneQuery, Serving, Sessions,
         StartDone, WaitAt, sensorVars
  <2>7. WithinTurn'
    BY HalfTurn, <1>8, <2>2 DEF Awaits, BulkInv, Fresh, OneQuery, Serving,
         StartDone, WaitAt, WithinTurn, sensorVars
  <2>8. Counts'
    BY <1>8, <2>2 DEF Awaits, BulkInv, Counts, Fresh, OneQuery, Serving,
         StartDone, WaitAt, sensorVars
  <2>9. Serving'
    BY <1>8, <2>2 DEF Awaits, BulkInv, Fresh, OneQuery, Serving,
         StartDone, WaitAt, sensorVars
  <2> QED  BY <2>4, <2>5, <2>6, <2>7, <2>8, <2>9 DEF BulkInv
<1>9. CASE ProcBatch
  <2> USE DEF BulkTypes
  <2>4. BulkTypes'
    BY <1>9 DEF BulkTypes, ProcBatch, WaitAt, sensorVars
  <2>5. OneQuery'
    BY <1>9 DEF Awaits, BulkInv, Fresh, OneQuery, ProcBatch, Serving,
         WaitAt, sensorVars
  <2>6. Sessions'
    BY <1>9 DEF Awaits, BulkInv, Fresh, OneQuery, ProcBatch, Serving,
         Sessions, WaitAt, sensorVars
  <2>7. WithinTurn'
    BY HalfTurn, <1>9 DEF Awaits, BulkInv, Fresh, OneQuery, ProcBatch,
         Serving, WaitAt, WithinTurn, sensorVars
  <2>8. Counts'
    BY <1>9 DEF Awaits, BulkInv, Counts, Fresh, OneQuery, ProcBatch,
         Serving, WaitAt, sensorVars
  <2>9. Serving'
    BY <1>9 DEF Awaits, BulkInv, Fresh, OneQuery, ProcBatch, Serving,
         WaitAt, sensorVars
  <2> QED  BY <2>4, <2>5, <2>6, <2>7, <2>8, <2>9 DEF BulkInv
<1>10. CASE PullSamples
  <2> USE DEF BulkTypes
  <2>1. phase \in {"clock", "batch"} /\ reply # << >>
    BY <1>10 DEF PullSamples
  <2>2. /\ reply[1] \in Nat /\ Updated(reply[1]) = reply[1]
        /\ pulled <= last_sequence /\ last_sequence <= reply[1] /\ reply[1] <= sent
        /\ sent <= pulled + SeqTurn \div 2
    BY <2>1, UpdatedIs
  <2>4. BulkTypes'
    BY <1>10, <2>2 DEF BulkTypes, PullSamples, WaitAt, sensorVars
  <2>5. OneQuery'
    BY <1>10, <2>2 DEF Awaits, BulkInv, Fresh, OneQuery, PullSamples,
         Serving, WaitAt, sensorVars
  <2>6. Sessions'
    BY <1>10, <2>2 DEF Awaits, BulkInv, Fresh, OneQuery, PullSamples,
         Serving, Sessions, WaitAt, sensorVars
  <2>7. WithinTurn'
    <3> DEFINE h == SeqTurn \div 2
               l == reply[1]
    <3>1. h \in Nat /\ l \in Nat /\ pulled <= l /\ l <= sent /\ sent <= pulled + h
      BY <2>2, HalfTurn
    <3>2. pulled' = l /\ last_sequence' = l /\ sent' = sent /\ phase' \in {"off", "idle"}
      BY <1>10, <2>2 DEF PullSamples, WaitAt, sensorVars
    <3> HIDE DEF h, l
    <3>3. sent <= l + h
      BY <3>1
    <3> QED  BY <3>1, <3>2, <3>3 DEF WithinTurn, Fresh, h
  <2>8. Counts'
    BY <1>10, <2>2 DEF Awaits, BulkInv, Counts, Fresh, OneQuery,
         PullSamples, Serving, WaitAt, sensorVars
  <2>9. Serving'
    BY <1>10, <2>2 DEF Awaits, BulkInv, Fresh, OneQuery, PullSamples,
         Serving, WaitAt, sensorVars
  <2> QED  BY <2>4, <2>5, <2>6, <2>7, <2>8, <2>9 DEF BulkInv
<1>11. CASE BatchFails
  <2> USE DEF BulkTypes
  <2>4. BulkTypes'
    <3>1. is_started' \in BOOLEAN /\ sensor_on' \in BOOLEAN /\ batch_timer' \in BOOLEAN
          /\ queried' \in BOOLEAN
      BY <1>11, Zenon DEF BulkTypes, BatchFails, sensorVars
    <3> QED  BY <1>11, <3>1, EmptySeqs DEF BulkTypes, BatchFails, WaitAt, sensorVars
  <2>5. OneQuery'
    BY <1>11 DEF Awaits, BatchFails, BulkInv, Fresh, OneQuery, Serving,
         WaitAt, sensorVars
  <2>6. Sessions'
    BY <1>11 DEF Awaits, BatchFails, BulkInv, Fresh, OneQuery, Serving,
         Sessions, WaitAt, sensorVars
  <2>7. WithinTurn'
    BY HalfTurn, <1>11 DEF Awaits, BatchFails, BulkInv, Fresh, OneQuery,
         Serving, WaitAt, WithinTurn, sensorVars
  <2>8. Counts'
    BY <1>11 DEF Awaits, BatchFails, BulkInv, Counts, Fresh, OneQuery,
         Serving, WaitAt, sensorVars
  <2>9. Serving'
    BY <1>11 DEF Awaits, BatchFails, BulkInv, Fresh, OneQuery, Serving,
         WaitAt, sensorVars
  <2> QED  BY <2>4, <2>5, <2>6, <2>7, <2>8, <2>9 DEF BulkInv
<1>12. CASE SendStop
  <2> USE DEF BulkTypes
  <2>4. BulkTypes'
    <3>1. is_started' \in BOOLEAN /\ sensor_on' \in BOOLEAN /\ batch_timer' \in BOOLEAN
          /\ queried' \in BOOLEAN
      BY <1>12, Zenon DEF BulkTypes, SendStop, sensorVars
    <3> QED  BY <1>12, <3>1, EmptySeqs DEF BulkTypes, SendStop, WaitAt, sensorVars
  <2>5. OneQuery'
    BY <1>12 DEF Awaits, BulkInv, Fresh, OneQuery, SendStop, Serving,
         WaitAt, sensorVars
  <2>6. Sessions'
    BY <1>12 DEF Awaits, BulkInv, Fresh, OneQuery, SendStop, Serving,
         Sessions, WaitAt, sensorVars
  <2>7. WithinTurn'
    BY HalfTurn, <1>12 DEF Awaits, BulkInv, Fresh, OneQuery, SendStop,
         Serving, WaitAt, WithinTurn, sensorVars
  <2>8. Counts'
    BY <1>12 DEF Awaits, BulkInv, Counts, Fresh, OneQuery, SendStop,
         Serving, WaitAt, sensorVars
  <2>9. Serving'
    BY <1>12 DEF Awaits, BulkInv, Fresh, OneQuery, SendStop, Serving,
         WaitAt, sensorVars
  <2> QED  BY <2>4, <2>5, <2>6, <2>7, <2>8, <2>9 DEF BulkInv
<1>13. CASE StopFails
  <2> USE DEF BulkTypes
  <2>4. BulkTypes'
    <3>1. is_started' \in BOOLEAN /\ sensor_on' \in BOOLEAN /\ batch_timer' \in BOOLEAN
          /\ queried' \in BOOLEAN
      BY <1>13, Zenon DEF BulkTypes, StopFails, sensorVars
    <3> QED  BY <1>13, <3>1, EmptySeqs DEF BulkTypes, StopFails, WaitAt, sensorVars
  <2>5. OneQuery'
    BY <1>13 DEF Awaits, BulkInv, Fresh, OneQuery, Serving, StopFails,
         WaitAt, sensorVars
  <2>6. Sessions'
    BY <1>13 DEF Awaits, BulkInv, Fresh, OneQuery, Serving, Sessions,
         StopFails, WaitAt, sensorVars
  <2>7. WithinTurn'
    BY HalfTurn, <1>13 DEF Awaits, BulkInv, Fresh, OneQuery, Serving,
         StopFails, WaitAt, WithinTurn, sensorVars
  <2>8. Counts'
    BY <1>13 DEF Awaits, BulkInv, Counts, Fresh, OneQuery, Serving,
         StopFails, WaitAt, sensorVars
  <2>9. Serving'
    BY <1>13 DEF Awaits, BulkInv, Fresh, OneQuery, Serving, StopFails,
         WaitAt, sensorVars
  <2> QED  BY <2>4, <2>5, <2>6, <2>7, <2>8, <2>9 DEF BulkInv
<1>14. CASE StopDone
  <2> USE DEF BulkTypes
  <2>4. BulkTypes'
    BY <1>14 DEF BulkTypes, Restarts, StopDone, WaitAt, sensorVars
  <2>5. OneQuery'
    BY <1>14 DEF Awaits, BulkInv, Fresh, OneQuery, Restarts, Serving,
         StopDone, WaitAt, sensorVars
  <2>6. Sessions'
    BY <1>14 DEF Awaits, BulkInv, Fresh, OneQuery, Restarts, Serving,
         Sessions, StopDone, WaitAt, sensorVars
  <2>7. WithinTurn'
    BY HalfTurn, <1>14 DEF Awaits, BulkInv, Fresh, OneQuery, Restarts,
         Serving, StopDone, WaitAt, WithinTurn, sensorVars
  <2>8. Counts'
    BY <1>14 DEF Awaits, BulkInv, Counts, Fresh, OneQuery, Restarts,
         Serving, StopDone, WaitAt, sensorVars
  <2>9. Serving'
    BY <1>14 DEF Awaits, BulkInv, Fresh, OneQuery, Restarts, Serving,
         StopDone, WaitAt, sensorVars
  <2> QED  BY <2>4, <2>5, <2>6, <2>7, <2>8, <2>9 DEF BulkInv
<1>15. CASE UNCHANGED bulkVars
  BY <1>15 DEF bulkVars, BulkTypes, BulkInv, OneQuery, Sessions,
       WithinTurn, Counts,
       Serving, Fresh, Awaits
<1> QED  BY <1>1, <1>2, <1>3, <1>4, <1>5, <1>6, <1>7, <1>8, <1>9, <1>10, <1>11, <1>12, <1>13, <1>14, <1>15 DEF BulkNext

\* What is served and how it is numbered follow from the invariant.
LEMMA BatchesFollow == BulkTypes /\ BulkInv => BatchesSound
<1> SUFFICES ASSUME BulkTypes, BulkInv PROVE BatchesSound
  OBVIOUS
<1>1. Served
  BY DEF Served, BulkInv, Serving
<1>2. ASSUME phase = "batch", reply # << >>, NEW i \in DOMAIN raw_samples
      PROVE  /\ raw_samples[i].session = session
             /\ Number(raw_samples[i], reply[1]) = raw_samples[i].n
  <2> DEFINE n == raw_samples[i].n
             h == SeqTurn \div 2
  <2>1. i \in 1..Len(raw_samples) /\ n \in Nat
    <3>1. raw_samples \in Seq(BulkMessage)
      BY DEF BulkTypes
    <3>2. i \in 1..Len(raw_samples) /\ raw_samples[i] \in BulkMessage
      BY <1>2, <3>1
    <3> QED  BY <3>2 DEF BulkMessage
  <2>2. raw_samples[i].session = session /\ pulled <= n /\ n < sent
    BY <1>2, <2>1 DEF BulkInv, Counts, Fresh
  <2>3. /\ reply[1] \in Nat /\ Updated(reply[1]) = reply[1]
        /\ pulled <= reply[1] /\ reply[1] <= sent /\ sent <= pulled + h
    BY <1>2, UpdatedIs DEF BulkTypes
  <2>4. n - reply[1] < h /\ reply[1] - n <= h
    <3>1. reply[1] \in Nat /\ n \in Nat /\ h \in Nat /\ pulled \in Nat /\ sent \in Nat
      BY <2>1, <2>3, HalfTurn DEF BulkTypes
    <3> DEFINE l == reply[1]
    <3>2. l \in Nat /\ pulled <= n /\ n < sent /\ pulled <= l /\ l <= sent /\ sent <= pulled + h
      BY <2>2, <2>3
    <3> HIDE DEF n, h, l
    <3>3. n - l < h /\ l - n <= h
      BY <3>1, <3>2
    <3> QED  BY <3>3 DEF l
  <2>5. Number(raw_samples[i], reply[1]) = n
    <3> DEFINE l == reply[1]
    <3>1. n \in Int /\ l \in Int /\ n - l < SeqTurn \div 2 /\ l - n <= SeqTurn \div 2
      BY <2>1, <2>3, <2>4
    <3> HIDE DEF n, l
    <3>2. ExtendNearest(l, n % SeqTurn, SeqTurn) = n
      BY <3>1, NearestExact, BulkAssumption
    <3> QED  BY <2>3, <3>2 DEF Number, l, n
  <2> QED  BY <2>2, <2>5
<1> QED  BY <1>1, <1>2 DEF BatchesSound, Numbered

\* Whoever comes while the sensor is being started or stopped is served, and
\* what is pulled is of this start and gets the number it was sent with
\* (bulk_sensor.py:40-91, 205-297).
THEOREM BatchesAreSound == BulkSpec => []BatchesSound
<1>1. BulkSpec => [](BulkTypes /\ BulkInv)
  BY BulkInitInv, BulkStep, PTL DEF BulkSpec
<1> QED  BY <1>1, BatchesFollow, PTL
===============================================================================
