--------------------------- MODULE PrintJobProofs ---------------------------
(***************************************************************************)
(* What is proved of a print from the virtual sdcard, for every file, any  *)
(* number of greenlets and commands: its types, that the g-code mutex is   *)
(* sound and the worker known (MutexSound), that the filament is           *)
(* (FilamentKnown), that an end is reported once (EndReportedOnce), and    *)
(* that a print is taken up where it was left and, when no filament sensor *)
(* pauses it from outside the mutex, only when it is resumed               *)
(* (UsersServed).                                                          *)
(***************************************************************************)
EXTENDS PrintJob, TLAPS

-----------------------------------------------------------------------------
(* The invariant.                                                          *)

Greenlets == Actors \union {"worker"}

Waiting(q) == {q[i] : i \in 1..Len(q)}

\* Nobody waits for a mutex that is free, nor twice, nor for what it holds.
Exclusive(o, q) ==
  /\ o = "none" => q = << >>
  /\ \A i, j \in 1..Len(q) : i # j => q[i] # q[j]
  /\ o \notin Waiting(q)

\* Where a greenlet is when it holds the mutex or waits for it.
ActorInv(a) ==
  /\ a \in Waiting(queue) => pc[a] = "locking"
  /\ owner = a => pc[a] \in {"locking", "pausing"} /\ cmd[a] # "none"
  /\ pc[a] = "pausing" /\ cmd[a] # "none" => owner = a
  /\ pc[a] = "locking" => cmd[a] # "none"
  /\ pc[a] \in {"idle", "delay"} => cmd[a] = "none"

MutexInv ==
  /\ Exclusive(owner, queue)
  /\ owner = "worker" => worker \in {"m400", "script", "on_error"}
  /\ worker \in {"m400", "script"} => owner = "worker"
  /\ "worker" \in Waiting(queue) => worker = "on_error"
  /\ \A a \in Actors : ActorInv(a)

\* The worker is there as long as its timer.  Between two lines it is asked
\* to stop, or has a file, at the first line that was not done.
WorkInv ==
  /\ sd.work_timer <=> worker # "none"
  /\ worker \notin {"none", "start"} /\ ~sd.must_pause_work => sd.file
  /\ sd.file => sd.file_position = last_line
  /\ worker \in {"m400", "wait", "script"} =>
       sd.next_file_position = last_line + 1 /\ last_line < Len(File)

\* Who waits in do_pause has asked the worker that is there to stop.
PauseInv ==
  \A a \in Actors : owner = a /\ pc[a] = "pausing" =>
    (sd.work_timer => sd.must_pause_work)

\* What is reported of the print.
StatsInv ==
  /\ ps.state = "printing" => ps.started
  /\ ps.state = "printing" /\ sd.file => sd.work_timer
  /\ ps.state \in {"cancelled", "error", "complete"} => ~ps.started
  /\ ps.state \in {"cancelled", "complete"} => ~sd.file

\* A change of filament is waited for, or is done, or was broken off.
FilamentInv ==
  /\ sd.change_filament => worker = "wait"
  /\ worker = "wait" /\ ~sd.change_filament =>
       loaded = sd.print_channel \/ broken_off
  /\ FilamentKnown

SdState == [work_timer : BOOLEAN, must_pause_work : BOOLEAN,
            cmd_from_sd : BOOLEAN, file : BOOLEAN,
            file_position : 0..Len(File), next_file_position : 0..Len(File),
            load_channel : Channels, print_channel : Channels,
            change_filament : BOOLEAN, enable_ffm : BOOLEAN]
PrState == [is_paused : BOOLEAN, sd_paused : BOOLEAN,
            pause_command_sent : BOOLEAN]
PsState == [state : {"standby", "printing", "paused", "complete", "error",
                     "cancelled"},
            started : BOOLEAN, paused : BOOLEAN]

MutexGood ==
  /\ owner \in Greenlets \union {"none"} /\ queue \in Seq(Greenlets)
  /\ pc \in [Actors -> {"idle", "locking", "pausing", "delay"}]
  /\ cmd \in [Actors -> AllCommands \union {"none"}]
  /\ given \in 0..MaxCommands /\ ready \in BOOLEAN
  /\ MutexInv

JobGood ==
  /\ sd \in SdState /\ pr \in PrState /\ ps \in PsState
  /\ worker \in {"none", "start", "loop", "m400", "wait", "script", "on_error"}
  /\ loaded \in Channels /\ last_line \in 0..Len(File)
  /\ broken_off \in BOOLEAN /\ in_spite \in BOOLEAN /\ refused \in BOOLEAN
  /\ WorkInv /\ StatsInv /\ FilamentInv

IInv == MutexGood /\ JobGood /\ PauseInv

LEMMA Invariants == IInv => TypeOK /\ MutexSound /\ FilamentKnown
BY DEF IInv, MutexGood, JobGood, TypeOK, SdState, PrState, PsState, Greenlets,
       MutexSound, WorkerKnown, MutexInv, Exclusive, Waiting, WorkInv,
       StatsInv, FilamentInv

LEMMA Names ==
  /\ "none" \notin Greenlets /\ "worker" \notin Actors
  /\ "worker" \in Greenlets /\ \A a \in Actors : a \in Greenlets
  /\ Channel0 \in Channels /\ "none" \notin AllCommands
  /\ \A k \in Commands : k \in AllCommands
  /\ \A c \in Clients : c \in Actors
  /\ \A s \in Sensors : s \in Actors
  /\ File \in Seq(LineKinds \union Channels) /\ Len(File) \in Nat
  /\ MaxCommands \in Nat
BY JobAssumption DEF Greenlets, Actors, AllCommands

-----------------------------------------------------------------------------
(* The mutex.                                                              *)

LEMMA FirstOf ==
  ASSUME NEW S, NEW q \in Seq(S), q # << >>
  PROVE  /\ Head(q) \in S /\ Tail(q) \in Seq(S)
         /\ Len(Tail(q)) = Len(q) - 1 /\ Len(q) \in Nat /\ Len(q) > 0
         /\ Head(q) = q[1]
         /\ \A i \in 1..Len(Tail(q)) : Tail(q)[i] = q[i + 1]
                                       /\ i + 1 \in 1..Len(q)
OBVIOUS

LEMMA LastOf ==
  ASSUME NEW S, NEW q \in Seq(S), NEW e \in S
  PROVE  /\ Append(q, e) \in Seq(S) /\ Len(Append(q, e)) = Len(q) + 1
         /\ Len(q) \in Nat
         /\ \A i \in 1..Len(q) : Append(q, e)[i] = q[i]
         /\ Append(q, e)[Len(q) + 1] = e
OBVIOUS

LEMMA AppendExclusive ==
  ASSUME NEW S, NEW q \in Seq(S), NEW e \in S, NEW o,
         Exclusive(o, q), o # "none", e # o, e \notin Waiting(q)
  PROVE  /\ Append(q, e) \in Seq(S) /\ Exclusive(o, Append(q, e))
         /\ Waiting(Append(q, e)) = Waiting(q) \union {e}
<1> DEFINE r == Append(q, e)
<1>1. /\ r \in Seq(S) /\ Len(r) = Len(q) + 1 /\ Len(q) \in Nat
      /\ \A i \in 1..Len(q) : r[i] = q[i]
      /\ r[Len(q) + 1] = e
  BY LastOf
<1> HIDE DEF r
<1>2. \A i \in 1..Len(r) : i \in 1..Len(q) \/ i = Len(q) + 1
  BY <1>1
<1>3. Waiting(r) = Waiting(q) \union {e}
  <2>1. \A i \in 1..Len(q) : i \in 1..Len(r)
    BY <1>1
  <2>2. Len(q) + 1 \in 1..Len(r)
    BY <1>1
  <2> QED BY <1>1, <1>2, <2>1, <2>2 DEF Waiting
<1>4. \A i, j \in 1..Len(r) : i # j => r[i] # r[j]
  BY <1>1, <1>2 DEF Exclusive, Waiting
<1>5. Exclusive(o, r)
  BY <1>3, <1>4 DEF Exclusive
<1> QED BY <1>1, <1>3, <1>5 DEF r

LEMMA TailExclusive ==
  ASSUME NEW S, NEW q \in Seq(S), NEW o, q # << >>, Exclusive(o, q)
  PROVE  /\ Tail(q) \in Seq(S) /\ Head(q) \in S /\ Head(q) \in Waiting(q)
         /\ "none" \notin S => Exclusive(Head(q), Tail(q))
         /\ \A x : x \in Waiting(q) <=> x = Head(q) \/ x \in Waiting(Tail(q))
<1> DEFINE t == Tail(q)
           h == Head(q)
<1>1. /\ h \in S /\ t \in Seq(S) /\ Len(t) = Len(q) - 1
      /\ Len(q) \in Nat /\ Len(q) > 0 /\ h = q[1]
      /\ \A i \in 1..Len(t) : t[i] = q[i + 1] /\ i + 1 \in 1..Len(q)
  BY FirstOf
<1> HIDE DEF t, h
<1>2. \A i \in 1..Len(q) : i = 1 \/ (i - 1 \in 1..Len(t) /\ q[i] = t[i - 1])
  <2> TAKE i \in 1..Len(q)
  <2>1. ASSUME i # 1 PROVE i - 1 \in 1..Len(t) /\ (i - 1) + 1 = i
    BY <1>1, <2>1
  <2> QED BY <1>1, <2>1
<1>3. \A i \in 1..Len(t) : h # t[i]
  <2> TAKE i \in 1..Len(t)
  <2>1. i + 1 \in 1..Len(q) /\ 1 \in 1..Len(q) /\ i + 1 # 1
    BY <1>1
  <2> QED BY <1>1, <2>1 DEF Exclusive
<1>4. \A i, j \in 1..Len(t) : i # j => t[i] # t[j]
  <2> TAKE i, j \in 1..Len(t)
  <2>1. /\ i + 1 \in 1..Len(q) /\ j + 1 \in 1..Len(q)
        /\ i # j => i + 1 # j + 1
    BY <1>1
  <2> QED BY <1>1, <2>1 DEF Exclusive
<1>5. 1 \in 1..Len(q)
  BY <1>1
<1>6. \A x : x \in Waiting(q) <=> x = h \/ x \in Waiting(t)
  BY <1>1, <1>2, <1>5 DEF Waiting
<1>7. "none" \notin S => Exclusive(h, t)
  BY <1>1, <1>3, <1>4 DEF Exclusive, Waiting
<1> QED BY <1>1, <1>6, <1>7 DEF t, h

(* A greenlet asks for the mutex: it gets it or waits.                     *)
LEMMA Acquires ==
  ASSUME IInv, NEW a \in Greenlets, a # owner, a \notin Waiting(queue),
         Acquire(a)
  PROVE  /\ owner' \in Greenlets /\ queue' \in Seq(Greenlets)
         /\ Exclusive(owner', queue')
         /\ owner' \in {owner, a} /\ (owner # "none" => owner' = owner)
         /\ \A b : b \in Waiting(queue') => b \in Waiting(queue) \/ b = a
         /\ owner = "none" => owner' = a /\ queue' = queue
<1>t. /\ queue \in Seq(Greenlets) /\ owner \in Greenlets \union {"none"}
      /\ "none" \notin Greenlets /\ Exclusive(owner, queue)
  BY Names DEF IInv, MutexGood, MutexInv
<1>1. CASE owner = "none"
  <2>1. owner' = a /\ queue' = queue /\ queue = << >>
    BY <1>1, <1>t DEF Acquire, Exclusive
  <2>2. Exclusive(a, queue)
    BY <1>t, <2>1 DEF Exclusive, Waiting
  <2> QED BY <1>1, <1>t, <2>1, <2>2
<1>2. CASE owner # "none"
  <2>1. owner' = owner /\ queue' = Append(queue, a)
    BY <1>2 DEF Acquire
  <2>2. /\ Append(queue, a) \in Seq(Greenlets)
        /\ Exclusive(owner, Append(queue, a))
        /\ Waiting(Append(queue, a)) = Waiting(queue) \union {a}
    BY <1>2, <1>t, AppendExclusive
  <2> QED BY <1>2, <1>t, <2>1, <2>2
<1> QED BY <1>1, <1>2

(* Who holds it gives it to the one that waited longest.                   *)
LEMMA Releases ==
  ASSUME IInv, owner # "none", Release
  PROVE  /\ owner' \in Greenlets \union {"none"} /\ queue' \in Seq(Greenlets)
         /\ Exclusive(owner', queue') /\ owner' # owner
         /\ owner' # "none" => owner' \in Waiting(queue)
         /\ \A b : b \in Waiting(queue') => b \in Waiting(queue)
         /\ owner \notin Waiting(queue)
<1>t. /\ queue \in Seq(Greenlets) /\ owner \in Greenlets \union {"none"}
      /\ "none" \notin Greenlets /\ Exclusive(owner, queue)
  BY Names DEF IInv, MutexGood, MutexInv
<1>1. CASE queue = << >>
  <2>1. owner' = "none" /\ queue' = queue
    BY <1>1 DEF Release
  <2> QED BY <1>1, <1>t, <2>1 DEF Exclusive, Waiting
<1>2. CASE queue # << >>
  <2>1. owner' = Head(queue) /\ queue' = Tail(queue)
    BY <1>2 DEF Release
  <2> QED BY <1>2, <1>t, <2>1, TailExclusive DEF Exclusive
<1> QED BY <1>1, <1>2


(* A command of an actor is done: the mutex is handed on.                  *)
LEMMA DoneMutex ==
  ASSUME IInv, NEW c \in Actors, owner = c, Release,
         pc' = [pc EXCEPT ![c] = "idle"], cmd' = [cmd EXCEPT ![c] = "none"],
         UNCHANGED <<given, ready>>,
         worker' = worker \/ (worker = "none" /\ worker' = "start")
  PROVE  MutexGood' /\ PauseInv'
<1>1. /\ owner' \in Greenlets \union {"none"} /\ queue' \in Seq(Greenlets)
      /\ Exclusive(owner', queue') /\ owner' # owner
      /\ owner' # "none" => owner' \in Waiting(queue)
      /\ \A b : b \in Waiting(queue') => b \in Waiting(queue)
      /\ owner \notin Waiting(queue)
  BY Releases, Names
<1>2. /\ pc' \in [Actors -> {"idle", "locking", "pausing", "delay"}]
      /\ cmd' \in [Actors -> AllCommands \union {"none"}]
      /\ pc'[c] = "idle" /\ cmd'[c] = "none"
      /\ \A a \in Actors : a # c => pc'[a] = pc[a] /\ cmd'[a] = cmd[a]
  BY DEF IInv, MutexGood
<1>3. ASSUME NEW a \in Actors
      PROVE  ActorInv(a)' /\ (owner' = a => pc'[a] = "locking")
  <2>1. ActorInv(a)
    BY DEF IInv, MutexGood, MutexInv
  <2>2. CASE a = c
    BY <1>1, <1>2, <2>2 DEF ActorInv
  <2>3. CASE a # c
    BY <1>1, <1>2, <2>1, <2>3, Names DEF ActorInv
  <2> QED BY <2>2, <2>3
<1>4. MutexInv'
  <2>1. owner # "worker"
    BY Names
  <2>2. worker \notin {"m400", "script"} /\ worker' \notin {"m400", "script"}
    BY <2>1 DEF IInv, MutexGood, MutexInv
  <2>3. /\ "worker" \in Waiting(queue) => worker = "on_error"
    BY DEF IInv, MutexGood, MutexInv
  <2> QED BY <1>1, <1>3, <2>2, <2>3 DEF MutexInv
<1>5. PauseInv'
  BY <1>3 DEF PauseInv
<1> QED BY <1>1, <1>2, <1>4, <1>5 DEF IInv, MutexGood

(* The worker goes on without the mutex.                                   *)
LEMMA WorkerMutex ==
  ASSUME IInv, UNCHANGED <<owner, queue, pc, cmd, given, ready>>,
         worker \notin {"m400", "script", "on_error"},
         worker' \notin {"m400", "script"}
  PROVE  MutexGood'
<1>1. \A a \in Actors : ActorInv(a)'
  BY DEF IInv, MutexGood, MutexInv, ActorInv
<1> QED BY <1>1 DEF IInv, MutexGood, MutexInv

(* It takes it to do a line.                                               *)
LEMMA WorkerAcquires ==
  ASSUME IInv, UNCHANGED <<pc, cmd, given, ready>>, owner = "none",
         Acquire("worker"), worker' \in {"m400", "script"}
  PROVE  MutexGood' /\ PauseInv'
<1>1. queue = << >> /\ owner' = "worker" /\ queue' = queue
  BY DEF IInv, MutexGood, MutexInv, Exclusive, Acquire
<1>2. Waiting(queue) = {}
  BY <1>1 DEF Waiting
<1>3. ASSUME NEW a \in Actors
      PROVE  ActorInv(a)' /\ owner' # a
  BY <1>1, <1>2, Names DEF IInv, MutexGood, MutexInv, ActorInv
<1>4. Exclusive(owner', queue')
  BY <1>1, <1>2 DEF IInv, MutexGood, MutexInv, Exclusive
<1> QED BY <1>1, <1>2, <1>3, <1>4, Names DEF IInv, MutexGood, MutexInv, PauseInv

(* And gives it back.                                                      *)
LEMMA WorkerReleases ==
  ASSUME IInv, UNCHANGED <<pc, cmd, given>>, ready' \in BOOLEAN,
         owner = "worker", Release, worker' \notin {"m400", "script"}
  PROVE  MutexGood' /\ PauseInv'
<1>1. /\ owner' \in Greenlets \union {"none"} /\ queue' \in Seq(Greenlets)
      /\ Exclusive(owner', queue') /\ owner' # owner
      /\ owner' # "none" => owner' \in Waiting(queue)
      /\ \A b : b \in Waiting(queue') => b \in Waiting(queue)
      /\ owner \notin Waiting(queue)
  BY Releases, Names
<1>2. ASSUME NEW a \in Actors
      PROVE  ActorInv(a)' /\ (owner' = a => pc'[a] = "locking")
  <2>1. ActorInv(a)
    BY DEF IInv, MutexGood, MutexInv
  <2> QED BY <1>1, <2>1, Names DEF ActorInv
<1>3. MutexInv'
  BY <1>1, <1>2 DEF IInv, MutexGood, MutexInv
<1>4. PauseInv'
  BY <1>2 DEF PauseInv
<1> QED BY <1>1, <1>3, <1>4 DEF IInv, MutexGood

(* A command fails: the worker waits for the mutex once more, behind those *)
(* that have waited.                                                       *)
LEMMA WorkerRequeues ==
  ASSUME IInv, UNCHANGED <<pc, cmd, given, ready>>, owner = "worker",
         worker' = "on_error",
         IF queue = << >> THEN UNCHANGED <<owner, queue>>
         ELSE owner' = Head(queue) /\ queue' = Append(Tail(queue), "worker")
  PROVE  MutexGood' /\ PauseInv'
<1>t. queue \in Seq(Greenlets) /\ Exclusive(owner, queue)
      /\ \A a \in Actors : ActorInv(a)
  BY DEF IInv, MutexGood, MutexInv
<1>1. CASE queue = << >>
  <2>1. \A a \in Actors : ActorInv(a)' /\ owner' # a
    BY <1>1, <1>t, Names DEF ActorInv
  <2> QED BY <1>1, <1>t, <2>1 DEF IInv, MutexGood, MutexInv, PauseInv, Waiting
<1>2. CASE queue # << >>
  <2>1. /\ Tail(queue) \in Seq(Greenlets) /\ Head(queue) \in Greenlets
        /\ Head(queue) \in Waiting(queue)
        /\ Exclusive(Head(queue), Tail(queue))
        /\ \A x : x \in Waiting(queue) <=>
                    x = Head(queue) \/ x \in Waiting(Tail(queue))
    BY <1>2, <1>t, Names, TailExclusive
  <2>2. owner' = Head(queue) /\ queue' = Append(Tail(queue), "worker")
    BY <1>2
  <2>3. "worker" \notin Waiting(queue)
    BY <1>t DEF Exclusive
  <2>4. /\ queue' \in Seq(Greenlets) /\ Exclusive(owner', queue')
        /\ Waiting(queue') = Waiting(Tail(queue)) \union {"worker"}
    <3> DEFINE h == Head(queue)
               r == Tail(queue)
               e == "worker"
    <3>1. /\ h \in Greenlets /\ r \in Seq(Greenlets) /\ Exclusive(h, r)
          /\ h # "none" /\ e # h /\ e \notin Waiting(r) /\ e \in Greenlets
      BY <2>1, <2>3, Names
    <3>2. owner' = h /\ queue' = Append(r, e)
      BY <2>2
    <3> HIDE DEF h, r, e
    <3>3. /\ Append(r, e) \in Seq(Greenlets) /\ Exclusive(h, Append(r, e))
          /\ Waiting(Append(r, e)) = Waiting(r) \union {e}
      BY <3>1, AppendExclusive
    <3>4. Waiting(queue') = Waiting(r) \union {e}
      BY <3>2, <3>3
    <3> QED BY <3>2, <3>3, <3>4 DEF r, e
  <2>5. ASSUME NEW a \in Actors
        PROVE  ActorInv(a)' /\ (owner' = a => pc'[a] = "locking")
    <3>1. ActorInv(a)
      BY <1>t
    <3> QED BY <2>1, <2>2, <2>4, <3>1, Names DEF ActorInv
  <2>6. owner' # "worker"
    BY <2>1, <2>2, <2>3
  <2> QED BY <2>1, <2>2, <2>4, <2>5, <2>6 DEF IInv, MutexGood, MutexInv,
          PauseInv
<1> QED BY <1>1, <1>2

(* An actor asks for the mutex, with a command to run.                     *)
LEMMA AsksMutex ==
  ASSUME IInv, NEW a \in Actors, NEW k \in AllCommands,
         pc[a] \in {"idle", "delay"},
         pc' = [pc EXCEPT ![a] = "locking"], cmd' = [cmd EXCEPT ![a] = k],
         Acquire(a), given' \in 0..MaxCommands, UNCHANGED <<sd, worker, ready>>
  PROVE  MutexGood' /\ PauseInv'
<1>t. /\ \A b \in Actors : ActorInv(b)
      /\ pc \in [Actors -> {"idle", "locking", "pausing", "delay"}]
      /\ cmd \in [Actors -> AllCommands \union {"none"}]
  BY DEF IInv, MutexGood, MutexInv
<1>1. a # owner /\ a \notin Waiting(queue) /\ a \in Greenlets
  BY <1>t, Names DEF ActorInv
<1>2. /\ owner' \in Greenlets /\ queue' \in Seq(Greenlets)
      /\ Exclusive(owner', queue')
      /\ owner' \in {owner, a} /\ (owner # "none" => owner' = owner)
      /\ \A b : b \in Waiting(queue') => b \in Waiting(queue) \/ b = a
  BY <1>1, Acquires
<1>3. /\ pc' \in [Actors -> {"idle", "locking", "pausing", "delay"}]
      /\ cmd' \in [Actors -> AllCommands \union {"none"}]
      /\ pc'[a] = "locking" /\ cmd'[a] = k /\ k # "none"
      /\ \A b \in Actors : b # a => pc'[b] = pc[b] /\ cmd'[b] = cmd[b]
  BY <1>t, Names
<1>4. ASSUME NEW b \in Actors
      PROVE  ActorInv(b)' /\ (owner' = b /\ pc'[b] = "pausing" => owner = b
                                                      /\ pc[b] = "pausing")
  <2>1. ActorInv(b)
    BY <1>t
  <2>2. CASE b = a
    BY <1>3, <2>2 DEF ActorInv
  <2>3. CASE b # a
    <3>1. pc[b] = "pausing" /\ cmd[b] # "none" => owner' = b
      BY <1>2, <2>1, Names DEF ActorInv
    <3> QED BY <1>2, <1>3, <2>1, <2>3, <3>1 DEF ActorInv
  <2> QED BY <2>2, <2>3
<1>5. owner' = "worker" => owner = "worker"
  BY <1>2, Names
<1>6. worker \in {"m400", "script"} => owner' = "worker"
  BY <1>2 DEF IInv, MutexGood, MutexInv
<1>7. "worker" \in Waiting(queue') => "worker" \in Waiting(queue)
  BY <1>2, Names
<1>8. MutexInv'
  BY <1>2, <1>4, <1>5, <1>6, <1>7 DEF IInv, MutexGood, MutexInv
<1>9. PauseInv'
  BY <1>4 DEF IInv, PauseInv
<1> QED BY <1>2, <1>3, <1>8, <1>9 DEF IInv, MutexGood

(* Where an actor is changes while it neither asks for the mutex nor gives *)
(* it back.                                                                *)
LEMMA MovesMutex ==
  ASSUME IInv, NEW a \in Actors, NEW p \in {"pausing", "delay"},
         pc' = [pc EXCEPT ![a] = p],
         UNCHANGED <<owner, queue, cmd, ready, worker>>,
         given' \in 0..MaxCommands,
         \/ pc[a] \in {"idle", "pausing"} /\ cmd[a] = "none"
         \/ owner = a /\ pc[a] = "locking" /\ p = "pausing"
  PROVE  MutexGood'
<1>t. /\ \A b \in Actors : ActorInv(b)
      /\ pc \in [Actors -> {"idle", "locking", "pausing", "delay"}]
  BY DEF IInv, MutexGood, MutexInv
<1>1. /\ pc' \in [Actors -> {"idle", "locking", "pausing", "delay"}]
      /\ pc'[a] = p /\ \A b \in Actors : b # a => pc'[b] = pc[b]
  BY <1>t
<1>2. a \notin Waiting(queue)
  BY <1>t DEF IInv, MutexGood, MutexInv, Exclusive, ActorInv
<1>3. ASSUME NEW b \in Actors PROVE ActorInv(b)'
  <2>1. ActorInv(b)
    BY <1>t
  <2>2. CASE b = a
    BY <1>1, <1>2, <2>1, <2>2 DEF ActorInv
  <2>3. CASE b # a
    BY <1>1, <2>1, <2>3 DEF ActorInv
  <2> QED BY <2>2, <2>3
<1> QED BY <1>1, <1>3 DEF IInv, MutexGood, MutexInv

-----------------------------------------------------------------------------
(* The worker.                                                             *)

LEMMA JobFacts ==
  ASSUME JobGood
  PROVE  /\ sd \in SdState /\ pr \in PrState /\ ps \in PsState
         /\ last_line \in Nat /\ last_line <= Len(File)
         /\ sd.file_position \in Nat /\ sd.next_file_position \in Nat
         /\ sd.file_position <= Len(File)
BY Names DEF JobGood, SdState

LEMMA Reports ==
  ASSUME NEW t \in PsState, NEW file \in BOOLEAN, NEW error \in BOOLEAN,
         t.state = "printing" => t.started,
         t.state \in {"cancelled", "error", "complete"} => ~t.started,
         t.state \in {"cancelled", "complete"} => ~file,
         NEW u, u = EndStats(t, file, error)
  PROVE  /\ u \in PsState
         /\ u.state = "printing" => u.started /\ ~file
         /\ u.state \in {"cancelled", "error", "complete"} => ~u.started
         /\ u.state \in {"cancelled", "complete"} => ~file
         /\ t.state \in {"cancelled", "error", "complete"} => u.state = t.state
<1>1. CASE error \/ ~file
  <2>1. PICK e \in {"error", "complete"} :
          u = NoteFinish(t, e) /\ (e = "complete" => ~file)
    BY <1>1 DEF EndStats
  <2>2. CASE t.started
    <3> DEFINE no == FALSE
    <3>1. u = [t EXCEPT !.state = e, !.started = no]
      BY <2>1, <2>2 DEF NoteFinish
    <3>2. no \in BOOLEAN /\ ~no
      OBVIOUS
    <3> HIDE DEF no
    <3>3. u \in PsState /\ u.state = e /\ u.started = no
      BY <3>1, <3>2 DEF PsState
    <3> QED BY <2>1, <2>2, <3>2, <3>3
  <2>3. CASE ~t.started
    BY <2>1, <2>3 DEF NoteFinish
  <2> QED BY <2>2, <2>3
<1>2. CASE ~error /\ file
  <2> DEFINE yes == TRUE
             e == IF t.state = "error" THEN t.state ELSE "paused"
  <2>1. u = [t EXCEPT !.paused = yes, !.state = e]
    BY <1>2 DEF EndStats, NotePause, PsState
  <2>2. yes \in BOOLEAN /\ e \in {"error", "paused"}
    OBVIOUS
  <2> HIDE DEF yes
  <2>3. u \in PsState /\ u.state = e /\ u.started = t.started
    BY <2>1, <2>2 DEF PsState
  <2> QED BY <1>2, <2>3
<1> QED BY <1>1, <1>2

LEMMA ExitJob ==
  ASSUME IInv, worker \in {"loop", "script", "on_error"},
         NEW s \in SdState, NEW error \in BOOLEAN, Exit(s, error),
         s.file => sd.file /\ s.file_position = last_line,
         s.change_filament = sd.change_filament,
         s.load_channel = sd.load_channel,
         UNCHANGED <<pr, history>>
  PROVE  JobGood'
<1> DEFINE no == FALSE
<1>1. /\ worker' = "none" /\ ps' = EndStats(ps, s.file, error)
      /\ sd' = [s EXCEPT !.work_timer = no, !.cmd_from_sd = no]
  BY DEF Exit
<1>2. no \in BOOLEAN /\ ~no
  OBVIOUS
<1> HIDE DEF no
<1>3. /\ sd' \in SdState /\ ~sd'.work_timer /\ sd'.file = s.file
      /\ sd'.file_position = s.file_position
      /\ sd'.change_filament = s.change_filament
      /\ sd'.load_channel = s.load_channel
  BY <1>1, <1>2 DEF SdState
<1>4. s.file \in BOOLEAN
  BY DEF SdState
<1>5. /\ ps' \in PsState
      /\ ps'.state = "printing" => ps'.started /\ ~s.file
      /\ ps'.state \in {"cancelled", "error", "complete"} => ~ps'.started
      /\ ps'.state \in {"cancelled", "complete"} => ~s.file
  <2>1. ps \in PsState /\ StatsInv
    BY DEF IInv, JobGood
  <2> QED BY <1>1, <1>4, <2>1, Reports DEF StatsInv
<1>6. WorkInv'
  BY <1>1, <1>3 DEF WorkInv, history
<1>7. StatsInv'
  BY <1>3, <1>5 DEF StatsInv
<1>8. FilamentInv'
  BY <1>1, <1>3 DEF IInv, JobGood, FilamentInv, FilamentKnown, history
<1> QED BY <1>1, <1>3, <1>5, <1>6, <1>7, <1>8 DEF IInv, JobGood, history

LEMMA NoPauseInv ==
  ASSUME PauseInv, UNCHANGED <<owner, pc>>,
         sd'.work_timer => sd.work_timer
                           /\ (sd.must_pause_work => sd'.must_pause_work)
  PROVE  PauseInv'
BY DEF PauseInv

LEMMA WorkStartKeeps ==
  ASSUME IInv, WorkStart
  PROVE  IInv'
<1>j. JobGood /\ StatsInv /\ WorkInv /\ FilamentInv /\ sd \in SdState
      /\ ps \in PsState /\ PauseInv
  BY DEF IInv, JobGood
<1>1. MutexGood'
  BY WorkerMutex DEF WorkStart
<1>2. CASE sd.file
  <2> DEFINE yes == TRUE
             q == IF ps.started THEN FALSE ELSE ps.paused
  <2>1. worker = "start" /\ worker' = "loop" /\ UNCHANGED <<sd, pr, history>>
        /\ ps' = [state |-> "printing", started |-> yes, paused |-> q]
        /\ UNCHANGED <<owner, pc>>
    BY <1>2 DEF WorkStart, NoteStart
  <2>2. q \in BOOLEAN /\ yes \in BOOLEAN /\ yes
    BY <1>j DEF PsState
  <2> HIDE DEF q, yes
  <2>3. ps' \in PsState /\ ps'.state = "printing" /\ ps'.started
    BY <2>1, <2>2 DEF PsState
  <2>4. WorkInv' /\ StatsInv' /\ FilamentInv'
    BY <1>2, <1>j, <2>1, <2>3 DEF WorkInv, StatsInv, FilamentInv,
       FilamentKnown, history
  <2>5. JobGood'
    BY <1>j, <2>1, <2>3, <2>4 DEF JobGood, history
  <2>6. PauseInv'
    BY <1>j, <2>1 DEF PauseInv
  <2> QED BY <1>1, <2>5, <2>6 DEF IInv
<1>3. CASE ~sd.file
  <2> DEFINE no == FALSE
  <2>1. worker = "start" /\ worker' = "none" /\ UNCHANGED <<ps, pr, history>>
        /\ sd' = [sd EXCEPT !.work_timer = no] /\ UNCHANGED <<owner, pc>>
    BY <1>3 DEF WorkStart
  <2>2. no \in BOOLEAN /\ ~no
    OBVIOUS
  <2> HIDE DEF no
  <2>3. /\ sd' \in SdState /\ ~sd'.work_timer /\ sd'.file = sd.file
        /\ sd'.change_filament = sd.change_filament
        /\ sd'.load_channel = sd.load_channel
    BY <1>j, <2>1, <2>2 DEF SdState
  <2>4. WorkInv' /\ StatsInv' /\ FilamentInv'
    BY <1>3, <1>j, <2>1, <2>3 DEF WorkInv, StatsInv, FilamentInv,
       FilamentKnown, history
  <2>5. JobGood'
    BY <1>j, <2>1, <2>3, <2>4 DEF JobGood, history
  <2>6. PauseInv'
    BY <1>j, <2>1, <2>3 DEF PauseInv
  <2> QED BY <1>1, <2>5, <2>6 DEF IInv
<1> QED BY <1>2, <1>3

LEMMA WorkStopKeeps ==
  ASSUME IInv, WorkPause \/ WorkEOF
  PROVE  IInv'
<1>1. /\ worker = "loop" /\ worker' = "none"
      /\ UNCHANGED <<pr, history, owner, queue, pc, cmd, given, ready>>
  BY DEF WorkPause, WorkEOF, Exit
<1>2. sd \in SdState
  BY DEF IInv, JobGood
<1>3. MutexGood'
  BY <1>1, WorkerMutex
<1>4. CASE WorkPause
  <2>1. Exit(sd, FALSE)
    BY <1>4 DEF WorkPause
  <2>2. JobGood'
    BY <1>1, <1>2, <2>1, ExitJob DEF IInv, JobGood, WorkInv
  <2>3. ~sd'.work_timer
    BY <1>2, <2>1 DEF Exit, SdState
  <2> QED BY <1>3, <2>2, <2>3 DEF IInv, PauseInv
<1>5. CASE WorkEOF
  <2> DEFINE no == FALSE
             s == [sd EXCEPT !.file = no]
  <2>1. Exit(s, FALSE)
    BY <1>5 DEF WorkEOF
  <2>2. s \in SdState /\ s.change_filament = sd.change_filament
        /\ s.load_channel = sd.load_channel
    BY <1>2 DEF SdState
  <2>3. ~s.file
    BY <1>2 DEF SdState
  <2> HIDE DEF s
  <2>4. JobGood'
    BY <1>1, <2>1, <2>2, <2>3, ExitJob
  <2>5. ~sd'.work_timer
    BY <2>1, <2>2 DEF Exit, SdState
  <2> QED BY <1>3, <2>4, <2>5 DEF IInv, PauseInv
<1> QED BY <1>4, <1>5

LEMMA ErrorKeeps ==
  ASSUME IInv, WorkErrorDone \/ WorkScriptCrashes
  PROVE  IInv'
<1>1. /\ worker \in {"script", "on_error"} /\ worker' = "none"
      /\ owner = "worker" /\ Release /\ ready' \in BOOLEAN
      /\ UNCHANGED <<pr, history, pc, cmd, given>>
  BY DEF WorkErrorDone, WorkScriptCrashes, Exit, IInv, MutexGood
<1>2. sd \in SdState /\ (sd.file => sd.file_position = last_line)
  BY DEF IInv, JobGood, WorkInv
<1>3. MutexGood' /\ PauseInv'
  BY <1>1, WorkerReleases
<1>4. CASE WorkErrorDone
  <2>1. Exit(sd, TRUE)
    BY <1>4 DEF WorkErrorDone
  <2>2. JobGood'
    BY <1>1, <1>2, <2>1, ExitJob
  <2> QED BY <1>3, <2>2 DEF IInv
<1>5. CASE WorkScriptCrashes
  <2> DEFINE s == Asked(sd)
  <2>1. Exit(s, FALSE)
    BY <1>5 DEF WorkScriptCrashes
  <2>2. /\ s \in SdState /\ s.change_filament = sd.change_filament
        /\ s.load_channel = sd.load_channel /\ s.file = sd.file
        /\ s.file_position = sd.file_position
    BY <1>2 DEF SdState, Asked
  <2> HIDE DEF s
  <2>3. JobGood'
    BY <1>1, <1>2, <2>1, <2>2, ExitJob
  <2> QED BY <1>3, <2>3 DEF IInv
<1> QED BY <1>4, <1>5

LEMMA LineKnown ==
  ASSUME IInv, Dispatch
  PROVE  /\ sd.file /\ sd.file_position = last_line /\ last_line \in Nat
         /\ last_line < Len(File)
         /\ last_line + 1 \in 0..Len(File) /\ sd.work_timer
<1>1. JobGood /\ WorkInv /\ last_line \in Nat
  BY JobFacts DEF IInv, JobGood
<1>2. sd.file /\ sd.file_position = last_line /\ sd.work_timer
  BY <1>1 DEF Dispatch, WorkInv
<1>3. last_line < Len(File)
  BY <1>2 DEF Dispatch
<1> QED BY <1>1, <1>2, <1>3, Names

LEMMA DispatchKeeps ==
  ASSUME IInv, WorkDispatch
  PROVE  IInv'
<1> DEFINE yes == TRUE
           n == sd.file_position + 1
<1>1. /\ Dispatch /\ worker = "loop" /\ worker' = "script" /\ owner = "none"
      /\ Acquire("worker")
      /\ UNCHANGED <<pr, ps, pc, cmd, given, ready, history>>
      /\ sd' = [sd EXCEPT !.cmd_from_sd = yes, !.next_file_position = n]
  BY DEF WorkDispatch, Dispatch
<1>2. n = last_line + 1 /\ n \in 0..Len(File) /\ last_line < Len(File)
      /\ yes \in BOOLEAN /\ sd.file_position = last_line
  BY <1>1, LineKnown
<1> HIDE DEF n, yes
<1>3. MutexGood' /\ PauseInv'
  BY <1>1, WorkerAcquires
<1>j. WorkInv /\ StatsInv /\ FilamentInv /\ sd \in SdState
  BY DEF IInv, JobGood
<1>4. /\ sd' \in SdState /\ sd'.work_timer = sd.work_timer
      /\ sd'.must_pause_work = sd.must_pause_work /\ sd'.file = sd.file
      /\ sd'.file_position = sd.file_position /\ sd'.next_file_position = n
      /\ sd'.change_filament = sd.change_filament
      /\ sd'.load_channel = sd.load_channel
  BY <1>1, <1>2, <1>j DEF SdState
<1>5. WorkInv' /\ StatsInv' /\ FilamentInv'
  BY <1>1, <1>2, <1>4, <1>j DEF WorkInv, StatsInv, FilamentInv, FilamentKnown,
     history
<1>6. JobGood'
  BY <1>1, <1>4, <1>5 DEF IInv, JobGood, history
<1> QED BY <1>3, <1>6 DEF IInv

LEMMA SelectedIs ==
  ASSUME NEW s \in SdState, NEW u, u = Selected(s)
  PROVE  /\ u \in SdState /\ u.work_timer = s.work_timer
         /\ u.must_pause_work = s.must_pause_work /\ u.file = s.file
         /\ u.file_position = s.next_file_position
         /\ u.load_channel = s.print_channel /\ ~u.change_filament
         /\ u.print_channel = s.print_channel
BY DEF Selected, SdState

LEMMA SelectKeeps ==
  ASSUME IInv, WorkSelect
  PROVE  IInv'
<1> DEFINE s == Select(sd)
           n == sd.file_position + 1
<1>1. /\ Dispatch /\ worker = "loop" /\ owner = "none" /\ Line \in Channels
      /\ UNCHANGED <<pr, ps, pc, cmd, given, ready, loaded, broken_off,
                     in_spite, refused>>
  BY DEF WorkSelect, Dispatch
<1>2. n = last_line + 1 /\ n \in 0..Len(File) /\ last_line < Len(File)
      /\ sd.file_position = last_line /\ last_line \in Nat
  BY <1>1, LineKnown
<1>j. WorkInv /\ StatsInv /\ FilamentInv /\ sd \in SdState
  BY DEF IInv, JobGood
<1>3. /\ s \in SdState /\ s.work_timer = sd.work_timer
      /\ s.must_pause_work = sd.must_pause_work /\ s.file = sd.file
      /\ s.file_position = sd.file_position /\ s.next_file_position = n
      /\ s.change_filament = sd.change_filament
      /\ s.load_channel = sd.load_channel /\ s.print_channel = Line
  <2> DEFINE yes == TRUE
             l == Line
  <2>1. s = [sd EXCEPT !.cmd_from_sd = yes, !.next_file_position = n,
                       !.print_channel = l]
    BY DEF Select
  <2>2. yes \in BOOLEAN /\ l \in Channels /\ l = Line
    BY <1>1
  <2> HIDE DEF yes, l, n, s
  <2> QED BY <1>2, <1>j, <2>1, <2>2 DEF SdState
<1> HIDE DEF n
<1>4. CASE Line # sd.load_channel
  <2>1. sd' = s /\ worker' = "m400" /\ Acquire("worker")
        /\ UNCHANGED last_line
    BY <1>4 DEF WorkSelect
  <2> HIDE DEF s
  <2>2. MutexGood' /\ PauseInv'
    BY <1>1, <2>1, WorkerAcquires
  <2>3. WorkInv' /\ StatsInv' /\ FilamentInv'
    BY <1>1, <1>2, <1>3, <1>j, <2>1 DEF WorkInv, StatsInv, FilamentInv,
       FilamentKnown
  <2>4. JobGood'
    BY <1>1, <1>3, <2>1, <2>3 DEF IInv, JobGood
  <2> QED BY <2>2, <2>4 DEF IInv
<1>5. CASE ~(Line # sd.load_channel)
  <2>1. sd' = Selected(s) /\ last_line' = last_line + 1
        /\ UNCHANGED <<worker, owner, queue>>
    BY <1>5 DEF WorkSelect
  <2> HIDE DEF s
  <2>2. /\ sd' \in SdState /\ sd'.work_timer = s.work_timer
        /\ sd'.must_pause_work = s.must_pause_work /\ sd'.file = s.file
        /\ sd'.file_position = s.next_file_position
        /\ sd'.load_channel = s.print_channel /\ ~sd'.change_filament
    BY <1>3, <2>1, SelectedIs
  <2>3. MutexGood'
    BY <1>1, <2>1, WorkerMutex
  <2>4. WorkInv' /\ StatsInv' /\ FilamentInv'
    BY <1>1, <1>2, <1>3, <1>5, <1>j, <2>1, <2>2 DEF WorkInv, StatsInv,
       FilamentInv, FilamentKnown
  <2>5. last_line' \in 0..Len(File)
    BY <1>2, <2>1
  <2>6. JobGood'
    BY <1>1, <2>1, <2>2, <2>4, <2>5 DEF IInv, JobGood
  <2>7. PauseInv'
    BY <1>1, <1>3, <2>1, <2>2 DEF IInv, PauseInv
  <2> QED BY <2>3, <2>6, <2>7 DEF IInv
<1> QED BY <1>4, <1>5

LEMMA RequestKeeps ==
  ASSUME IInv, WorkRequestChange
  PROVE  IInv'
<1>1. /\ worker = "m400" /\ worker' = "wait" /\ owner = "worker" /\ Release
      /\ UNCHANGED <<pr, ps, pc, cmd, given, ready, history>>
      /\ sd' = Requested(sd)
  BY DEF WorkRequestChange
<1>2. MutexGood' /\ PauseInv'
  BY <1>1, WorkerReleases DEF IInv, MutexGood
<1>j. WorkInv /\ StatsInv /\ FilamentInv /\ sd \in SdState
  BY DEF IInv, JobGood
<1>3. /\ sd' \in SdState /\ sd'.work_timer = sd.work_timer
      /\ sd'.must_pause_work = sd.must_pause_work /\ sd'.file = sd.file
      /\ sd'.file_position = sd.file_position
      /\ sd'.next_file_position = sd.next_file_position
      /\ sd'.change_filament
  BY <1>1, <1>j DEF SdState, Requested
<1>4. WorkInv' /\ StatsInv' /\ FilamentInv'
  BY <1>1, <1>3, <1>j DEF WorkInv, StatsInv, FilamentInv, FilamentKnown,
     history
<1>5. JobGood'
  BY <1>1, <1>3, <1>4 DEF IInv, JobGood, history
<1> QED BY <1>2, <1>5 DEF IInv

LEMMA ChangedKeeps ==
  ASSUME IInv, WorkChanged
  PROVE  IInv'
<1>1. /\ worker = "wait" /\ worker' = "loop" /\ sd' = Selected(sd)
      /\ last_line' = last_line + 1
      /\ broken_off' = (broken_off \/ sd.change_filament)
      /\ UNCHANGED <<pr, ps, owner, queue, pc, cmd, given, ready, loaded,
                     in_spite, refused>>
  BY DEF WorkChanged
<1>2. MutexGood'
  BY <1>1, WorkerMutex
<1>j. JobGood /\ WorkInv /\ StatsInv /\ FilamentInv /\ sd \in SdState
      /\ last_line \in Nat
  BY JobFacts DEF IInv, JobGood
<1>3. /\ sd' \in SdState /\ sd'.work_timer = sd.work_timer
      /\ sd'.must_pause_work = sd.must_pause_work /\ sd'.file = sd.file
      /\ sd'.file_position = sd.next_file_position
      /\ sd'.load_channel = sd.print_channel /\ ~sd'.change_filament
  BY <1>1, <1>j, SelectedIs
<1>4. WorkInv' /\ StatsInv'
  BY <1>1, <1>3, <1>j DEF WorkInv, StatsInv
<1>5. FilamentInv'
  BY <1>1, <1>3, <1>j DEF FilamentInv, FilamentKnown
<1>6. last_line' \in 0..Len(File) /\ broken_off' \in BOOLEAN
  BY <1>1, <1>j, Names DEF WorkInv, JobGood, SdState
<1>7. JobGood'
  BY <1>1, <1>3, <1>4, <1>5, <1>6 DEF IInv, JobGood
<1>8. PauseInv'
  BY <1>1, <1>3, NoPauseInv DEF IInv
<1> QED BY <1>2, <1>7, <1>8 DEF IInv

LEMMA FailsKeeps ==
  ASSUME IInv, WorkScriptFails
  PROVE  IInv'
<1>1. /\ worker = "script" /\ worker' = "on_error" /\ owner = "worker"
      /\ UNCHANGED <<sd, pr, ps, pc, cmd, given, ready, history>>
  BY DEF WorkScriptFails
<1>2. MutexGood' /\ PauseInv'
  BY <1>1, WorkerRequeues DEF WorkScriptFails
<1>j. WorkInv /\ StatsInv /\ FilamentInv
  BY DEF IInv, JobGood
<1>3. WorkInv' /\ StatsInv' /\ FilamentInv'
  BY <1>1, <1>j DEF WorkInv, StatsInv, FilamentInv, FilamentKnown, history
<1>4. JobGood'
  BY <1>1, <1>3 DEF IInv, JobGood, history
<1> QED BY <1>2, <1>4 DEF IInv

\* A line of the file is done, and the next one is where the worker goes on.
LineDone(s, next) == [s EXCEPT !.cmd_from_sd = FALSE,
                               !.next_file_position = next,
                               !.file_position = next]

LEMMA DoneIs ==
  ASSUME NEW s \in SdState, NEW n \in 0..Len(File), NEW u, u = LineDone(s, n)
  PROVE  /\ u \in SdState /\ u.work_timer = s.work_timer
         /\ u.must_pause_work = s.must_pause_work /\ u.file = s.file
         /\ u.file_position = n /\ u.next_file_position = n
         /\ u.load_channel = s.load_channel
         /\ u.change_filament = s.change_filament
<1> DEFINE no == FALSE
<1>1. u = [s EXCEPT !.cmd_from_sd = no, !.next_file_position = n,
                    !.file_position = n]
  BY DEF LineDone
<1>2. no \in BOOLEAN
  OBVIOUS
<1> HIDE DEF no
<1> QED BY <1>1, <1>2 DEF SdState

LEMMA Finishes ==
  ASSUME NEW t \in PsState, StatsInv, t = ps,
         NEW e \in {"cancelled", "error", "complete"},
         NEW u, u = NoteFinish(t, e)
  PROVE  /\ u \in PsState /\ u.state # "printing" /\ ~u.started
         /\ u.state \in {"cancelled", "error", "complete"} => ~u.started
         /\ t.state \in {"cancelled", "error", "complete"} => u.state = t.state
<1>1. CASE t.started
  <2> DEFINE no == FALSE
  <2>1. u = [t EXCEPT !.state = e, !.started = no]
    BY <1>1 DEF NoteFinish
  <2>2. no \in BOOLEAN /\ ~no
    OBVIOUS
  <2> HIDE DEF no
  <2>3. u \in PsState /\ u.state = e /\ u.started = no
    BY <2>1, <2>2 DEF PsState
  <2> QED BY <1>1, <2>2, <2>3 DEF StatsInv
<1>2. CASE ~t.started
  BY <1>2 DEF NoteFinish, StatsInv
<1> QED BY <1>1, <1>2

LEMMA CancelledIs ==
  ASSUME NEW s \in SdState, NEW u, u = Cancelled(s)
  PROVE  /\ u \in SdState /\ u.work_timer = s.work_timer
         /\ u.must_pause_work = s.must_pause_work /\ ~u.file
         /\ u.load_channel = s.load_channel /\ ~u.change_filament
         /\ u.print_channel = s.print_channel
         /\ u.next_file_position = s.next_file_position
<1> DEFINE no == FALSE
           z == 0
<1>1. u = [s EXCEPT !.file = no, !.change_filament = no, !.file_position = z]
  BY DEF Cancelled
<1>2. no \in BOOLEAN /\ ~no /\ z \in 0..Len(File)
  BY Names
<1> HIDE DEF no, z
<1> QED BY <1>1, <1>2 DEF SdState

LEMMA ScriptKeeps ==
  ASSUME IInv, WorkScriptDone
  PROVE  IInv'
<1> DEFINE n == sd.next_file_position
<1>1. /\ worker = "script" /\ worker' = "loop" /\ owner = "worker" /\ Release
      /\ UNCHANGED <<pc, cmd, given, ready, loaded, broken_off, in_spite,
                     refused>>
  BY DEF WorkScriptDone
<1>2. \/ /\ sd' = LineDone(sd, n) /\ last_line' = last_line + 1
         /\ UNCHANGED <<pr, ps>>
      \/ /\ \E next \in {n, 0} : sd' = LineDone(sd, next) /\ last_line' = next
         /\ UNCHANGED <<pr, ps>>
      \/ /\ sd' = LineDone(IF pr.is_paused \/ pr.pause_command_sent THEN sd
                       ELSE [sd EXCEPT !.must_pause_work = TRUE], n)
         /\ pr' = PausedFromFile /\ last_line' = last_line + 1
         /\ UNCHANGED ps
      \/ /\ sd' = LineDone(IF sd.file
                       THEN Cancelled([sd EXCEPT !.must_pause_work = TRUE])
                       ELSE [sd EXCEPT !.file_position = 0], n)
         /\ ps' = IF sd.file THEN NoteFinish(ps, "cancelled") ELSE ps
         /\ pr' = [pr EXCEPT !.is_paused = FALSE,
                             !.pause_command_sent = FALSE]
         /\ last_line' = last_line + 1
  BY DEF WorkScriptDone, LineDone
<1>3. MutexGood' /\ PauseInv'
  BY <1>1, WorkerReleases DEF IInv, MutexGood
<1>j. /\ JobGood /\ WorkInv /\ StatsInv /\ FilamentInv /\ sd \in SdState
      /\ pr \in PrState /\ ps \in PsState
  BY DEF IInv, JobGood
<1>n. n = last_line + 1 /\ n \in 0..Len(File) /\ 0 \in 0..Len(File)
  BY <1>1, <1>j, Names DEF WorkInv, SdState
<1> HIDE DEF n
\* The objects before the line is noted to be done, and what is noted.
<1>4. \E s \in SdState, p \in PrState, next \in 0..Len(File) :
        /\ sd' = LineDone(s, next) /\ last_line' = next /\ pr' = p
        /\ s.work_timer = sd.work_timer
        /\ s.load_channel = sd.load_channel
        /\ s.change_filament => sd.change_filament
        /\ sd.must_pause_work => s.must_pause_work
        /\ \/ ps' = ps /\ s.file = sd.file
           \/ /\ ps' = NoteFinish(ps, "cancelled")
              /\ ~s.file /\ s.must_pause_work
  <2>1. CASE /\ sd' = LineDone(sd, n) /\ last_line' = last_line + 1
             /\ UNCHANGED <<pr, ps>>
    BY <1>j, <1>n, <2>1
  <2>2. CASE /\ \E next \in {n, 0} :
                  sd' = LineDone(sd, next) /\ last_line' = next
             /\ UNCHANGED <<pr, ps>>
    BY <1>j, <1>n, <2>2
  <2> DEFINE yes == TRUE
             no == FALSE
             z == 0
             m == [sd EXCEPT !.must_pause_work = yes]
  <2>b. yes \in BOOLEAN /\ yes /\ no \in BOOLEAN /\ z \in 0..Len(File)
    BY Names
  <2> HIDE DEF yes, no, z
  <2>m. /\ m \in SdState /\ m.must_pause_work /\ m.work_timer = sd.work_timer
        /\ m.load_channel = sd.load_channel /\ m.file = sd.file
        /\ m.change_filament = sd.change_filament
    BY <1>j, <2>b DEF SdState
  <2>3. CASE /\ sd' = LineDone(IF pr.is_paused \/ pr.pause_command_sent THEN sd
                           ELSE [sd EXCEPT !.must_pause_work = TRUE], n)
             /\ pr' = PausedFromFile /\ last_line' = last_line + 1
             /\ UNCHANGED ps
    <3>1. PausedFromFile \in PrState
      BY <1>j DEF PausedFromFile, PrState
    <3>2. sd' = LineDone(sd, n) \/ sd' = LineDone(m, n)
      BY <2>3 DEF yes
    <3> HIDE DEF m
    <3> QED BY <1>j, <1>n, <2>3, <2>m, <3>1, <3>2
  <2>4. CASE /\ sd' = LineDone(IF sd.file
                           THEN Cancelled([sd EXCEPT !.must_pause_work = TRUE])
                           ELSE [sd EXCEPT !.file_position = 0], n)
             /\ ps' = IF sd.file THEN NoteFinish(ps, "cancelled") ELSE ps
             /\ pr' = [pr EXCEPT !.is_paused = FALSE,
                                 !.pause_command_sent = FALSE]
             /\ last_line' = last_line + 1
    <3>1. pr' \in PrState
      <4>1. pr' = [pr EXCEPT !.is_paused = no, !.pause_command_sent = no]
        BY <2>4 DEF no
      <4> QED BY <1>j, <2>b, <4>1 DEF PrState
    <3>2. CASE sd.file
      <4> DEFINE s == Cancelled(m)
      <4>1. sd' = LineDone(s, n) /\ ps' = NoteFinish(ps, "cancelled")
        BY <2>4, <3>2 DEF yes
      <4> HIDE DEF m
      <4>2. /\ s \in SdState /\ s.work_timer = m.work_timer
            /\ s.must_pause_work = m.must_pause_work /\ ~s.file
            /\ s.load_channel = m.load_channel /\ ~s.change_filament
        BY <2>m, CancelledIs
      <4> HIDE DEF s
      <4> QED BY <1>n, <2>4, <2>m, <3>1, <4>1, <4>2
    <3>3. CASE ~sd.file
      <4> DEFINE s == [sd EXCEPT !.file_position = z]
      <4>1. sd' = LineDone(s, n) /\ ps' = ps
        BY <2>4, <3>3 DEF z
      <4>2. /\ s \in SdState /\ s.work_timer = sd.work_timer
            /\ s.must_pause_work = sd.must_pause_work /\ s.file = sd.file
            /\ s.load_channel = sd.load_channel
            /\ s.change_filament = sd.change_filament
        BY <1>j, <2>b DEF SdState
      <4> HIDE DEF s
      <4> QED BY <1>n, <2>4, <3>1, <4>1, <4>2
    <3> QED BY <3>2, <3>3
  <2> QED BY <1>2, <2>1, <2>2, <2>3, <2>4
<1>5. PICK s \in SdState, p \in PrState, next \in 0..Len(File) :
        /\ sd' = LineDone(s, next) /\ last_line' = next /\ pr' = p
        /\ s.work_timer = sd.work_timer
        /\ s.load_channel = sd.load_channel
        /\ s.change_filament => sd.change_filament
        /\ sd.must_pause_work => s.must_pause_work
        /\ \/ ps' = ps /\ s.file = sd.file
           \/ /\ ps' = NoteFinish(ps, "cancelled")
              /\ ~s.file /\ s.must_pause_work
  BY <1>4
<1>6. /\ sd' \in SdState /\ sd'.work_timer = s.work_timer
      /\ sd'.must_pause_work = s.must_pause_work /\ sd'.file = s.file
      /\ sd'.file_position = next
      /\ sd'.load_channel = s.load_channel
      /\ sd'.change_filament = s.change_filament
  BY <1>5, DoneIs
<1>7. ps' = NoteFinish(ps, "cancelled") =>
        /\ ps' \in PsState /\ ps'.state # "printing" /\ ~ps'.started
  BY <1>j, Finishes
<1>8. WorkInv'
  BY <1>1, <1>5, <1>6, <1>j DEF WorkInv
<1>9. StatsInv'
  BY <1>5, <1>6, <1>7, <1>j DEF StatsInv
<1>10. FilamentInv'
  BY <1>1, <1>5, <1>6, <1>j DEF FilamentInv, FilamentKnown
<1>11. JobGood'
  BY <1>1, <1>5, <1>6, <1>7, <1>8, <1>9, <1>10, <1>j DEF JobGood
<1> QED BY <1>3, <1>11 DEF IInv

LEMMA WorkerKeeps ==
  ASSUME IInv, Worker
  PROVE  IInv'
BY WorkStartKeeps, WorkStopKeeps, DispatchKeeps, SelectKeeps, RequestKeeps,
   ChangedKeeps, ScriptKeeps, FailsKeeps, ErrorKeeps DEF Worker

-----------------------------------------------------------------------------
(* The commands of the other greenlets.                                    *)

LEMMA AskedIs ==
  ASSUME NEW s \in SdState, NEW u, u = Asked(s)
  PROVE  /\ u \in SdState /\ u.work_timer = s.work_timer
         /\ s.must_pause_work => u.must_pause_work
         /\ s.work_timer => u.must_pause_work
         /\ u.cmd_from_sd = s.cmd_from_sd
         /\ u.file = s.file /\ u.file_position = s.file_position
         /\ u.next_file_position = s.next_file_position
         /\ u.load_channel = s.load_channel
         /\ u.print_channel = s.print_channel
         /\ u.change_filament = s.change_filament
BY DEF Asked, SdState

LEMMA ResumedIs ==
  ASSUME NEW s \in SdState, NEW u, u = Resumed(s)
  PROVE  /\ u \in SdState /\ u.work_timer /\ u.file = s.file
         /\ u.file_position = s.file_position
         /\ u.load_channel = s.load_channel
         /\ u.change_filament = s.change_filament
<1> DEFINE no == FALSE
           yes == TRUE
<1>1. u = [s EXCEPT !.must_pause_work = no, !.work_timer = yes]
  BY DEF Resumed
<1>2. no \in BOOLEAN /\ yes \in BOOLEAN /\ yes
  OBVIOUS
<1> HIDE DEF no, yes
<1>3. u \in SdState /\ u.work_timer = yes /\ u.file = s.file
      /\ u.file_position = s.file_position
      /\ u.load_channel = s.load_channel
      /\ u.change_filament = s.change_filament
  BY <1>1, <1>2 DEF SdState
<1> QED BY <1>2, <1>3

LEMMA LoadedIs ==
  ASSUME NEW s \in SdState, NEW ok \in BOOLEAN, NEW u, u = Loaded(s, ok)
  PROVE  /\ u \in SdState /\ u.work_timer = s.work_timer /\ u.file = ok
         /\ u.must_pause_work = s.must_pause_work
         /\ u.file_position = 0
         /\ u.next_file_position = s.next_file_position
         /\ u.load_channel = s.load_channel
         /\ u.print_channel = s.print_channel
         /\ u.change_filament = s.change_filament
<1> DEFINE z == 0
<1>1. u = [s EXCEPT !.file = ok, !.file_position = z] /\ z = 0
  BY DEF Loaded
<1>2. z \in 0..Len(File)
  BY Names
<1> HIDE DEF z
<1> QED BY <1>1, <1>2 DEF SdState

LEMMA MovedIs ==
  ASSUME NEW s \in SdState, NEW n \in 0..Len(File),
         NEW u, u = [s EXCEPT !.file_position = n]
  PROVE  /\ u \in SdState /\ u.work_timer = s.work_timer /\ u.file = s.file
         /\ u.must_pause_work = s.must_pause_work /\ u.file_position = n
         /\ u.next_file_position = s.next_file_position
         /\ u.load_channel = s.load_channel
         /\ u.print_channel = s.print_channel
         /\ u.change_filament = s.change_filament
BY DEF SdState

LEMMA PrIs ==
  ASSUME NEW p \in PrState
  PROVE  /\ \A a, b \in BOOLEAN :
            /\ [p EXCEPT !.is_paused = a, !.pause_command_sent = b] \in PrState
            /\ [p EXCEPT !.sd_paused = a, !.pause_command_sent = b] \in PrState
         /\ \A a \in BOOLEAN :
              /\ [p EXCEPT !.is_paused = a] \in PrState
              /\ [p EXCEPT !.sd_paused = a] \in PrState
              /\ [p EXCEPT !.pause_command_sent = a] \in PrState
         /\ \A a, b, d \in BOOLEAN :
              [is_paused |-> a, sd_paused |-> b, pause_command_sent |-> d]
                \in PrState
BY DEF PrState

LEMMA ClearIs ==
  ASSUME NEW p \in PrState
  PROVE  ClearPause(p) \in PrState /\ FromFile(p) \in PrState
         /\ InitPR \in PrState
<1> DEFINE no == FALSE
           yes == TRUE
<1>1. /\ ClearPause(p) = [p EXCEPT !.is_paused = no, !.pause_command_sent = no]
      /\ FromFile(p) = [p EXCEPT !.sd_paused = yes]
      /\ InitPR = [is_paused |-> no, sd_paused |-> no,
                   pause_command_sent |-> no]
  BY DEF ClearPause, FromFile, InitPR
<1>2. no \in BOOLEAN /\ yes \in BOOLEAN
  OBVIOUS
<1> HIDE DEF no, yes
<1>3. ClearPause(p) \in PrState
  BY <1>1, <1>2 DEF PrState
<1>4. FromFile(p) \in PrState
  BY <1>1, <1>2 DEF PrState
<1>5. InitPR \in PrState
  BY <1>1, <1>2 DEF PrState
<1> QED BY <1>3, <1>4, <1>5

LEMMA ResetIs ==
  ResetPS \in PsState /\ ResetPS.state = "standby"
BY DEF ResetPS, PsState

(* A command is done while the worker stays where it is, with the job as s *)
(* and the report t, which is the old one, its end or a fresh one.         *)
LEMMA CommandKeeps ==
  ASSUME IInv, NEW c \in Actors, owner = c,
         NEW s \in SdState, NEW p \in PrState, NEW t, Done(c, s, p, t),
         NoWorker, UNCHANGED last_line, refused' \in BOOLEAN,
         loaded' \in Channels, broken_off' \in BOOLEAN, FilamentInv',
         s.work_timer = sd.work_timer,
         s.next_file_position = sd.next_file_position,
         sd.must_pause_work => s.must_pause_work,
         s.file => sd.file /\ s.file_position = sd.file_position,
         sd.file => s.file \/ (s.work_timer => s.must_pause_work),
         t = ps \/ t = ResetPS \/ (t = NoteFinish(ps, "cancelled") /\ ~s.file)
  PROVE  IInv'
<1>j. JobGood /\ WorkInv /\ StatsInv /\ ps \in PsState
  BY DEF IInv, JobGood
<1>1. /\ sd' = s /\ pr' = p /\ ps' = t /\ worker' = worker
      /\ last_line' = last_line /\ in_spite' = in_spite
  BY DEF Done, NoWorker
<1>2. MutexGood' /\ PauseInv'
  BY <1>1, DoneMutex DEF Done
<1>3. WorkInv'
  BY <1>1, <1>j DEF WorkInv
<1>4. t \in PsState /\ StatsInv'
  <2>1. CASE t = ps
    BY <1>1, <1>j, <2>1 DEF StatsInv
  <2>2. CASE t = ResetPS
    BY <1>1, <2>2, ResetIs DEF StatsInv
  <2>3. CASE t = NoteFinish(ps, "cancelled") /\ ~s.file
    <3>1. t \in PsState /\ t.state # "printing" /\ ~t.started
      BY <1>j, <2>3, Finishes
    <3> QED BY <1>1, <2>3, <3>1 DEF StatsInv
  <2> QED BY <2>1, <2>2, <2>3
<1>5. JobGood'
  BY <1>1, <1>3, <1>4, <1>j DEF JobGood
<1> QED BY <1>2, <1>5 DEF IInv

(* What is believed of the filament is left alone.                         *)
LEMMA FilamentKeeps ==
  ASSUME IInv, NEW s, sd' = s, UNCHANGED <<worker, loaded>>,
         s.load_channel = sd.load_channel, s.print_channel = sd.print_channel,
         s.change_filament => sd.change_filament,
         sd.change_filament /\ ~s.change_filament => broken_off',
         broken_off => broken_off'
  PROVE  FilamentInv'
BY DEF IInv, JobGood, FilamentInv, FilamentKnown

(* A command is done that leaves the job as it is.                         *)
LEMMA CommandIdles ==
  ASSUME IInv, NEW c \in Actors, owner = c, NEW p \in PrState,
         Done(c, sd, p, ps), NoWorker, NoChange, UNCHANGED last_line,
         refused' \in BOOLEAN
  PROVE  IInv'
<1>1. sd \in SdState /\ sd' = sd /\ UNCHANGED <<worker, loaded, broken_off>>
      /\ loaded \in Channels /\ broken_off \in BOOLEAN
  BY DEF IInv, JobGood, Done, NoWorker, NoChange
<1>2. FilamentInv'
  BY <1>1, FilamentKeeps
<1> QED BY <1>1, <1>2, CommandKeeps

(* A command is done between two prints, and may start one.                *)
LEMMA CommandStarts ==
  ASSUME IInv, NEW c \in Actors, owner = c, ~sd.work_timer,
         NEW s \in SdState, NEW p \in PrState, NEW t, Done(c, s, p, t),
         NoChange, worker' \in {"none", "start"}, refused' \in BOOLEAN,
         in_spite' \in BOOLEAN, last_line' \in 0..Len(File),
         s.work_timer <=> worker' = "start",
         s.file => s.file_position = last_line',
         s.load_channel = sd.load_channel,
         s.change_filament => sd.change_filament,
         \/ t = ps /\ s.file = sd.file
         \/ t = ResetPS
  PROVE  IInv'
<1>j. /\ JobGood /\ WorkInv /\ StatsInv /\ FilamentInv /\ ps \in PsState
  BY DEF IInv, JobGood
<1>1. /\ sd' = s /\ pr' = p /\ ps' = t /\ worker = "none"
      /\ UNCHANGED <<loaded, broken_off>>
  BY <1>j DEF Done, NoChange, WorkInv
<1>2. MutexGood' /\ PauseInv'
  BY <1>1, DoneMutex DEF Done
<1>3. WorkInv'
  BY <1>1, <1>j DEF WorkInv
<1>4. t \in PsState /\ StatsInv'
  BY <1>1, <1>j, ResetIs DEF StatsInv
<1>5. FilamentInv'
  BY <1>1, <1>j DEF FilamentInv, FilamentKnown
<1>6. JobGood'
  BY <1>1, <1>3, <1>4, <1>5, <1>j DEF JobGood
<1> QED BY <1>2, <1>6 DEF IInv

\* What a command knows of the printer.
LEMMA CommandFacts ==
  ASSUME IInv
  PROVE  /\ sd \in SdState /\ pr \in PrState /\ ps \in PsState
         /\ loaded \in Channels /\ broken_off \in BOOLEAN
         /\ last_line \in 0..Len(File) /\ in_spite \in BOOLEAN
         /\ refused \in BOOLEAN /\ Channel0 \in Channels
         /\ sd.load_channel \in Channels /\ sd.print_channel \in Channels
         /\ sd.file \in BOOLEAN /\ sd.work_timer \in BOOLEAN
         /\ WorkInv /\ StatsInv /\ FilamentInv
BY Names DEF IInv, JobGood, SdState

(* After do_pause a worker that is there has been asked to stop.           *)
LEMMA AfterPauseKeeps ==
  ASSUME IInv, NEW c \in Actors, owner = c, NEW s \in SdState,
         NEW p \in PrState, AfterPause(c, s, p), NoWorker,
         UNCHANGED <<last_line, refused>>,
         s.work_timer = sd.work_timer, s.file = sd.file,
         s.file_position = sd.file_position,
         s.next_file_position = sd.next_file_position,
         s.load_channel = sd.load_channel, s.print_channel = sd.print_channel,
         s.change_filament = sd.change_filament,
         sd.must_pause_work => s.must_pause_work,
         s.work_timer => s.must_pause_work
  PROVE  IInv'
<1>j. /\ sd \in SdState /\ broken_off \in BOOLEAN /\ loaded \in Channels
      /\ refused \in BOOLEAN /\ FilamentInv
  BY CommandFacts
<1>1. /\ loaded' = loaded /\ UNCHANGED <<last_line, worker>>
      /\ broken_off' = (broken_off \/ (cmd[c] = "CANCEL_PRINT"
                                       /\ s.change_filament))
      /\ refused' = refused
  BY DEF AfterPause, NoWorker
<1>2. broken_off' \in BOOLEAN /\ loaded' \in Channels /\ refused' \in BOOLEAN
      /\ (broken_off => broken_off')
  BY <1>1, <1>j
<1>3. ASSUME NEW q \in PrState, Done(c, s, q, ps)
      PROVE  IInv'
  <2>1. sd' = s
    BY <1>3 DEF Done
  <2>2. FilamentInv'
    BY <1>1, <1>2, <2>1, FilamentKeeps
  <2> QED BY <1>1, <1>2, <1>3, <2>2, CommandKeeps
<1>4. CASE cmd[c] = "PAUSE" /\ Done(c, s, [p EXCEPT !.is_paused = TRUE,
                                             !.pause_command_sent = TRUE], ps)
  <2> DEFINE yes == TRUE
             q == [p EXCEPT !.is_paused = yes, !.pause_command_sent = yes]
  <2>1. Done(c, s, q, ps)
    BY <1>4
  <2>2. yes \in BOOLEAN
    OBVIOUS
  <2>3. q \in PrState
    <3> HIDE DEF yes
    <3> QED BY <2>2, PrIs
  <2> HIDE DEF q
  <2> QED BY <1>3, <2>1, <2>3
<1>5. CASE cmd[c] = "M25" /\ Done(c, s, p, ps)
  BY <1>3, <1>5
<1>6. CASE /\ cmd[c] = "CANCEL_PRINT"
           /\ Done(c, Cancelled(s), ClearPause(p), NoteFinish(ps, "cancelled"))
  <2> DEFINE u == Cancelled(s)
             q == ClearPause(p)
  <2>1. Done(c, u, q, NoteFinish(ps, "cancelled"))
    BY <1>6
  <2>2. /\ u \in SdState /\ u.work_timer = s.work_timer
        /\ u.must_pause_work = s.must_pause_work /\ ~u.file
        /\ u.load_channel = s.load_channel /\ ~u.change_filament
        /\ u.print_channel = s.print_channel
        /\ u.next_file_position = s.next_file_position
    BY CancelledIs
  <2>3. q \in PrState
    BY ClearIs
  <2>4. sd' = u
    BY <2>1 DEF Done
  <2> HIDE DEF u, q
  <2>5. FilamentInv'
    BY <1>1, <1>2, <1>6, <2>2, <2>4, FilamentKeeps
  <2> QED BY <1>1, <1>2, <2>1, <2>2, <2>3, <2>5, CommandKeeps
<1>7. CASE /\ cmd[c] = "SDCARD_RESET_FILE"
           /\ Done(c, [s EXCEPT !.file = FALSE, !.file_position = 0], p,
                   ResetPS)
  <2> DEFINE no == FALSE
             u == Loaded(s, no)
  <2>1. Done(c, u, p, ResetPS)
    BY <1>7 DEF Loaded
  <2>2. no \in BOOLEAN /\ ~no
    OBVIOUS
  <2> HIDE DEF no
  <2>3. /\ u \in SdState /\ u.work_timer = s.work_timer /\ u.file = no
        /\ u.must_pause_work = s.must_pause_work
        /\ u.next_file_position = s.next_file_position
        /\ u.load_channel = s.load_channel
        /\ u.print_channel = s.print_channel
        /\ u.change_filament = s.change_filament
    BY <2>2, LoadedIs
  <2>4. sd' = u
    BY <2>1 DEF Done
  <2> HIDE DEF u
  <2>5. FilamentInv'
    BY <1>1, <1>2, <2>3, <2>4, FilamentKeeps
  <2> QED BY <1>1, <1>2, <2>1, <2>2, <2>3, <2>5, CommandKeeps
<1> QED BY <1>4, <1>5, <1>6, <1>7 DEF AfterPause

LEMMA PauseFirstKeeps ==
  ASSUME IInv, NEW c \in Actors, NEW k, Running(c, k), NEW p \in PrState,
         PauseFirst(c, p)
  PROVE  IInv'
<1> DEFINE s == Asked(sd)
<1>j. /\ sd \in SdState /\ ps \in PsState /\ WorkInv /\ StatsInv
      /\ FilamentInv /\ owner = c /\ pc[c] = "locking"
  BY CommandFacts DEF Running
<1>1. /\ s \in SdState /\ s.work_timer = sd.work_timer
      /\ sd.must_pause_work => s.must_pause_work
      /\ s.work_timer => s.must_pause_work
      /\ s.file = sd.file /\ s.file_position = sd.file_position
      /\ s.next_file_position = sd.next_file_position
      /\ s.load_channel = sd.load_channel
      /\ s.print_channel = sd.print_channel
      /\ s.change_filament = sd.change_filament
  BY <1>j, AskedIs
<1>2. CASE Waits(s)
  <2>1. /\ sd' = s /\ pr' = p /\ pc' = [pc EXCEPT ![c] = "pausing"]
        /\ UNCHANGED <<ps, owner, queue, cmd, given, ready, worker, loaded,
                       broken_off, in_spite, last_line, refused>>
    BY <1>2 DEF PauseFirst, NoWorker, NoChange
  <2>2. MutexGood'
    BY <1>j, <2>1, MovesMutex DEF IInv, MutexGood
  <2> HIDE DEF s
  <2>3. WorkInv' /\ StatsInv' /\ FilamentInv'
    BY <1>1, <1>j, <2>1 DEF WorkInv, StatsInv, FilamentInv, FilamentKnown
  <2>4. JobGood'
    BY <1>1, <2>1, <2>3 DEF IInv, JobGood
  <2>5. PauseInv'
    BY <1>1, <2>1 DEF PauseInv
  <2> QED BY <2>2, <2>4, <2>5 DEF IInv
<1>3. CASE ~Waits(s)
  <2>1. AfterPause(c, s, p) /\ NoWorker /\ UNCHANGED <<last_line, refused>>
    BY <1>3 DEF PauseFirst
  <2> HIDE DEF s
  <2> QED BY <1>1, <1>j, <2>1, AfterPauseKeeps
<1> QED BY <1>2, <1>3

LEMMA PauseReturnsKeeps ==
  ASSUME IInv, NEW c \in Actors, PauseReturns(c)
  PROVE  IInv'
<1>1. /\ owner = c /\ AfterPause(c, sd, pr) /\ NoWorker
      /\ UNCHANGED <<last_line, refused>>
      /\ sd.work_timer => sd.must_pause_work
  BY DEF PauseReturns, IInv, MutexGood, MutexInv, ActorInv, PauseInv
<1>2. sd \in SdState /\ pr \in PrState
  BY CommandFacts
<1> QED BY <1>1, <1>2, AfterPauseKeeps

LEMMA RefusedKeeps ==
  ASSUME IInv, NEW c \in Actors, Refused(c)
  PROVE  IInv'
<1>1. owner = c /\ Done(c, sd, pr, ps) /\ NoWorker /\ NoChange
      /\ UNCHANGED <<last_line, refused>>
  BY DEF Refused, NoHistory
<1> QED BY <1>1, CommandFacts, CommandIdles

LEMMA PauseKeeps ==
  ASSUME IInv, NEW c \in Actors, Pause(c)
  PROVE  IInv'
<1> DEFINE yes == TRUE
           no == FALSE
<1>1. yes \in BOOLEAN /\ no \in BOOLEAN
  OBVIOUS
<1>2. Running(c, "PAUSE") /\ owner = c /\ pr \in PrState /\ refused \in BOOLEAN
  BY CommandFacts DEF Pause, Running
<1>3. CASE /\ Done(c, sd, [pr EXCEPT !.is_paused = TRUE], ps)
           /\ NoWorker /\ NoHistory
  <2> DEFINE q == [pr EXCEPT !.is_paused = yes]
  <2>1. Done(c, sd, q, ps) /\ NoWorker /\ NoChange
        /\ UNCHANGED <<last_line, refused>>
    BY <1>3 DEF NoHistory
  <2>2. q \in PrState
    <3> HIDE DEF yes
    <3> QED BY <1>1, <1>2, PrIs
  <2> HIDE DEF q
  <2> QED BY <1>2, <2>1, <2>2, CommandIdles
<1>4. CASE /\ Done(c, sd, [is_paused |-> TRUE, sd_paused |-> FALSE,
                           pause_command_sent |-> TRUE], ps)
           /\ NoWorker /\ NoHistory
  <2> DEFINE q == [is_paused |-> yes, sd_paused |-> no,
                   pause_command_sent |-> yes]
  <2>1. Done(c, sd, q, ps) /\ NoWorker /\ NoChange
        /\ UNCHANGED <<last_line, refused>>
    BY <1>4 DEF NoHistory
  <2>2. q \in PrState
    <3> HIDE DEF yes, no
    <3> QED BY <1>1, <1>2, PrIs
  <2> HIDE DEF q
  <2> QED BY <1>2, <2>1, <2>2, CommandIdles
<1>5. CASE PauseFirst(c, FromFile(pr))
  BY <1>2, <1>5, ClearIs, PauseFirstKeeps
<1> QED BY <1>3, <1>4, <1>5 DEF Pause

LEMMA ResumeKeeps ==
  ASSUME IInv, NEW c \in Actors, Resume(c)
  PROVE  IInv'
<1>1. /\ owner = c /\ pr \in PrState /\ refused \in BOOLEAN /\ sd \in SdState
      /\ ps \in PsState /\ last_line \in 0..Len(File) /\ WorkInv
      /\ NoChange /\ UNCHANGED <<last_line, refused>>
      /\ ClearPause(pr) \in PrState /\ InitPR \in PrState
  BY CommandFacts, ClearIs DEF Resume, Running, NoHistory
<1>2. CASE Done(c, sd, pr, ps) /\ NoWorker
  BY <1>1, <1>2, CommandIdles
<1>3. CASE Done(c, sd, ClearPause(pr), ps) /\ NoWorker
  BY <1>1, <1>3, CommandIdles
<1>4. CASE /\ ~sd.work_timer /\ Done(c, Resumed(sd), InitPR, ps)
           /\ worker' = "start" /\ in_spite' = FALSE
  <2> DEFINE s == Resumed(sd)
  <2>1. /\ s \in SdState /\ s.work_timer /\ s.file = sd.file
        /\ s.file_position = sd.file_position
        /\ s.load_channel = sd.load_channel
        /\ s.change_filament = sd.change_filament
    BY <1>1, ResumedIs
  <2>2. sd.file => sd.file_position = last_line
    BY <1>1 DEF WorkInv
  <2>3. in_spite' \in BOOLEAN
    BY <1>4
  <2> HIDE DEF s
  <2>4. Done(c, s, InitPR, ps) /\ worker' = "start" /\ ~sd.work_timer
    BY <1>4 DEF s
  <2> QED BY <1>1, <2>1, <2>2, <2>3, <2>4, CommandStarts
<1> QED BY <1>2, <1>3, <1>4 DEF Resume

LEMMA ClearKeeps ==
  ASSUME IInv, NEW c \in Actors, ClearPauseCmd(c)
  PROVE  IInv'
<1>1. /\ owner = c /\ refused \in BOOLEAN /\ ClearPause(pr) \in PrState
      /\ NoChange /\ UNCHANGED <<last_line, refused>> /\ NoWorker
      /\ Done(c, sd, ClearPause(pr), ps)
  BY CommandFacts, ClearIs DEF ClearPauseCmd, Running, NoHistory
<1> QED BY <1>1, CommandIdles

\* The file is closed already: only its position is set back.
LEMMA RewindKeeps ==
  ASSUME IInv, NEW c \in Actors, owner = c, ~sd.file, NEW p \in PrState,
         NEW t \in {ps, ResetPS}, NoWorker, NoHistory,
         Done(c, [sd EXCEPT !.file_position = 0], p, t)
  PROVE  IInv'
<1> DEFINE z == 0
           s == [sd EXCEPT !.file_position = z]
<1>1. /\ refused \in BOOLEAN /\ sd \in SdState /\ z \in 0..Len(File)
      /\ UNCHANGED <<last_line, refused, loaded, broken_off, worker>>
      /\ loaded \in Channels /\ broken_off \in BOOLEAN
  BY CommandFacts, Names DEF NoHistory, NoChange, NoWorker
<1>2. Done(c, s, p, t) /\ sd' = s
  BY DEF Done
<1> HIDE DEF z
<1>3. /\ s \in SdState /\ s.work_timer = sd.work_timer /\ s.file = sd.file
      /\ s.must_pause_work = sd.must_pause_work
      /\ s.next_file_position = sd.next_file_position
      /\ s.load_channel = sd.load_channel
      /\ s.print_channel = sd.print_channel
      /\ s.change_filament = sd.change_filament
  BY <1>1, MovedIs
<1> HIDE DEF s
<1>4. FilamentInv'
  BY <1>1, <1>2, <1>3, FilamentKeeps
<1> QED BY <1>1, <1>2, <1>3, <1>4, CommandKeeps

LEMMA CancelKeeps ==
  ASSUME IInv, NEW c \in Actors, CancelPrint(c)
  PROVE  IInv'
<1>1. /\ owner = c /\ pr \in PrState /\ refused \in BOOLEAN
      /\ Running(c, "CANCEL_PRINT") /\ ClearPause(pr) \in PrState
  BY CommandFacts, ClearIs DEF CancelPrint, Running
<1>2. CASE PauseFirst(c, pr)
  BY <1>1, <1>2, PauseFirstKeeps
<1>3. CASE /\ ~sd.file
           /\ Done(c, [sd EXCEPT !.file_position = 0], ClearPause(pr), ps)
           /\ NoWorker /\ NoHistory
  BY <1>1, <1>3, RewindKeeps
<1>4. CASE Done(c, sd, ClearPause(pr), ps) /\ NoWorker /\ NoHistory
  BY <1>1, <1>4, CommandIdles DEF NoHistory
<1> QED BY <1>2, <1>3, <1>4 DEF CancelPrint

LEMMA M24Keeps ==
  ASSUME IInv, NEW c \in Actors, M24(c)
  PROVE  IInv'
<1>1. /\ owner = c /\ pr \in PrState /\ refused \in BOOLEAN /\ sd \in SdState
      /\ ps \in PsState /\ last_line \in 0..Len(File) /\ WorkInv
      /\ NoChange /\ UNCHANGED <<last_line, refused>>
  BY CommandFacts DEF M24, Running, NoHistory
<1>2. CASE sd.work_timer
  BY <1>1, <1>2, CommandIdles DEF M24
<1>3. CASE ~sd.work_timer
  <2> DEFINE s == Resumed(sd)
  <2>1. /\ s \in SdState /\ s.work_timer /\ s.file = sd.file
        /\ s.file_position = sd.file_position
        /\ s.load_channel = sd.load_channel
        /\ s.change_filament = sd.change_filament
    BY <1>1, ResumedIs
  <2>2. sd.file => sd.file_position = last_line
    BY <1>1 DEF WorkInv
  <2>3. Done(c, s, pr, ps) /\ worker' = "start" /\ in_spite' \in BOOLEAN
    BY <1>1, <1>3 DEF M24, Started, PrState
  <2> HIDE DEF s
  <2> QED BY <1>1, <1>3, <2>1, <2>2, <2>3, CommandStarts
<1> QED BY <1>2, <1>3

LEMMA ResetFileKeeps ==
  ASSUME IInv, NEW c \in Actors, ResetFile(c)
  PROVE  IInv'
<1>1. /\ owner = c /\ pr \in PrState /\ refused \in BOOLEAN
      /\ Running(c, "SDCARD_RESET_FILE")
  BY CommandFacts DEF ResetFile, Running
<1>2. CASE /\ Done(c, sd, pr, ps) /\ refused' = TRUE
           /\ NoWorker /\ NoChange /\ UNCHANGED last_line
  BY <1>1, <1>2, CommandIdles
<1>3. CASE PauseFirst(c, pr)
  BY <1>1, <1>3, PauseFirstKeeps
<1>4. CASE /\ ~sd.file
           /\ Done(c, [sd EXCEPT !.file_position = 0], pr, ResetPS)
           /\ NoWorker /\ NoHistory
  BY <1>1, <1>4, RewindKeeps
<1> QED BY <1>2, <1>3, <1>4 DEF ResetFile

LEMMA PrintFileKeeps ==
  ASSUME IInv, NEW c \in Actors, PrintFile(c)
  PROVE  IInv'
<1>1. /\ owner = c /\ pr \in PrState /\ refused \in BOOLEAN /\ sd \in SdState
      /\ last_line \in 0..Len(File) /\ 0 \in 0..Len(File) /\ WorkInv
      /\ in_spite \in BOOLEAN
  BY CommandFacts, Names DEF PrintFile, Running
<1>2. CASE Done(c, sd, pr, ps) /\ NoWorker /\ NoHistory
  BY <1>1, <1>2, CommandIdles DEF NoHistory
<1>3. CASE /\ ~sd.work_timer
           /\ Done(c, Resumed(Loaded(sd, TRUE)), pr, ResetPS)
           /\ Started /\ last_line' = 0 /\ NoChange /\ UNCHANGED refused
  <2> DEFINE yes == TRUE
             l == Loaded(sd, yes)
             s == Resumed(l)
  <2>b. yes \in BOOLEAN
    OBVIOUS
  <2>0. Done(c, s, pr, ResetPS) /\ worker' = "start" /\ in_spite' \in BOOLEAN
    BY <1>1, <1>3 DEF Started, PrState
  <2> HIDE DEF yes
  <2>1. /\ l \in SdState /\ l.file_position = 0
        /\ l.load_channel = sd.load_channel
        /\ l.change_filament = sd.change_filament
    BY <1>1, <2>b, LoadedIs
  <2> HIDE DEF l
  <2>2. /\ s \in SdState /\ s.work_timer
        /\ s.file_position = l.file_position
        /\ s.load_channel = l.load_channel
        /\ s.change_filament = l.change_filament
    BY <2>1, ResumedIs
  <2> HIDE DEF s
  <2>3. /\ NoChange /\ refused' \in BOOLEAN /\ last_line' \in 0..Len(File)
        /\ last_line' = 0 /\ ~sd.work_timer
    BY <1>1, <1>3
  <2> QED BY <1>1, <2>0, <2>1, <2>2, <2>3, CommandStarts
<1>4. CASE /\ ~sd.work_timer
           /\ Done(c, Loaded(sd, FALSE), pr, ResetPS) /\ NoWorker /\ NoHistory
  <2> DEFINE no == FALSE
             s == Loaded(sd, no)
  <2>b. no \in BOOLEAN /\ ~no
    OBVIOUS
  <2>0. /\ Done(c, s, pr, ResetPS) /\ NoChange /\ refused' \in BOOLEAN
        /\ worker' = worker /\ in_spite' \in BOOLEAN /\ ~sd.work_timer
        /\ last_line' \in 0..Len(File)
    BY <1>1, <1>4 DEF NoWorker, NoHistory
  <2> HIDE DEF no
  <2>1. /\ s \in SdState /\ s.work_timer = sd.work_timer /\ s.file = no
        /\ s.load_channel = sd.load_channel
        /\ s.change_filament = sd.change_filament
    BY <1>1, <2>b, LoadedIs
  <2> HIDE DEF s
  <2>2. worker' \in {"none", "start"} /\ worker' # "start"
    BY <1>1, <2>0 DEF WorkInv
  <2> QED BY <1>1, <2>b, <2>0, <2>1, <2>2, CommandStarts
<1> QED BY <1>2, <1>3, <1>4 DEF PrintFile

LEMMA M23Keeps ==
  ASSUME IInv, NEW c \in Actors, M23(c)
  PROVE  IInv'
<1>1. /\ owner = c /\ pr \in PrState /\ refused \in BOOLEAN /\ sd \in SdState
      /\ 0 \in 0..Len(File) /\ WorkInv /\ in_spite \in BOOLEAN
      /\ Channel0 \in Channels /\ NoWorker
  <2>1. Running(c, "M23") /\ NoWorker
    BY DEF M23
  <2> QED BY <2>1, CommandFacts, Names DEF Running
<1>2. CASE Done(c, sd, pr, ps) /\ NoHistory
  BY <1>1, <1>2, CommandIdles DEF NoHistory
<1>3. CASE /\ ~sd.work_timer
           /\ \E ok \in BOOLEAN :
                Done(c, [Loaded(sd, ok) EXCEPT !.print_channel = Channel0,
                                               !.change_filament = FALSE,
                                               !.enable_ffm = FALSE],
                     pr, ResetPS)
           /\ last_line' = 0 /\ NoChange /\ UNCHANGED refused
  <2> DEFINE no == FALSE
  <2>0. PICK ok \in BOOLEAN :
          Done(c, [Loaded(sd, ok) EXCEPT !.print_channel = Channel0,
                                         !.change_filament = no,
                                         !.enable_ffm = no], pr, ResetPS)
    BY <1>3
  <2>b. no \in BOOLEAN /\ ~no
    OBVIOUS
  <2> HIDE DEF no
  <2> DEFINE l == Loaded(sd, ok)
             s == [l EXCEPT !.print_channel = Channel0,
                            !.change_filament = no, !.enable_ffm = no]
  <2>1. /\ l \in SdState /\ l.work_timer = sd.work_timer
        /\ l.file_position = 0 /\ l.load_channel = sd.load_channel
    BY <1>1, LoadedIs
  <2>2. Done(c, s, pr, ResetPS)
    BY <2>0
  <2> HIDE DEF l
  <2>3. /\ s \in SdState /\ s.work_timer = l.work_timer
        /\ s.file_position = l.file_position
        /\ s.load_channel = l.load_channel /\ s.change_filament = no
    BY <1>1, <2>1, <2>b DEF SdState
  <2> HIDE DEF s
  <2>4. /\ worker' \in {"none", "start"} /\ worker' # "start"
        /\ in_spite' \in BOOLEAN
    BY <1>1, <1>3 DEF WorkInv, NoWorker
  <2>5. /\ NoChange /\ refused' \in BOOLEAN /\ last_line' \in 0..Len(File)
        /\ last_line' = 0 /\ ~sd.work_timer
    BY <1>1, <1>3
  <2> QED BY <1>1, <2>1, <2>b, <2>2, <2>3, <2>4, <2>5, CommandStarts
<1> QED BY <1>2, <1>3 DEF M23

LEMMA M26Keeps ==
  ASSUME IInv, NEW c \in Actors, M26(c)
  PROVE  IInv'
<1>1. /\ owner = c /\ pr \in PrState /\ refused \in BOOLEAN /\ sd \in SdState
      /\ WorkInv /\ in_spite \in BOOLEAN /\ NoWorker /\ NoChange
      /\ UNCHANGED refused
  BY CommandFacts DEF M26, Running
<1>2. CASE Done(c, sd, pr, ps) /\ UNCHANGED last_line
  BY <1>1, <1>2, CommandIdles
<1>3. CASE /\ ~sd.work_timer
           /\ \E pos \in 0..Len(File) :
                /\ Done(c, [sd EXCEPT !.file_position = pos], pr, ps)
                /\ last_line' = pos
  <2>0. PICK pos \in 0..Len(File) :
          /\ Done(c, [sd EXCEPT !.file_position = pos], pr, ps)
          /\ last_line' = pos
    BY <1>3
  <2> DEFINE s == [sd EXCEPT !.file_position = pos]
  <2>1. /\ s \in SdState /\ s.work_timer = sd.work_timer
        /\ s.file = sd.file /\ s.file_position = pos
        /\ s.load_channel = sd.load_channel
        /\ s.change_filament = sd.change_filament
    BY <1>1, MovedIs
  <2>2. Done(c, s, pr, ps)
    BY <2>0
  <2> HIDE DEF s
  <2>3. /\ worker' \in {"none", "start"} /\ worker' # "start"
        /\ in_spite' \in BOOLEAN
    BY <1>1, <1>3 DEF WorkInv, NoWorker
  <2> QED BY <1>1, <1>3, <2>0, <2>1, <2>2, <2>3, CommandStarts
<1> QED BY <1>2, <1>3 DEF M26

LEMMA RefuellingKeeps ==
  ASSUME IInv, NEW c \in Actors, ClearRefuelling(c)
  PROVE  IInv'
<1> DEFINE no == FALSE
           s == [sd EXCEPT !.change_filament = no]
<1>1. /\ owner = c /\ pr \in PrState /\ refused \in BOOLEAN /\ sd \in SdState
      /\ FilamentInv /\ sd.print_channel \in Channels /\ loaded \in Channels
      /\ broken_off \in BOOLEAN
      /\ NoWorker /\ UNCHANGED <<last_line, refused, worker>>
      /\ Done(c, s, pr, ps) /\ sd' = s
  BY CommandFacts DEF ClearRefuelling, Running, Done, NoWorker
<1>2. no \in BOOLEAN /\ ~no
  OBVIOUS
<1> HIDE DEF no
<1>3. /\ s \in SdState /\ s.work_timer = sd.work_timer /\ s.file = sd.file
      /\ s.must_pause_work = sd.must_pause_work
      /\ s.file_position = sd.file_position
      /\ s.next_file_position = sd.next_file_position
      /\ s.load_channel = sd.load_channel
      /\ s.print_channel = sd.print_channel /\ s.change_filament = no
  BY <1>1, <1>2 DEF SdState
<1> HIDE DEF s
<1>4. CASE sd.change_filament
  <2>1. /\ loaded' = sd.print_channel /\ broken_off' = FALSE
    BY <1>4 DEF ClearRefuelling
  <2>2. FilamentInv'
    BY <1>1, <1>2, <1>3, <1>4, <2>1 DEF FilamentInv, FilamentKnown
  <2>3. loaded' \in Channels /\ broken_off' \in BOOLEAN
    BY <1>1, <2>1
  <2> QED BY <1>1, <1>3, <2>2, <2>3, CommandKeeps
<1>5. CASE ~sd.change_filament
  <2>1. UNCHANGED <<loaded, broken_off>>
    BY <1>5 DEF ClearRefuelling, NoChange
  <2>2. FilamentInv'
    BY <1>1, <1>2, <1>3, <1>5, <2>1 DEF FilamentInv, FilamentKnown
  <2> QED BY <1>1, <1>3, <2>1, <2>2, CommandKeeps
<1> QED BY <1>4, <1>5

LEMMA ChannelKeeps ==
  ASSUME IInv, NEW c \in Actors, SetChannel(c)
  PROVE  IInv'
<1> DEFINE l == loaded
           s == [sd EXCEPT !.load_channel = l, !.print_channel = l]
<1>1. /\ owner = c /\ pr \in PrState /\ refused \in BOOLEAN /\ sd \in SdState
      /\ FilamentInv /\ l \in Channels /\ l = loaded
      /\ NoWorker /\ UNCHANGED <<loaded, last_line, refused, worker>>
      /\ broken_off' = FALSE /\ Done(c, s, pr, ps) /\ sd' = s
  BY CommandFacts DEF SetChannel, Running, Done, NoWorker
<1> HIDE DEF l
<1>2. /\ s \in SdState /\ s.work_timer = sd.work_timer /\ s.file = sd.file
      /\ s.must_pause_work = sd.must_pause_work
      /\ s.file_position = sd.file_position
      /\ s.next_file_position = sd.next_file_position
      /\ s.load_channel = l /\ s.print_channel = l
      /\ s.change_filament = sd.change_filament
  BY <1>1 DEF SdState
<1> HIDE DEF s
<1>3. FilamentInv'
  BY <1>1, <1>2 DEF FilamentInv, FilamentKnown
<1>4. broken_off' \in BOOLEAN
  BY <1>1
<1> QED BY <1>1, <1>2, <1>3, <1>4, CommandKeeps

LEMMA EnableKeeps ==
  ASSUME IInv, NEW c \in Actors, EnableFFM(c)
  PROVE  IInv'
<1>0. PICK enable \in BOOLEAN :
        Done(c, [sd EXCEPT !.enable_ffm = enable], pr, ps)
  BY DEF EnableFFM
<1> DEFINE s == [sd EXCEPT !.enable_ffm = enable]
<1>1. /\ owner = c /\ pr \in PrState /\ refused \in BOOLEAN /\ sd \in SdState
      /\ loaded \in Channels /\ broken_off \in BOOLEAN /\ NoWorker
      /\ UNCHANGED <<last_line, refused, loaded, broken_off, worker>>
      /\ Done(c, s, pr, ps) /\ sd' = s
  BY <1>0, CommandFacts DEF EnableFFM, Running, Done, NoWorker, NoHistory,
     NoChange
<1>2. /\ s \in SdState /\ s.work_timer = sd.work_timer /\ s.file = sd.file
      /\ s.must_pause_work = sd.must_pause_work
      /\ s.file_position = sd.file_position
      /\ s.next_file_position = sd.next_file_position
      /\ s.load_channel = sd.load_channel
      /\ s.print_channel = sd.print_channel
      /\ s.change_filament = sd.change_filament
  BY <1>1 DEF SdState
<1> HIDE DEF s
<1>3. FilamentInv'
  BY <1>1, <1>2, FilamentKeeps
<1> QED BY <1>1, <1>2, <1>3, CommandKeeps

LEMMA RunKeeps ==
  ASSUME IInv, NEW c \in Clients, Run(c)
  PROVE  IInv'
BY Names, PauseKeeps, ResumeKeeps, ClearKeeps, CancelKeeps, M24Keeps,
   PauseFirstKeeps, ResetFileKeeps, PrintFileKeeps, M23Keeps, M26Keeps,
   RefuellingKeeps, ChannelKeeps, EnableKeeps, PauseReturnsKeeps, RefusedKeeps,
   CommandFacts DEF Run, M25

(* A greenlet asks for the mutex.                                          *)
LEMMA AskKeeps ==
  ASSUME IInv, NEW a \in Actors, NEW k \in AllCommands,
         pc[a] \in {"idle", "delay"},
         pc' = [pc EXCEPT ![a] = "locking"], cmd' = [cmd EXCEPT ![a] = k],
         Acquire(a), given' \in 0..MaxCommands,
         UNCHANGED <<sd, pr, ps, worker, ready, history>>
  PROVE  IInv'
<1>1. MutexGood' /\ PauseInv'
  BY AsksMutex
<1>2. WorkInv' /\ StatsInv' /\ FilamentInv'
  BY DEF IInv, JobGood, WorkInv, StatsInv, FilamentInv, FilamentKnown, history
<1>3. JobGood'
  BY <1>2 DEF IInv, JobGood, history
<1> QED BY <1>1, <1>3 DEF IInv

LEMMA GiveKeeps ==
  ASSUME IInv, NEW c \in Clients, NEW k \in Commands, Give(c, k)
  PROVE  IInv'
<1>1. given \in 0..MaxCommands /\ MaxCommands \in Nat
  BY Names DEF IInv, MutexGood
<1>2. given' \in 0..MaxCommands
  BY <1>1 DEF Give
<1> QED BY <1>2, Names, AskKeeps DEF Give

LEMMA RunoutScriptKeeps ==
  ASSUME IInv, NEW s \in Sensors, RunoutScript(s)
  PROVE  IInv'
<1>1. "PAUSE" \in AllCommands /\ given' \in 0..MaxCommands
  BY DEF AllCommands, RunoutScript, IInv, MutexGood
<1> QED BY <1>1, Names, AskKeeps DEF RunoutScript

(* A sensor moves on outside the mutex, and may ask the worker to stop.    *)
LEMMA SensorKeeps ==
  ASSUME IInv, NEW a \in Actors, NEW p \in {"pausing", "delay"},
         pc' = [pc EXCEPT ![a] = p], pc[a] \in {"idle", "pausing"},
         cmd[a] = "none", given' \in 0..MaxCommands,
         sd' = sd \/ sd' = Asked(sd), pr' \in PrState,
         UNCHANGED <<ps, worker, owner, queue, cmd, ready, history>>
  PROVE  IInv'
<1>j. /\ sd \in SdState /\ ps \in PsState /\ WorkInv /\ StatsInv
      /\ FilamentInv
  BY CommandFacts
<1>1. MutexGood'
  BY MovesMutex
<1>2. /\ sd' \in SdState /\ sd'.work_timer = sd.work_timer
      /\ sd.must_pause_work => sd'.must_pause_work
      /\ sd'.file = sd.file /\ sd'.file_position = sd.file_position
      /\ sd'.next_file_position = sd.next_file_position
      /\ sd'.load_channel = sd.load_channel
      /\ sd'.print_channel = sd.print_channel
      /\ sd'.change_filament = sd.change_filament
  BY <1>j, AskedIs
<1>3. WorkInv' /\ StatsInv' /\ FilamentInv'
  BY <1>2, <1>j DEF WorkInv, StatsInv, FilamentInv, FilamentKnown, history
<1>4. JobGood'
  BY <1>2, <1>3 DEF IInv, JobGood, history
<1>5. PauseInv'
  <2>1. \A b \in Actors : owner = b => b # a
    BY DEF IInv, MutexGood, MutexInv, ActorInv
  <2>2. \A b \in Actors : b # a => pc'[b] = pc[b]
    BY DEF IInv, MutexGood
  <2> QED BY <1>2, <2>1, <2>2 DEF IInv, PauseInv
<1> QED BY <1>1, <1>4, <1>5 DEF IInv

LEMMA RunoutKeeps ==
  ASSUME IInv, NEW s \in Sensors, Runout(s)
  PROVE  IInv'
<1>1. /\ given \in 0..MaxCommands /\ MaxCommands \in Nat /\ s \in Actors
      /\ pr \in PrState /\ ActorInv(s)
  BY Names DEF IInv, MutexGood, MutexInv, JobGood
<1>2. /\ given' \in 0..MaxCommands /\ pc[s] = "idle" /\ cmd[s] = "none"
      /\ UNCHANGED <<ps, worker, owner, queue, cmd, ready, history>>
  BY <1>1 DEF Runout, ActorInv
<1> DEFINE yes == TRUE
           no == FALSE
<1>3. /\ sd' = sd \/ sd' = Asked(sd)
      /\ \E p \in {"pausing", "delay"} : pc' = [pc EXCEPT ![s] = p]
      /\ \/ pr' = pr
         \/ pr' = [pr EXCEPT !.sd_paused = yes]
         \/ pr' = [pr EXCEPT !.sd_paused = yes, !.pause_command_sent = yes]
         \/ pr' = [pr EXCEPT !.sd_paused = no, !.pause_command_sent = yes]
  BY DEF Runout
<1>4. yes \in BOOLEAN /\ no \in BOOLEAN
  OBVIOUS
<1> HIDE DEF yes, no
<1>5. pr' \in PrState
  BY <1>1, <1>3, <1>4, PrIs
<1> QED BY <1>1, <1>2, <1>3, <1>5, SensorKeeps

LEMMA RunoutPausedKeeps ==
  ASSUME IInv, NEW s \in Sensors, RunoutPaused(s)
  PROVE  IInv'
<1> DEFINE yes == TRUE
<1>1. /\ given' \in 0..MaxCommands /\ s \in Actors /\ pr \in PrState
      /\ pr' = [pr EXCEPT !.pause_command_sent = yes] /\ yes \in BOOLEAN
  BY Names DEF IInv, MutexGood, JobGood, RunoutPaused
<1> HIDE DEF yes
<1>2. pr' \in PrState
  BY <1>1, PrIs
<1> QED BY <1>1, <1>2, SensorKeeps DEF RunoutPaused

LEMMA ShutdownKeeps ==
  ASSUME IInv, Shutdown
  PROVE  IInv'
<1>j. /\ sd \in SdState /\ ps \in PsState /\ WorkInv /\ StatsInv
      /\ FilamentInv
  BY CommandFacts
<1>1. /\ sd' = Asked(sd) /\ ready' = FALSE
      /\ UNCHANGED <<pr, ps, worker, owner, queue, pc, cmd, given, history>>
  BY DEF Shutdown
<1>2. /\ sd' \in SdState /\ sd'.work_timer = sd.work_timer
      /\ sd.must_pause_work => sd'.must_pause_work
      /\ sd'.file = sd.file /\ sd'.file_position = sd.file_position
      /\ sd'.next_file_position = sd.next_file_position
      /\ sd'.load_channel = sd.load_channel
      /\ sd'.print_channel = sd.print_channel
      /\ sd'.change_filament = sd.change_filament
  BY <1>1, <1>j, AskedIs
<1>3. WorkInv' /\ StatsInv' /\ FilamentInv'
  BY <1>1, <1>2, <1>j DEF WorkInv, StatsInv, FilamentInv, FilamentKnown, history
<1>4. JobGood'
  BY <1>1, <1>2, <1>3 DEF IInv, JobGood, history
<1>5. MutexGood'
  BY <1>1 DEF IInv, MutexGood, MutexInv, ActorInv
<1>6. PauseInv'
  BY <1>1, <1>2 DEF IInv, PauseInv
<1> QED BY <1>4, <1>5, <1>6 DEF IInv

-----------------------------------------------------------------------------
(* The specification.                                                      *)

LEMMA JobInit == Init => IInv
<1> SUFFICES ASSUME Init PROVE IInv
  OBVIOUS
<1>1. /\ sd = InitSD /\ pr = InitPR /\ ps = ResetPS
      /\ worker = "none" /\ owner = "none" /\ queue = << >>
      /\ pc = [a \in Actors |-> "idle"] /\ cmd = [a \in Actors |-> "none"]
      /\ given = 0 /\ ready = TRUE
      /\ loaded = Channel0 /\ broken_off = FALSE /\ last_line = 0
      /\ in_spite = FALSE /\ refused = FALSE
  BY DEF Init
<1>2. /\ sd \in SdState /\ ~sd.work_timer /\ ~sd.file
      /\ sd.load_channel = Channel0 /\ ~sd.change_filament
  <2> DEFINE no == FALSE
             z == 0
  <2>1. sd = [work_timer |-> no, must_pause_work |-> no,
              cmd_from_sd |-> no, file |-> no,
              file_position |-> z, next_file_position |-> z,
              load_channel |-> Channel0, print_channel |-> Channel0,
              change_filament |-> no, enable_ffm |-> no]
    BY <1>1 DEF InitSD
  <2>2. no \in BOOLEAN /\ ~no /\ z \in 0..Len(File) /\ Channel0 \in Channels
    BY Names
  <2> HIDE DEF no, z
  <2> QED BY <2>1, <2>2 DEF SdState
<1>3. pr \in PrState /\ ps \in PsState /\ ps.state = "standby"
  <2>1. pr \in PrState
    <3> DEFINE no == FALSE
    <3>1. pr = [is_paused |-> no, sd_paused |-> no, pause_command_sent |-> no]
          /\ no \in BOOLEAN
      BY <1>1 DEF InitPR
    <3> HIDE DEF no
    <3> QED BY <3>1 DEF PrState
  <2> QED BY <1>1, <2>1, ResetIs
<1>4. Waiting(queue) = {} /\ queue \in Seq(Greenlets)
  BY <1>1 DEF Waiting
<1>5. MutexGood
  <2>1. Exclusive(owner, queue)
    BY <1>1, <1>4 DEF Exclusive
  <2>2. ASSUME NEW a \in Actors PROVE ActorInv(a)
    BY <1>1, <1>4, Names DEF ActorInv
  <2>3. MutexInv
    BY <1>1, <1>4, <2>1, <2>2 DEF MutexInv
  <2> QED BY <1>1, <1>4, <2>3, Names DEF MutexGood
<1>6. WorkInv /\ StatsInv /\ FilamentInv
  BY <1>1, <1>2, <1>3 DEF WorkInv, StatsInv, FilamentInv, FilamentKnown
<1>7. JobGood
  <2>1. /\ loaded \in Channels /\ last_line \in 0..Len(File)
    BY <1>1, Names
  <2>2. broken_off \in BOOLEAN /\ in_spite \in BOOLEAN /\ refused \in BOOLEAN
    BY <1>1
  <2>3. worker = "none"
    BY <1>1
  <2> QED BY <1>2, <1>3, <1>6, <2>1, <2>2, <2>3 DEF JobGood
<1> QED BY <1>1, <1>5, <1>7, Names DEF IInv, PauseInv

LEMMA JobStep == IInv /\ [Next]_vars => IInv'
<1> SUFFICES ASSUME IInv, [Next]_vars PROVE IInv'
  OBVIOUS
<1>1. CASE Worker
  BY <1>1, WorkerKeeps
<1>2. ASSUME NEW c \in Clients, Run(c) \/ \E k \in Commands : Give(c, k)
      PROVE  IInv'
  BY <1>2, RunKeeps, GiveKeeps
<1>3. ASSUME NEW s \in Sensors, Runout(s) \/ RunSensor(s)
      PROVE  IInv'
  BY <1>3, Names, RunoutKeeps, RunoutPausedKeeps, RunoutScriptKeeps,
     PauseKeeps, PauseReturnsKeeps, RefusedKeeps DEF RunSensor
<1>4. CASE Shutdown
  BY <1>4, ShutdownKeeps
<1>5. CASE UNCHANGED vars
  <2>1. MutexGood' /\ PauseInv'
    BY <1>5 DEF vars, IInv, MutexGood, MutexInv, ActorInv, PauseInv
  <2>2. JobGood'
    BY <1>5 DEF vars, history, IInv, JobGood, WorkInv, StatsInv, FilamentInv,
       FilamentKnown
  <2> QED BY <2>1, <2>2 DEF IInv
<1> QED BY <1>1, <1>2, <1>3, <1>4, <1>5 DEF Next

-----------------------------------------------------------------------------
(* The end of a print.                                                     *)

Ended(t) == t.state \in {"cancelled", "error", "complete"}

\* What a step may make of the report of a print that has ended.
EndHeld(t, u) == Ended(t) => u.state \in {t.state, "printing", "standby"}

LEMMA DoneHolds ==
  ASSUME IInv, NEW t \in {ps, ResetPS, NoteFinish(ps, "cancelled")}, ps' = t
  PROVE  EndHeld(ps, ps')
<1>1. ps \in PsState /\ StatsInv
  BY CommandFacts
<1>2. CASE t = NoteFinish(ps, "cancelled")
  BY <1>1, <1>2, Finishes DEF EndHeld, Ended
<1>3. CASE t \in {ps, ResetPS}
  BY <1>3, ResetIs DEF EndHeld
<1> QED BY <1>2, <1>3

LEMMA ExitHolds ==
  ASSUME IInv, NEW s \in SdState, s.file => sd.file, NEW error \in BOOLEAN,
         Exit(s, error)
  PROVE  EndHeld(ps, ps')
<1>1. ps \in PsState /\ StatsInv /\ s.file \in BOOLEAN
  BY CommandFacts DEF SdState
<1>2. ps' = EndStats(ps, s.file, error)
  BY DEF Exit
<1>3. Ended(ps) => ps'.state = ps.state
  BY <1>1, <1>2, Reports DEF StatsInv, Ended
<1> QED BY <1>3 DEF EndHeld

LEMMA WorkerEnds ==
  ASSUME IInv, Worker
  PROVE  EndHeld(ps, ps')
<1>1. ps \in PsState /\ sd \in SdState
  BY CommandFacts
<1>2. CASE WorkStart
  <2> DEFINE yes == TRUE
             q == IF ps.started THEN FALSE ELSE ps.paused
  <2>1. \/ ps' = ps
        \/ ps' = [state |-> "printing", started |-> yes, paused |-> q]
    BY <1>2 DEF WorkStart, NoteStart
  <2> HIDE DEF yes, q
  <2> QED BY <2>1 DEF EndHeld
<1>3. CASE WorkPause \/ WorkErrorDone
  BY <1>1, <1>3, ExitHolds DEF WorkPause, WorkErrorDone
<1>4. CASE WorkEOF
  <2> DEFINE no == FALSE
             s == [sd EXCEPT !.file = no]
  <2>1. Exit(s, FALSE)
    BY <1>4 DEF WorkEOF
  <2>2. s \in SdState /\ ~s.file
    BY <1>1 DEF SdState
  <2> HIDE DEF s
  <2> QED BY <2>1, <2>2, ExitHolds
<1>5. CASE WorkScriptCrashes
  <2>1. Asked(sd) \in SdState /\ Asked(sd).file = sd.file
    BY <1>1, AskedIs
  <2> QED BY <1>5, <2>1, ExitHolds DEF WorkScriptCrashes
<1>6. CASE WorkScriptDone
  <2>1. ps' = ps \/ ps' = NoteFinish(ps, "cancelled")
    BY <1>6 DEF WorkScriptDone
  <2> QED BY <2>1, DoneHolds
<1>7. CASE WorkDispatch \/ WorkSelect \/ WorkRequestChange \/ WorkChanged
           \/ WorkScriptFails
  BY <1>7 DEF WorkDispatch, WorkSelect, WorkRequestChange, WorkChanged,
     WorkScriptFails, EndHeld
<1> QED BY <1>2, <1>3, <1>4, <1>5, <1>6, <1>7 DEF Worker

LEMMA CommandEnds ==
  ASSUME IInv, NEW c \in Actors,
         \/ Pause(c) \/ Resume(c) \/ ClearPauseCmd(c) \/ CancelPrint(c)
         \/ M24(c) \/ M25(c) \/ ResetFile(c) \/ PrintFile(c) \/ M23(c)
         \/ M26(c) \/ ClearRefuelling(c) \/ SetChannel(c) \/ EnableFFM(c)
         \/ PauseReturns(c) \/ Refused(c)
  PROVE  EndHeld(ps, ps')
<1>1. ASSUME NEW p, PauseFirst(c, p)
      PROVE  ps' \in {ps, ResetPS, NoteFinish(ps, "cancelled")}
  BY <1>1 DEF PauseFirst, AfterPause, Done
<1>2. CASE Pause(c) \/ CancelPrint(c) \/ M25(c) \/ ResetFile(c)
  <2>1. ps' \in {ps, ResetPS, NoteFinish(ps, "cancelled")}
    BY <1>1, <1>2 DEF Pause, CancelPrint, M25, ResetFile, Done
  <2> QED BY <2>1, DoneHolds
<1>3. CASE PauseReturns(c)
  <2>1. ps' \in {ps, ResetPS, NoteFinish(ps, "cancelled")}
    BY <1>3 DEF PauseReturns, AfterPause, Done
  <2> QED BY <2>1, DoneHolds
<1>4. CASE Resume(c) \/ ClearPauseCmd(c) \/ M24(c) \/ M26(c)
           \/ ClearRefuelling(c) \/ SetChannel(c) \/ EnableFFM(c)
           \/ Refused(c)
  <2>1. ps' = ps
    BY <1>4 DEF Resume, ClearPauseCmd, M24, M26, ClearRefuelling, SetChannel,
       EnableFFM, Refused, Done
  <2> QED BY <2>1, DoneHolds
<1>5. CASE PrintFile(c) \/ M23(c)
  <2>1. ps' \in {ps, ResetPS}
    BY <1>5 DEF PrintFile, M23, Done
  <2> QED BY <2>1, DoneHolds
<1> QED BY <1>2, <1>3, <1>4, <1>5

LEMMA EndsStep == IInv /\ [Next]_vars => EndHeld(ps, ps')
<1> SUFFICES ASSUME IInv, [Next]_vars PROVE EndHeld(ps, ps')
  OBVIOUS
<1>1. CASE Worker
  BY <1>1, WorkerEnds
<1>2. ASSUME NEW c \in Clients, Run(c) \/ \E k \in Commands : Give(c, k)
      PROVE  EndHeld(ps, ps')
  <2>1. CASE Run(c)
    BY <2>1, Names, CommandEnds DEF Run
  <2>2. CASE \E k \in Commands : Give(c, k)
    BY <2>2 DEF Give, EndHeld
  <2> QED BY <1>2, <2>1, <2>2
<1>3. ASSUME NEW s \in Sensors, Runout(s) \/ RunSensor(s)
      PROVE  EndHeld(ps, ps')
  <2>1. CASE Pause(s) \/ PauseReturns(s) \/ Refused(s)
    BY <2>1, Names, CommandEnds
  <2>2. CASE Runout(s) \/ RunoutPaused(s) \/ RunoutScript(s)
    BY <2>2 DEF Runout, RunoutPaused, RunoutScript, EndHeld
  <2> QED BY <1>3, <2>1, <2>2 DEF RunSensor
<1>4. CASE Shutdown \/ UNCHANGED vars
  BY <1>4 DEF Shutdown, vars, EndHeld
<1> QED BY <1>1, <1>2, <1>3, <1>4 DEF Next

-----------------------------------------------------------------------------
(* Where a print is taken up.                                              *)

\* Only the worker takes a line of the file.
LEMMA DispatchedBy ==
  ASSUME IInv, [Next]_vars, Dispatching
  PROVE  Dispatch
<1>1. worker = "loop" /\ worker' \in {"script", "m400"}
  BY DEF Dispatching
<1>2. CASE Worker
  BY <1>1, <1>2 DEF Worker, WorkStart, WorkPause, WorkEOF, WorkDispatch,
     WorkSelect, WorkRequestChange, WorkChanged, WorkScriptDone,
     WorkScriptFails, WorkErrorDone, WorkScriptCrashes, Exit
<1>3. ASSUME NEW c \in Clients, Run(c) \/ \E k \in Commands : Give(c, k)
      PROVE  FALSE
  <2>1. CASE \E k \in Commands : Give(c, k)
    BY <1>1, <2>1 DEF Give
  <2>2. CASE Pause(c) \/ CancelPrint(c) \/ M25(c) \/ ResetFile(c)
             \/ PauseReturns(c)
    BY <1>1, <2>2 DEF Pause, CancelPrint, M25, ResetFile, PauseReturns,
       PauseFirst, NoWorker
  <2>3. CASE Resume(c) \/ M24(c) \/ PrintFile(c)
    BY <1>1, <2>3 DEF Resume, M24, PrintFile, Started, NoWorker
  <2>4. CASE ClearPauseCmd(c) \/ M23(c) \/ M26(c) \/ ClearRefuelling(c)
             \/ SetChannel(c) \/ EnableFFM(c) \/ Refused(c)
    BY <1>1, <2>4 DEF ClearPauseCmd, M23, M26, ClearRefuelling, SetChannel,
       EnableFFM, Refused, NoWorker
  <2> QED BY <1>3, <2>1, <2>2, <2>3, <2>4 DEF Run
<1>4. ASSUME NEW s \in Sensors, Runout(s) \/ RunSensor(s)
      PROVE  FALSE
  BY <1>1, <1>4 DEF Runout, RunSensor, RunoutPaused, RunoutScript, Pause,
     PauseReturns, Refused, PauseFirst, NoWorker
<1>5. CASE Shutdown \/ UNCHANGED vars
  BY <1>1, <1>5 DEF Shutdown, vars
<1> QED BY <1>2, <1>3, <1>4, <1>5 DEF Next

(* When nobody pauses a print from outside the mutex, PAUSE has been run    *)
(* when it counts as sent, and a worker that is there in spite of a pause  *)
(* was started in spite of it or has been asked to stop.                   *)
HoldInv ==
  /\ pr.pause_command_sent => pr.is_paused
  /\ pr.is_paused /\ pr.sd_paused /\ worker # "none" =>
       sd.must_pause_work \/ in_spite

LEMMA PausesAre ==
  ASSUME NEW p \in PrState
  PROVE  /\ ~ClearPause(p).is_paused /\ ~ClearPause(p).pause_command_sent
         /\ FromFile(p).is_paused = p.is_paused
         /\ FromFile(p).pause_command_sent = p.pause_command_sent
         /\ ~InitPR.is_paused /\ ~InitPR.pause_command_sent
BY DEF ClearPause, FromFile, InitPR, PrState

LEMMA HoldSame ==
  ASSUME HoldInv, UNCHANGED <<pr, in_spite>>,
         worker' # "none" =>
           worker # "none" /\ (sd.must_pause_work => sd'.must_pause_work)
  PROVE  HoldInv'
BY DEF HoldInv

LEMMA HoldClear ==
  ASSUME ~pr'.is_paused, ~pr'.pause_command_sent
  PROVE  HoldInv'
BY DEF HoldInv

LEMMA WorkerHolds ==
  ASSUME IInv, HoldInv, Worker
  PROVE  HoldInv'
<1>1. sd \in SdState /\ pr \in PrState
  BY CommandFacts
<1>2. CASE WorkStart
  BY <1>2, HoldSame DEF WorkStart, history
<1>3. CASE WorkPause \/ WorkEOF \/ WorkErrorDone \/ WorkScriptCrashes
  BY <1>3, HoldSame DEF WorkPause, WorkEOF, WorkErrorDone, WorkScriptCrashes,
     Exit, history
<1>4. CASE WorkDispatch
  <2> DEFINE yes == TRUE
             n == sd.file_position + 1
  <2>1. /\ sd' = [sd EXCEPT !.cmd_from_sd = yes, !.next_file_position = n]
        /\ UNCHANGED <<pr, in_spite>> /\ worker # "none"
    BY <1>4 DEF WorkDispatch, Dispatch, history
  <2> HIDE DEF yes, n
  <2>2. sd'.must_pause_work = sd.must_pause_work
    BY <1>1, <2>1 DEF SdState
  <2> QED BY <2>1, <2>2, HoldSame
<1>5. CASE WorkSelect
  <2>1. ~sd.must_pause_work /\ worker # "none" /\ UNCHANGED <<pr, in_spite>>
    BY <1>5 DEF WorkSelect, Dispatch
  <2> QED BY <2>1, HoldSame
<1>6. CASE WorkRequestChange
  BY <1>1, <1>6, HoldSame DEF WorkRequestChange, Requested, SdState, history
<1>7. CASE WorkChanged
  <2>1. sd'.must_pause_work = sd.must_pause_work
    BY <1>1, <1>7, SelectedIs DEF WorkChanged
  <2> QED BY <1>7, <2>1, HoldSame DEF WorkChanged
<1>8. CASE WorkScriptFails
  BY <1>8, HoldSame DEF WorkScriptFails, history
<1>9. CASE WorkScriptDone
  <2>n. /\ sd.next_file_position \in 0..Len(File) /\ 0 \in 0..Len(File)
        /\ worker # "none" /\ UNCHANGED in_spite
    BY <1>1, <1>9, Names DEF SdState, WorkScriptDone
  <2>1. CASE \E n \in {sd.next_file_position, 0} :
               sd' = LineDone(sd, n) /\ UNCHANGED pr
    BY <1>1, <2>1, <2>n, DoneIs, HoldSame
  <2>2. CASE /\ sd' = LineDone(IF pr.is_paused \/ pr.pause_command_sent THEN sd
                               ELSE [sd EXCEPT !.must_pause_work = TRUE],
                               sd.next_file_position)
             /\ pr' = PausedFromFile
    <3>1. CASE pr.is_paused
      BY <1>1, <2>2, <2>n, <3>1, DoneIs, HoldSame DEF PausedFromFile
    <3>2. CASE ~pr.is_paused
      <4> DEFINE yes == TRUE
                 m == [sd EXCEPT !.must_pause_work = yes]
      <4>1. sd' = LineDone(m, sd.next_file_position)
        BY <2>2, <3>2 DEF HoldInv
      <4>2. yes \in BOOLEAN /\ yes
        OBVIOUS
      <4> HIDE DEF yes
      <4>3. m \in SdState /\ m.must_pause_work
        BY <1>1, <4>2 DEF SdState
      <4> HIDE DEF m
      <4>4. sd'.must_pause_work
        BY <2>n, <4>1, <4>3, DoneIs
      <4>5. pr'.is_paused
        BY <2>2, <3>2 DEF PausedFromFile
      <4> QED BY <4>4, <4>5 DEF HoldInv
    <3> QED BY <3>1, <3>2
  <2>3. CASE pr' = [pr EXCEPT !.is_paused = FALSE, !.pause_command_sent = FALSE]
    BY <1>1, <2>3, PausesAre, HoldClear DEF ClearPause
  <2>4. \/ \E n \in {sd.next_file_position, 0} :
             sd' = LineDone(sd, n) /\ UNCHANGED pr
        \/ /\ sd' = LineDone(IF pr.is_paused \/ pr.pause_command_sent THEN sd
                             ELSE [sd EXCEPT !.must_pause_work = TRUE],
                             sd.next_file_position)
           /\ pr' = PausedFromFile
        \/ pr' = [pr EXCEPT !.is_paused = FALSE, !.pause_command_sent = FALSE]
    BY <1>9 DEF WorkScriptDone, LineDone
  <2> QED BY <2>1, <2>2, <2>3, <2>4
<1> QED BY <1>2, <1>3, <1>4, <1>5, <1>6, <1>7, <1>8, <1>9 DEF Worker

\* After do_pause whoever is there has been asked to stop.
LEMMA AfterPauseHolds ==
  ASSUME IInv, HoldInv, NEW c, NEW s \in SdState, NEW p \in PrState,
         AfterPause(c, s, p), NoWorker,
         p.is_paused = pr.is_paused,
         p.pause_command_sent = pr.pause_command_sent,
         s.work_timer = sd.work_timer, s.work_timer => s.must_pause_work
  PROVE  HoldInv'
<1>1. worker # "none" => s.must_pause_work
  BY CommandFacts DEF WorkInv
<1>2. UNCHANGED worker
  BY DEF NoWorker
<1>3. CASE /\ cmd[c] = "PAUSE"
           /\ Done(c, s, [p EXCEPT !.is_paused = TRUE,
                                   !.pause_command_sent = TRUE], ps)
  <2> DEFINE yes == TRUE
  <2>1. pr' = [p EXCEPT !.is_paused = yes, !.pause_command_sent = yes]
        /\ sd' = s /\ yes
    BY <1>3 DEF Done
  <2> HIDE DEF yes
  <2>2. pr'.is_paused = yes
    BY <2>1 DEF PrState
  <2> QED BY <1>1, <1>2, <2>1, <2>2 DEF HoldInv
<1>4. CASE pr' = p /\ (sd' = s \/ sd' = Loaded(s, FALSE))
  <2>1. sd'.must_pause_work = s.must_pause_work
    BY <1>4, LoadedIs
  <2> QED BY <1>1, <1>2, <1>4, <2>1 DEF HoldInv
<1>5. CASE pr' = ClearPause(p)
  BY <1>5, PausesAre, HoldClear
<1> QED BY <1>3, <1>4, <1>5 DEF AfterPause, Done, Loaded

LEMMA PauseFirstHolds ==
  ASSUME IInv, HoldInv, NEW c, NEW p \in PrState, PauseFirst(c, p),
         p = pr \/ (p = FromFile(pr) /\ ~pr.is_paused)
  PROVE  HoldInv'
<1> DEFINE s == Asked(sd)
<1>1. /\ s \in SdState /\ s.work_timer = sd.work_timer
      /\ s.work_timer => s.must_pause_work
      /\ sd.must_pause_work => s.must_pause_work
  BY CommandFacts, AskedIs
<1>2. /\ p.is_paused = pr.is_paused
      /\ p.pause_command_sent = pr.pause_command_sent
  BY CommandFacts, PausesAre
<1>3. CASE Waits(s)
  <2>1. sd' = s /\ pr' = p /\ NoWorker
    BY <1>3 DEF PauseFirst
  <2>2. CASE p = pr
    BY <1>1, <2>1, <2>2, HoldSame DEF NoWorker
  <2>3. CASE ~pr.is_paused
    BY <1>2, <2>1, <2>3 DEF HoldInv
  <2> QED BY <2>2, <2>3
<1>4. CASE ~Waits(s)
  <2>1. AfterPause(c, s, p) /\ NoWorker
    BY <1>4 DEF PauseFirst
  <2> HIDE DEF s
  <2> QED BY <1>1, <1>2, <2>1, AfterPauseHolds
<1> QED BY <1>3, <1>4

LEMMA CommandHolds ==
  ASSUME IInv, HoldInv, NEW c \in Clients, Run(c)
  PROVE  HoldInv'
<1>j. /\ sd \in SdState /\ pr \in PrState /\ WorkInv
      /\ ClearPause(pr) \in PrState /\ FromFile(pr) \in PrState
  BY CommandFacts, ClearIs
<1>1. CASE Pause(c)
  <2>1. CASE PauseFirst(c, FromFile(pr)) /\ ~pr.is_paused
    BY <1>j, <2>1, PauseFirstHolds
  <2>2. CASE /\ pr.is_paused \/ pr.pause_command_sent
             /\ Done(c, sd, [pr EXCEPT !.is_paused = TRUE], ps) /\ NoWorker
    <3> DEFINE yes == TRUE
    <3>1. pr' = [pr EXCEPT !.is_paused = yes] /\ sd' = sd /\ yes
          /\ UNCHANGED <<worker, in_spite>> /\ pr.is_paused
      BY <2>2 DEF Done, NoWorker, HoldInv
    <3> HIDE DEF yes
    <3>2. pr'.is_paused = yes /\ pr'.sd_paused = pr.sd_paused
      BY <1>j, <3>1 DEF PrState
    <3> QED BY <3>1, <3>2 DEF HoldInv
  <2>3. CASE /\ ~sd.work_timer /\ NoWorker
             /\ Done(c, sd, [is_paused |-> TRUE, sd_paused |-> FALSE,
                             pause_command_sent |-> TRUE], ps)
    <3>1. worker' = "none"
      BY <1>j, <2>3 DEF NoWorker, WorkInv
    <3> DEFINE yes == TRUE
               no == FALSE
    <3>2. yes /\ pr' = [is_paused |-> yes, sd_paused |-> no,
                        pause_command_sent |-> yes]
      BY <2>3 DEF Done
    <3> HIDE DEF yes, no
    <3>3. pr'.is_paused = yes
      BY <3>2
    <3> QED BY <3>1, <3>2, <3>3 DEF HoldInv
  <2> QED BY <1>1, <2>1, <2>2, <2>3 DEF Pause
<1>2. CASE Resume(c)
  <2>1. CASE Done(c, sd, pr, ps) /\ NoWorker
    BY <2>1, HoldSame DEF Done, NoWorker
  <2>2. CASE pr' = ClearPause(pr) \/ pr' = InitPR
    BY <1>j, <2>2, PausesAre, HoldClear
  <2> QED BY <1>2, <2>1, <2>2 DEF Resume, Done
<1>3. CASE ClearPauseCmd(c)
  BY <1>3, <1>j, PausesAre, HoldClear DEF ClearPauseCmd, Done
<1>4. CASE CancelPrint(c)
  <2>1. CASE PauseFirst(c, pr)
    BY <1>j, <2>1, PauseFirstHolds
  <2>2. CASE pr' = ClearPause(pr)
    BY <1>j, <2>2, PausesAre, HoldClear
  <2> QED BY <1>4, <2>1, <2>2 DEF CancelPrint, Done
<1>5. CASE M25(c)
  BY <1>j, <1>5, PauseFirstHolds DEF M25
<1>6. CASE ResetFile(c)
  <2>1. CASE PauseFirst(c, pr)
    BY <1>j, <2>1, PauseFirstHolds
  <2>2. CASE NoWorker /\ pr' = pr
             /\ sd' \in {sd, [sd EXCEPT !.file_position = 0]}
    <3>1. sd'.must_pause_work = sd.must_pause_work
      BY <1>j, <2>2, Names, MovedIs
    <3> QED BY <2>2, <3>1, HoldSame DEF NoWorker
  <2> QED BY <1>6, <2>1, <2>2 DEF ResetFile, Done
<1>7. CASE PauseReturns(c)
  <2>1. sd.work_timer => sd.must_pause_work
    BY <1>7, Names DEF PauseReturns, IInv, MutexGood, MutexInv, ActorInv,
       PauseInv
  <2>2. AfterPause(c, sd, pr) /\ NoWorker
    BY <1>7 DEF PauseReturns
  <2> QED BY <1>j, <2>1, <2>2, AfterPauseHolds
<1>8. CASE M24(c) \/ PrintFile(c)
  <2>1. pr' = pr
    BY <1>8 DEF M24, PrintFile, Done
  <2>2. CASE Started
    BY <2>1, <2>2 DEF Started, HoldInv
  <2>3. CASE NoWorker /\ (sd' = sd \/ ~sd.work_timer)
    BY <1>j, <2>1, <2>3, HoldSame DEF NoWorker, WorkInv
  <2> QED BY <1>8, <2>2, <2>3 DEF M24, PrintFile, Done
<1>9. CASE M23(c) \/ M26(c)
  <2>1. pr' = pr /\ NoWorker /\ (sd' = sd \/ ~sd.work_timer)
    BY <1>9 DEF M23, M26, Done
  <2> QED BY <1>j, <2>1, HoldSame DEF NoWorker, WorkInv
<1>10. CASE ClearRefuelling(c) \/ SetChannel(c) \/ EnableFFM(c) \/ Refused(c)
  <2>1. UNCHANGED <<pr, worker, in_spite>>
    BY <1>10 DEF ClearRefuelling, SetChannel, EnableFFM, Refused, Done, NoWorker
  <2>2. sd'.must_pause_work = sd.must_pause_work
    <3> DEFINE no == FALSE
               l == loaded
    <3>1. \/ sd' = sd
          \/ sd' = [sd EXCEPT !.change_filament = no]
          \/ sd' = [sd EXCEPT !.load_channel = l, !.print_channel = l]
          \/ \E e \in BOOLEAN : sd' = [sd EXCEPT !.enable_ffm = e]
      BY <1>10 DEF ClearRefuelling, SetChannel, EnableFFM, Refused, Done
    <3> HIDE DEF no, l
    <3> QED BY <1>j, <3>1 DEF SdState
  <2> QED BY <2>1, <2>2, HoldSame
<1> QED BY <1>1, <1>2, <1>3, <1>4, <1>5, <1>6, <1>7, <1>8, <1>9, <1>10 DEF Run

LEMMA HoldStep ==
  ASSUME Sensors = {}, IInv, HoldInv, [Next]_vars
  PROVE  HoldInv'
<1>1. CASE Worker
  BY <1>1, WorkerHolds
<1>2. ASSUME NEW c \in Clients, Run(c) \/ \E k \in Commands : Give(c, k)
      PROVE  HoldInv'
  BY <1>2, CommandHolds, HoldSame DEF Give, history
<1>3. CASE Shutdown
  <2>1. sd.must_pause_work => sd'.must_pause_work
    BY <1>3, CommandFacts, AskedIs DEF Shutdown
  <2> QED BY <1>3, <2>1, HoldSame DEF Shutdown, history
<1>4. CASE UNCHANGED vars
  BY <1>4, HoldSame DEF vars, history
<1> QED BY <1>1, <1>2, <1>3, <1>4 DEF Next

-----------------------------------------------------------------------------
(* The theorems.                                                           *)

LEMMA JobSound == Spec => []IInv
<1> QED BY JobInit, JobStep, PTL DEF Spec

\* The objects of a print keep their types (print_stats.py:27-93,
\* pause_resume.py:8-32, virtual_sdcard.py:17-36).
THEOREM PrintTypes == Spec => []TypeOK
<1>1. IInv => TypeOK
  BY Invariants
<1> QED BY <1>1, JobSound, PTL

\* The mutex is handed to the greenlet that waited longest, which neither
\* holds it nor waits for it twice, and the worker, whose timer tells everybody
\* that it is there, holds it only for what it dispatched (ReactorMutex,
\* reactor.py:75-92; work_handler, virtual_sdcard.py:259-358).
THEOREM PrintMutexSound == Spec => []MutexSound
<1>1. IInv => MutexSound
  BY Invariants
<1> QED BY <1>1, JobSound, PTL

\* The channel the worker takes for loaded is the one in the extruder, unless a
\* change is under way or was broken off (virtual_sdcard.py:299-324).
THEOREM FilamentIsKnown == Spec => []FilamentKnown
<1>1. IInv => FilamentKnown
  BY Invariants
<1> QED BY <1>1, JobSound, PTL

\* Whatever follows the end of a print, it is not another end of it
\* (_note_finish, print_stats.py:55-66).
THEOREM EndsOnce == Spec => EndReportedOnce
<1>1. IInv /\ [Next]_vars =>
        [ps.state \in {"cancelled", "error", "complete"}
           => ps'.state \in {ps.state, "printing", "standby"}]_vars
  BY EndsStep DEF EndHeld, Ended
<1> QED BY <1>1, JobSound, PTL DEF Spec, EndReportedOnce

\* The worker goes on at the first line that was not done, whoever stopped it,
\* also when sensors pause the print (work_handler, virtual_sdcard.py:259-358).
THEOREM TakenUp == Spec => TakesUp
<1>1. IInv /\ [Next]_vars => [Dispatching => sd.file_position = last_line]_vars
  BY DispatchedBy, LineKnown
<1> QED BY <1>1, JobSound, PTL DEF Spec, TakesUp

\* Without sensors, which set sd_paused and pause_command_sent outside the
\* mutex, a pause also holds until it is ended or overridden (cmd_PAUSE and
\* cmd_RESUME, pause_resume.py:60-86).
THEOREM UsersAreServed ==
  ASSUME Sensors = {}
  PROVE  Spec => UsersServed
<1>1. Init => HoldInv
  <2> SUFFICES ASSUME Init PROVE HoldInv
    OBVIOUS
  <2>1. pr = InitPR
    BY DEF Init
  <2> QED BY <2>1 DEF HoldInv, InitPR
<1>2. IInv /\ HoldInv /\ [Next]_vars => HoldInv'
  BY HoldStep
<1>3. IInv /\ HoldInv /\ [Next]_vars =>
        [Dispatching /\ pr.is_paused /\ pr.sd_paused => in_spite]_vars
  BY DispatchedBy DEF Dispatch, HoldInv
<1> QED BY <1>1, <1>2, <1>3, JobSound, TakenUp, PTL
        DEF Spec, UsersServed, PauseHolds
=============================================================================
