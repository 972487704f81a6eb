---------------------------- MODULE TriggerLoop ----------------------------
(***************************************************************************)
(* The loop by which handle_trsync_state finds, in one pass over the       *)
(* controllers, the time that each one's expiry follows: the earliest      *)
(* report of all, and for the controller it came from the second earliest. *)
(***************************************************************************)
EXTENDS TriggerTimes

CONSTANTS Last, Never   \* bound: the last moment;  PR_NEVER

ASSUME LoopAssumption == Last \in Nat /\ Never \in Nat /\ Never > Last

VARIABLES status, i, min_time, next_min_time, min_tdm

vars == <<status, i, min_time, next_min_time, min_tdm>>

LoopInit ==
  /\ status \in [Mcu -> 0..Last]
  /\ i = 1 /\ min_time = Never /\ next_min_time = Never /\ min_tdm = 0

\* Mutant: the old minimum is not handed down.
Step_Forgets ==
  /\ i <= N /\ i' = i + 1
  /\ IF status[i] < min_time
     THEN min_time' = status[i] /\ min_tdm' = i /\ UNCHANGED next_min_time
     ELSE /\ next_min_time' = IF status[i] < next_min_time
                              THEN status[i] ELSE next_min_time
          /\ UNCHANGED <<min_time, min_tdm>>
  /\ UNCHANGED status

\* One pass of list_for_each_entry.
Step ==
  /\ i <= N /\ i' = i + 1
  /\ \/ /\ status[i] >= next_min_time
        /\ UNCHANGED <<min_time, next_min_time, min_tdm>>
     \/ /\ status[i] < next_min_time /\ status[i] >= min_time
        /\ next_min_time' = status[i]
        /\ UNCHANGED <<min_time, min_tdm>>
     \/ /\ status[i] < next_min_time /\ status[i] < min_time
        /\ next_min_time' = min_time /\ min_time' = status[i] /\ min_tdm' = i
  /\ UNCHANGED status

LoopSpec == LoopInit /\ [][Step]_vars

\* status_time of controller m in the second loop.
StatusTime(m) ==
  IF m = min_tdm /\ next_min_time # Never THEN next_min_time ELSE min_time

\* The types of the variables.
LoopTypeOK ==
  /\ status \in [Mcu -> 0..Last] /\ i \in 1..(N + 1)
  /\ min_time \in Nat /\ next_min_time \in Nat /\ min_tdm \in 0..N

\* The loop is right: the time each controller gets follows the earliest
\* report of the others (trdispatch.c:95-116).
LoopCorrect ==
  i = N + 1 =>
    \A m \in Mcu : StatusTime(m) + Expire = Extended(status, m)

=============================================================================
