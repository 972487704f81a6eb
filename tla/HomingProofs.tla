--------------------------- MODULE HomingProofs ---------------------------
(***************************************************************************)
(* Proofs about Homing for every number of controllers, every expiry and   *)
(* every bound, with and without lost reports: type correctness, that no   *)
(* controller is ever given more time than Expire after another one has    *)
(* stopped, and that all have stopped when the homing move is over.        *)
(***************************************************************************)
EXTENDS Homing, SequenceTheorems

-----------------------------------------------------------------------------
(* Types.                                                                  *)

(* What is sent has its type.                                              *)
LEMMA CmdType ==
  /\ \A cmd \in {"start", "set_timeout", "home"}, arg \in Nat :
       Cmd(cmd, arg) \in Command
  /\ \A cmd \in {"trigger", "query"}, arg \in Reasons : Cmd(cmd, arg) \in Command
BY DEF Cmd, Command

LEMMA StateType ==
  ASSUME NEW can_trigger \in BOOLEAN, NEW reason \in Reasons, NEW clock \in Nat,
         NEW answer \in BOOLEAN
  PROVE  State(can_trigger, reason, clock, answer) \in Message
BY DEF State, Message

LEMMA ConstantTypes ==
  /\ None \in Message /\ AckMessage \in Message /\ 1 \in Mcu
  /\ EndstopHit \in Reasons /\ HostRequest \in Reasons
  /\ PastEndTime \in Reasons /\ CommsTimeout \in Reasons
<1>1. 0 \in Reasons /\ 0 \in Nat /\ FALSE \in BOOLEAN
  BY DEF Reasons
<1>2. None \in Message
  BY <1>1, StateType DEF None
<1>3. AckMessage \in Message
  BY DEF AckMessage, Message, Reasons
<1> QED BY <1>2, <1>3, TimesAssumption
        DEF Mcu, Reasons, EndstopHit, HostRequest, PastEndTime, CommsTimeout

(* The times the dispatcher gives are numbers.                             *)
LEMMA ExtendedType ==
  ASSUME NEW t \in [Mcu -> Dispatch]
  PROVE  /\ Status(t) \in [Mcu -> Nat]
         /\ \A m \in Mcu : Extended(Status(t), m) \in Nat
<1>1. Status(t) \in [Mcu -> Nat]
  BY DEF Status, Dispatch
<1>2. \A m \in Mcu : Earliest(Others(m), Status(t)) \in Nat
  BY <1>1, OthersExist, EarliestIs
<1> QED BY <1>1, <1>2, TimesAssumption DEF Extended

(* Sending and replying keep the types of the links.                       *)
LEMMA SendType ==
  ASSUME to_mcu \in [Mcu -> Seq(Command)],
         NEW m \in Mcu, NEW c \in Seq(Command), Send(m, c)
  PROVE  to_mcu' \in [Mcu -> Seq(Command)]
<1>1. to_mcu[m] \o c \in Seq(Command)
  BY ConcatProperties
<1> QED BY <1>1 DEF Send

LEMMA ReplyType ==
  ASSUME to_host \in [Mcu -> Seq(Message)],
         NEW m \in Mcu, NEW s \in Seq(Message), Reply(m, s)
  PROVE  to_host' \in [Mcu -> Seq(Message)]
<1>1. to_host[m] \o s \in Seq(Message)
  BY ConcatProperties
<1> QED BY <1>1 DEF Reply

(* Stopping keeps the type of a trsync.                                    *)
LEMMA TriggeredType ==
  ASSUME NEW m \in Mcu, trsync[m] \in Trsync, NEW reason \in Reasons
  PROVE  Triggered(m, reason) \in Trsync
BY DEF Triggered, Trsync

(* An update of a report's time keeps it too.                              *)
LEMMA TrsyncUpdate ==
  ASSUME NEW t \in Trsync, NEW n \in Nat
  PROVE  /\ [t EXCEPT !.next_report = n] \in Trsync
         /\ [t EXCEPT !.expire = n] \in Trsync
         /\ [t EXCEPT !.next_report = n, !.can_trigger = TRUE] \in Trsync
BY DEF Trsync

(* Time is a number.                                                       *)
LEMMA NowType ==
  ASSUME McuTypes
  PROVE  now \in Nat /\ now \in 0..MaxTime /\ now + Expire \in Nat
BY TimesAssumption, HomingAssumption DEF McuTypes

(* A controller that stops keeps the types.                                *)
LEMMA McuStopsType ==
  ASSUME TypeOK, NEW m \in Mcu, NEW reason \in Reasons, McuStops(m, reason)
  PROVE  TypeOK'
<1> USE DEF TypeOK
<1>1. [Triggered(m, reason) EXCEPT !.next_report = now] \in Trsync
  <2>1. trsync[m] \in Trsync
    BY DEF McuTypes
  <2> QED BY <2>1, NowType, TriggeredType, TrsyncUpdate
<1>2. McuTypes'
  BY <1>1, NowType DEF McuStops, McuTypes, NoteStop
<1> QED BY <1>2 DEF McuStops, LinkTypes, ThreadTypes, PythonTypes, MainTypes,
                    threadVars, pythonVars, mainVars

(* A step keeps the types.                                                 *)
LEMMA TypeStep == TypeOK /\ [Next]_vars => TypeOK'
<1> USE DEF TypeOK, mcuVars, threadVars, pythonVars, mainVars
<1> SUFFICES ASSUME TypeOK, Next PROVE TypeOK'
  BY DEF McuTypes, LinkTypes, ThreadTypes, PythonTypes, MainTypes, vars
<1> USE ConstantTypes, TimesAssumption, HomingAssumption
<1>1. CASE Start
  <2>1. McuTypes'
    BY <1>1, NowType DEF Start, McuTypes
  <2>2. now \in Nat /\ now + Expire \in Nat
    BY NowType
  <2>3. LinkTypes'
    <3>1. << Cmd("start", 0), Cmd("set_timeout", now + Expire) >>
            \in Seq(Command)
      BY <2>2, CmdType
    <3>2. \A m \in Mcu : to_mcu[m] \o
            << Cmd("start", 0), Cmd("set_timeout", now + Expire) >>
              \in Seq(Command)
      BY <3>1, ConcatProperties DEF LinkTypes
    <3> QED BY <1>1, <3>2 DEF Start, LinkTypes
  <2>4. ThreadTypes'
    BY <1>1, <2>2 DEF Start, ThreadTypes, Dispatch
  <2>5. PythonTypes'
    BY <1>1 DEF Start, PythonTypes
  <2>6. MainTypes'
    <3>1. round \in 0..MaxRounds /\ round < MaxRounds /\ round' = round + 1
      BY <1>1 DEF Start, MainTypes
    <3>2. round' \in 0..MaxRounds
      BY <3>1
    <3> QED BY <1>1, <3>2 DEF Start, MainTypes
  <2> QED BY <2>1, <2>3, <2>4, <2>5, <2>6
<1>2. CASE AddReader
  <2>1. LinkTypes'
    <3>1. << Cmd("home", 1) >> \in Seq(Command)
      BY CmdType
    <3> QED BY <1>2, <3>1, SendType DEF AddReader, LinkTypes
  <2>2. ThreadTypes'
    BY <1>2 DEF AddReader, ThreadTypes, Dispatch
  <2>3. MainTypes'
    BY <1>2 DEF AddReader, MainTypes, Mcu
  <2> QED BY <1>2, <2>1, <2>2, <2>3 DEF AddReader, McuTypes, PythonTypes
<1>3. CASE WaitEnd
  BY <1>3 DEF WaitEnd, McuTypes, LinkTypes, ThreadTypes, PythonTypes, MainTypes
<1>4. CASE Stop
  <2>1. LinkTypes'
    <3>1. << Cmd("home", 0) >> \in Seq(Command)
      BY CmdType
    <3> QED BY <1>4, <3>1, SendType DEF Stop, LinkTypes
  <2> QED BY <1>4, <2>1
          DEF Stop, McuTypes, ThreadTypes, PythonTypes, MainTypes
<1>5. CASE RemoveReader
  <2>1. ThreadTypes'
    BY <1>5 DEF RemoveReader, ThreadTypes, Dispatch
  <2>2. MainTypes'
    BY <1>5 DEF RemoveReader, MainTypes, Mcu
  <2> QED BY <1>5, <2>1, <2>2 DEF RemoveReader, McuTypes, LinkTypes, PythonTypes
<1>6. CASE Query
  <2>1. << Cmd("query", HostRequest) >> \in Seq(Command)
    BY CmdType, ConstantTypes
  <2>2. LinkTypes'
    BY <1>6, <2>1, SendType DEF Query, LinkTypes, MainTypes
  <2>3. PythonTypes'
    BY <1>6 DEF Query, PythonTypes
  <2>4. MainTypes'
    BY <1>6 DEF Query, MainTypes
  <2> QED BY <1>6, <2>2, <2>3, <2>4 DEF Query, McuTypes, ThreadTypes
<1>7. CASE Answer
  <2>1. << Cmd("query", HostRequest) >> \in Seq(Command)
    BY CmdType, ConstantTypes
  <2>2. LinkTypes'
    BY <1>7, <2>1, SendType DEF Answer, LinkTypes, MainTypes
  <2>3. PythonTypes'
    BY <1>7 DEF Answer, PythonTypes
  <2>4. MainTypes'
    BY <1>7 DEF Answer, MainTypes, PythonTypes, Mcu, Outcome
  <2> QED BY <1>7, <2>2, <2>3, <2>4 DEF Answer, McuTypes, ThreadTypes
<1>8. CASE Tick
  <2>1. McuTypes'
    BY <1>8 DEF Tick, McuTypes
  <2> QED BY <1>8, <2>1 DEF Tick, LinkTypes, ThreadTypes, PythonTypes, MainTypes
<1>9. CASE McuHit
  BY <1>9, McuStopsType DEF McuHit
<1>10. ASSUME NEW m \in Mcu, Deliver(m) PROVE TypeOK'
  <2>1. LinkTypes' /\ Head(to_host[m]) \in Message
    BY <1>10 DEF Deliver, LinkTypes
  <2>2. ThreadTypes'
    BY <1>10, <2>1 DEF Deliver, ThreadTypes
  <2> QED BY <1>10, <2>1, <2>2 DEF Deliver, McuTypes, PythonTypes, MainTypes
<1>11. ASSUME NEW m \in Mcu, Callback(m) PROVE TypeOK'
  <2> DEFINE s == callback[m][1]
             t == [tdm EXCEPT ![m].status = s.clock]
  <2>1. s \in Message
    BY <1>11 DEF Callback, ThreadTypes
  <2>2. t \in [Mcu -> Dispatch]
    <3>1. s.clock \in Nat
      BY <2>1 DEF Message
    <3>2. tdm \in [Mcu -> Dispatch]
      BY DEF ThreadTypes
    <3>3. ASSUME NEW c \in Nat PROVE [tdm EXCEPT ![m].status = c] \in [Mcu -> Dispatch]
      BY <3>2 DEF Dispatch
    <3> HIDE DEF s
    <3> QED BY <3>1, <3>3
  <2>3. \A n \in Mcu : Extended(Status(t), n) \in Nat
    BY <2>2, ExtendedType
  <2>4. Cmd("trigger", HostRequest) \in Command
        /\ \A n \in Mcu : Cmd("set_timeout", Extended(Status(t), n)) \in Command
    BY <2>3, CmdType, ConstantTypes
  <2>5. \A n \in Mcu :
          /\ Append(to_mcu[n], Cmd("trigger", HostRequest)) \in Seq(Command)
          /\ Append(to_mcu[n], Cmd("set_timeout", Extended(Status(t), n)))
               \in Seq(Command)
    BY <2>4, AppendProperties DEF LinkTypes
  <2>6. \A n \in Mcu : [t[n] EXCEPT !.expire = Extended(Status(t), n)]
                          \in Dispatch
    BY <2>2, <2>3 DEF Dispatch
  <2> HIDE DEF t
  <2>7. LinkTypes'
    <3>1. to_host' \in [Mcu -> Seq(Message)]
      BY <1>11 DEF Callback, LinkTypes
    <3>2. to_mcu \in [Mcu -> Seq(Command)]
      BY DEF LinkTypes
    <3>3. \/ UNCHANGED to_mcu
          \/ to_mcu' = [n \in Mcu |-> Append(to_mcu[n], Cmd("trigger", HostRequest))]
          \/ to_mcu' = [n \in Mcu |-> IF NeedsExtension(t, n)
               THEN Append(to_mcu[n], Cmd("set_timeout", Extended(Status(t), n)))
               ELSE to_mcu[n]]
      BY <1>11, Zenon DEF Callback, t, s
    <3>4. to_mcu' \in [Mcu -> Seq(Command)]
      BY <2>5, <3>2, <3>3
    <3> QED BY <3>1, <3>4 DEF LinkTypes
  <2>8. ThreadTypes'
    <3>1. tdm' \in [Mcu -> Dispatch]
      BY <1>11, <2>2, <2>6 DEF Callback, ThreadTypes, s, t
    <3>2. td' \in [is_active : BOOLEAN, can_trigger : BOOLEAN]
      BY <1>11 DEF Callback, ThreadTypes
    <3>3. callback' = [callback EXCEPT ![m] = << >>] /\ inbox' = inbox
      BY <1>11 DEF Callback
    <3> QED BY <3>1, <3>2, <3>3 DEF ThreadTypes
  <2> QED BY <1>11, <2>7, <2>8 DEF Callback, McuTypes, PythonTypes, MainTypes
<1>12. ASSUME NEW m \in Mcu, Read(m) PROVE TypeOK'
  <2>1. Head(inbox[m]) \in Message /\ ThreadTypes'
    BY <1>12 DEF Read, ThreadTypes
  <2>2. << Cmd("trigger", PastEndTime) >> \in Seq(Command)
    BY CmdType, ConstantTypes
  <2>3. LinkTypes'
    BY <1>12, <2>2, SendType DEF Read, HandleState, LinkTypes
  <2>4. PythonTypes'
    <3>1. CASE UNCHANGED <<home_end, completed>>
      BY <1>12, <2>1, <3>1 DEF Read, HandleState, PythonTypes
    <3>2. CASE ~UNCHANGED <<home_end, completed>>
      <4>1. HandleState(m, Head(inbox[m])) /\ UNCHANGED <<last_params, acked>>
        BY <1>12, <3>2 DEF Read
      <4>a. /\ home_end' = 0 \/ home_end' = home_end
            /\ awaited' = awaited \/ awaited' = [awaited EXCEPT ![m] = FALSE]
        BY <4>1, Zenon DEF HandleState
      <4>b. home_end' \in Nat
        BY <4>a DEF PythonTypes
      <4>2. awaited' \in [Mcu -> BOOLEAN]
        BY <4>a DEF PythonTypes
      <4>3. completed' \in BOOLEAN
        BY <4>1, Zenon DEF HandleState, PythonTypes
      <4> QED BY <1>12, <4>1, <4>b, <4>2, <4>3 DEF Read, PythonTypes
    <3> QED BY <3>1, <3>2
  <2> QED BY <1>12, <2>1, <2>3, <2>4 DEF Read, McuTypes, MainTypes
<1>13. ASSUME NEW m \in Mcu, McuExecute(m) PROVE TypeOK'
  <2>1. Head(to_mcu[m]) \in Command /\ to_mcu' \in [Mcu -> Seq(Command)]
    BY <1>13 DEF McuExecute, LinkTypes
  <2> DEFINE c == Head(to_mcu[m])
  <2>2. c.cmd \in {"start", "set_timeout", "trigger", "query", "home"}
        /\ c.arg \in Nat /\ trsync[m] \in Trsync
    BY <2>1 DEF Command, McuTypes, Reasons
  <2>8. c.cmd \in {"trigger", "query"} => c.arg \in Reasons
    BY <2>1 DEF Command
  <2> HIDE DEF c
  <2>7. ThreadTypes' /\ PythonTypes' /\ MainTypes'
    BY <1>13 DEF McuExecute, ThreadTypes, PythonTypes, MainTypes
  <2>3. CASE c.cmd = "start"
    <3>1. [Off EXCEPT !.next_report = now, !.can_trigger = TRUE] \in Trsync
      <4>1. Off \in Trsync
        BY DEF Off, Trsync, Reasons
      <4> QED BY <4>1, NowType, TrsyncUpdate
    <3> QED BY <1>13, <2>1, <2>3, <2>7, <3>1 DEF McuExecute, McuTypes, LinkTypes, c
  <2>4. CASE c.cmd = "set_timeout"
    <3>1. [trsync[m] EXCEPT !.expire = c.arg] \in Trsync
      <4>1. c.arg \in Nat /\ trsync[m] \in Trsync
        BY <2>2
      <4> QED BY <4>1, TrsyncUpdate
    <3> QED BY <1>13, <2>1, <2>4, <2>7, <3>1 DEF McuExecute, McuTypes, LinkTypes, c
  <2>5. CASE c.cmd \in {"trigger", "query"}
    <3> DEFINE t == [Triggered(m, c.arg) EXCEPT !.next_report = 0]
               s == State(FALSE, t.reason, 0, c.cmd = "query")
    <3>1. Triggered(m, c.arg) \in Trsync
      <4>1. c.arg \in Reasons
        BY <2>5, <2>8
      <4> QED BY <2>2, <4>1, TriggeredType
    <3>2. t \in Trsync /\ t.reason \in Reasons
      BY <3>1 DEF Trsync
    <3>3. s \in Message
      BY <3>2, StateType
    <3>4. (IF c.cmd = "query" THEN << s, AckMessage >> ELSE << s >>)
            \in Seq(Message)
      <4>1. \A x, y \in Message : << x, y >> \in Seq(Message)
                                  /\ << x >> \in Seq(Message)
        OBVIOUS
      <4> HIDE DEF s
      <4> QED BY <3>3, <4>1
    <3> HIDE DEF s, t
    <3>5. trsync' = [trsync EXCEPT ![m] = t] /\ NoteStop(m) /\ armed' = armed
          /\ Reply(m, IF c.cmd = "query" THEN << s, AckMessage >> ELSE << s >>)
          /\ now' = now
      BY <1>13, <2>5 DEF McuExecute, c, s, t
    <3>6. McuTypes'
      BY <3>2, <3>5, NowType DEF McuTypes, NoteStop
    <3>7. LinkTypes'
      BY <2>1, <3>4, <3>5, ReplyType DEF LinkTypes
    <3> QED BY <2>7, <3>6, <3>7
  <2>6. CASE c.cmd = "home"
    <3>1. trsync' = trsync /\ stopped_at' = stopped_at /\ now' = now
          /\ to_host' = to_host /\ armed' = (c.arg = 1)
      BY <1>13, <2>6 DEF McuExecute, c
    <3>2. armed' \in BOOLEAN
      <4>1. (c.arg = 1) \in BOOLEAN
        OBVIOUS
      <4> QED BY <3>1, <4>1, Zenon
    <3> QED BY <2>1, <2>7, <3>1, <3>2 DEF McuTypes, LinkTypes
  <2> QED BY <2>2, <2>3, <2>4, <2>5, <2>6, <2>7
<1>14. ASSUME NEW m \in Mcu, McuReport(m) PROVE TypeOK'
  <2>1. McuTypes'
    <3>1. [trsync[m] EXCEPT !.next_report =
                              IF now < MaxTime THEN now + 1 ELSE now] \in Trsync
      <4>1. (IF now < MaxTime THEN now + 1 ELSE now) \in Nat
        BY NowType
      <4>2. trsync[m] \in Trsync
        BY DEF McuTypes
      <4> QED BY <4>1, <4>2, TrsyncUpdate
    <3> QED BY <1>14, <3>1 DEF McuReport, McuTypes
  <2>2. << State(trsync[m].can_trigger, trsync[m].reason, now, FALSE) >>
          \in Seq(Message)
    <3>1. trsync[m].can_trigger \in BOOLEAN /\ trsync[m].reason \in Reasons
      BY DEF McuTypes, Trsync
    <3>2. State(trsync[m].can_trigger, trsync[m].reason, now, FALSE) \in Message
      <4>1. \A x \in BOOLEAN, y \in Reasons : State(x, y, now, FALSE) \in Message
        BY NowType, StateType
      <4> QED BY <3>1, <4>1, Zenon
    <3>3. \A x \in Message : << x >> \in Seq(Message)
      OBVIOUS
    <3> QED BY <3>2, <3>3, Zenon
  <2>3. LinkTypes'
    BY <1>14, <2>2, ReplyType DEF McuReport, LinkTypes
  <2> QED BY <1>14, <2>1, <2>3 DEF McuReport, ThreadTypes, PythonTypes, MainTypes
<1>15. ASSUME NEW m \in Mcu, McuExpires(m) PROVE TypeOK'
  BY <1>15, McuStopsType DEF McuExpires
<1>16. ASSUME NEW m \in Mcu, LoseReport(m) PROVE TypeOK'
  <2>1. LinkTypes'
    BY <1>16 DEF LoseReport, LinkTypes
  <2> QED BY <1>16, <2>1 DEF LoseReport, McuTypes, ThreadTypes, PythonTypes,
                             MainTypes
<1> QED BY <1>1, <1>2, <1>3, <1>4, <1>5, <1>6, <1>7, <1>8, <1>9, <1>10,
           <1>11, <1>12, <1>13, <1>14, <1>15, <1>16 DEF Next, Works, Main, Threads

(* The types hold at the beginning.                                        *)
LEMMA TypeInit == Init => TypeOK
<1> SUFFICES ASSUME Init PROVE TypeOK
  OBVIOUS
<1> USE ConstantTypes, TimesAssumption, HomingAssumption
<1>1. Off \in Trsync /\ [status |-> 0, expire |-> 0, reader |-> FALSE] \in Dispatch
  BY DEF Off, Trsync, Dispatch, Reasons
<1>2. McuTypes
  <2>1. 1 \in 1..MaxTime /\ 0 \in 0..MaxTime
    OBVIOUS
  <2> QED BY <1>1, <2>1 DEF Init, McuTypes
<1>3. LinkTypes
  BY DEF Init, LinkTypes
<1>4. ThreadTypes
  BY <1>1 DEF Init, ThreadTypes
<1>5. PythonTypes
  BY DEF Init, PythonTypes
<1>6. MainTypes
  BY DEF Init, MainTypes
<1> QED BY <1>2, <1>3, <1>4, <1>5, <1>6 DEF TypeOK

(* The types of Homing, for every number of controllers.                   *)
THEOREM HomingTypes == Spec => []TypeOK
BY TypeInit, TypeStep, PTL DEF Spec

-----------------------------------------------------------------------------
(* The elements of sequences.                                              *)

LEMMA ToSetTail ==
  ASSUME NEW S, NEW s \in Seq(S), s # << >>
  PROVE  ToSet(Tail(s)) \subseteq ToSet(s) /\ Head(s) \in ToSet(s)
BY DEF ToSet

LEMMA ToSetConcat ==
  ASSUME NEW S, NEW s \in Seq(S), NEW t \in Seq(S)
  PROVE  ToSet(s \o t) \subseteq ToSet(s) \cup ToSet(t)
<1> SUFFICES ASSUME NEW i \in DOMAIN (s \o t)
             PROVE  (s \o t)[i] \in ToSet(s) \cup ToSet(t)
  BY DEF ToSet
<1>1. i \in 1..(Len(s) + Len(t))
  BY ConcatProperties
<1>2. CASE i <= Len(s)
  BY <1>1, <1>2, ConcatProperties DEF ToSet
<1>3. CASE i > Len(s)
  <2>1. (s \o t)[i] = t[i - Len(s)] /\ i - Len(s) \in DOMAIN t
    BY <1>1, <1>3, ConcatProperties
  <2> QED BY <2>1 DEF ToSet
<1> QED BY <1>1, <1>2, <1>3

LEMMA ToSetAppend ==
  ASSUME NEW S, NEW s \in Seq(S), NEW e \in S
  PROVE  ToSet(Append(s, e)) \subseteq ToSet(s) \cup {e}
BY DEF ToSet

LEMMA ToSetShort ==
  ASSUME NEW x, NEW y
  PROVE  /\ ToSet(<< >>) = {} /\ ToSet(<< x >>) = {x}
         /\ ToSet(<< x, y >>) = {x, y}
BY DEF ToSet

-----------------------------------------------------------------------------
(* Until when a controller has gone on for certain.                        *)

\* The inductive invariant of StopTogether.
StopInv == TypeOK /\ ReportsTrue /\ TimesBounded

LEMMA AliveType ==
  ASSUME TypeOK, NEW m \in Mcu
  PROVE  /\ Alive(m) \in Nat /\ now \in Nat /\ stopped_at[m] \in Nat
         /\ trsync[m] \in Trsync /\ trsync[m].can_trigger \in BOOLEAN
         /\ trsync[m].expire \in Nat
<1>1. McuTypes
  BY DEF TypeOK
<1>2. now \in Nat /\ stopped_at[m] \in Nat /\ trsync[m] \in Trsync
  BY <1>1, NowType, HomingAssumption DEF McuTypes
<1> QED BY <1>2 DEF Alive, Trsync

\* The same as one formula, so that it can be stated of the next state too.
AliveNumbers ==
  now \in Nat /\ \A m \in Mcu : /\ Alive(m) \in Nat /\ stopped_at[m] \in Nat
                               /\ trsync[m].can_trigger \in BOOLEAN

LEMMA AliveNumbersHold == TypeOK => AliveNumbers
<1>1. TypeOK => now \in Nat
  BY NowType DEF TypeOK
<1> QED BY <1>1, AliveType DEF AliveNumbers

LEMMA AliveNumbersNext == TypeOK' => AliveNumbers'
BY AliveNumbersHold, PTL

\* The controllers as far as Alive depends on them.
SameMcus == UNCHANGED <<now, stopped_at>>
            /\ \A m \in Mcu : trsync'[m].can_trigger = trsync[m].can_trigger

\* What a stop of controller n does to them.
StopsMcu(n) ==
  /\ now' = now /\ NoteStop(n)
  /\ trsync' = [trsync EXCEPT ![n] = trsync'[n]]
  /\ trsync'[n].can_trigger = FALSE

LEMMA AliveAfterStop ==
  ASSUME TypeOK, ReportsTrue, NEW n \in Mcu, StopsMcu(n), NEW m \in Mcu
  PROVE  Alive(m)' = Alive(m) /\ stopped_at'[m] <= now'
<1>1. stopped_at \in [Mcu -> 0..MaxTime] /\ trsync \in [Mcu -> Trsync]
  BY DEF TypeOK, McuTypes
<1>2. now \in Nat /\ stopped_at[m] <= now
  BY AliveType DEF ReportsTrue
<1>3. CASE m = n
  <2>1. CASE trsync[n].can_trigger
    BY <1>1, <1>2, <1>3, <2>1 DEF StopsMcu, NoteStop, Alive
  <2>2. CASE ~trsync[n].can_trigger
    BY <1>1, <1>2, <1>3, <2>2 DEF StopsMcu, NoteStop, Alive
  <2> QED BY <2>1, <2>2
<1>4. CASE m # n
  <2>1. trsync'[m] = trsync[m] /\ stopped_at'[m] = stopped_at[m]
    BY <1>1, <1>4 DEF StopsMcu, NoteStop
  <2> QED BY <1>2, <2>1 DEF StopsMcu, Alive
<1> QED BY <1>3, <1>4

LEMMA TriggerStops ==
  ASSUME TypeOK, NEW n \in Mcu, NEW reason \in Reasons
  PROVE  /\ Triggered(n, reason).can_trigger = FALSE
         /\ \A x \in Nat :
              [Triggered(n, reason) EXCEPT !.next_report = x].can_trigger = FALSE
<1>1. trsync[n] \in Trsync /\ trsync[n].can_trigger \in BOOLEAN
  BY AliveType
<1>2. Triggered(n, reason) \in Trsync
  BY <1>1, TriggeredType
<1>3. Triggered(n, reason).can_trigger = FALSE
  BY <1>1 DEF Triggered, Trsync
<1> QED BY <1>2, <1>3 DEF Trsync

LEMMA McuStopsIsStop ==
  ASSUME TypeOK, NEW n \in Mcu, NEW reason \in Reasons, McuStops(n, reason)
  PROVE  StopsMcu(n)
<1>1. trsync' = [trsync EXCEPT ![n] = [Triggered(n, reason)
                                         EXCEPT !.next_report = now]]
      /\ NoteStop(n) /\ now' = now
  BY DEF McuStops
<1>2. [Triggered(n, reason) EXCEPT !.next_report = now].can_trigger = FALSE
  BY AliveType, TriggerStops
<1>3. trsync \in [Mcu -> Trsync]
  BY DEF TypeOK, McuTypes
<1> QED BY <1>1, <1>2, <1>3 DEF StopsMcu

\* What the controllers do in a step, as far as Alive depends on it.
McuSteps ==
  \/ SameMcus
  \/ \E n \in Mcu : StopsMcu(n)
  \/ Start
  \/ Tick
  \/ \E n \in Mcu : /\ now' = now /\ stopped_at' = stopped_at
                    /\ \A m \in Mcu \ {n} : trsync'[m] = trsync[m]
                    /\ trsync'[n].can_trigger = TRUE

LEMMA ExecuteMcuSteps ==
  ASSUME TypeOK, NEW m \in Mcu, McuExecute(m)
  PROVE  McuSteps
<1> DEFINE c == Head(to_mcu[m])
<1>1. trsync \in [Mcu -> Trsync] /\ c \in Command
  BY DEF TypeOK, McuTypes, LinkTypes, McuExecute
<1>2. /\ c.cmd \in {"start", "set_timeout", "trigger", "query", "home"}
      /\ now' = now /\ c.arg \in Nat
  BY <1>1 DEF McuExecute, Command, Reasons
<1>3. c.cmd \in {"trigger", "query"} => c.arg \in Reasons
  BY <1>1 DEF Command
<1> HIDE DEF c
<1>4. CASE c.cmd = "start"
  <2>1. [Off EXCEPT !.next_report = now, !.can_trigger = TRUE].can_trigger = TRUE
    BY DEF Off
  <2>2. trsync' = [trsync EXCEPT ![m] =
                     [Off EXCEPT !.next_report = now, !.can_trigger = TRUE]]
        /\ stopped_at' = stopped_at
    BY <1>4 DEF McuExecute, c
  <2> QED BY <1>1, <1>2, <2>1, <2>2 DEF McuSteps
<1>5. CASE c.cmd = "set_timeout"
  <2>1. trsync' = (IF trsync[m].can_trigger
                   THEN [trsync EXCEPT ![m].expire = c.arg] ELSE trsync)
        /\ stopped_at' = stopped_at
    BY <1>5 DEF McuExecute, c
  <2>2. \A n \in Mcu : trsync'[n].can_trigger = trsync[n].can_trigger
    BY <1>1, <2>1 DEF Trsync
  <2> QED BY <1>2, <2>1, <2>2 DEF McuSteps, SameMcus
<1>6. CASE c.cmd \in {"trigger", "query"}
  <2>1. c.arg \in Reasons
    BY <1>3, <1>6
  <2>2. trsync' = [trsync EXCEPT ![m] =
                     [Triggered(m, c.arg) EXCEPT !.next_report = 0]]
        /\ NoteStop(m)
    BY <1>6 DEF McuExecute, c
  <2>3. [Triggered(m, c.arg) EXCEPT !.next_report = 0].can_trigger = FALSE
    BY <2>1, TriggerStops
  <2> QED BY <1>1, <1>2, <2>2, <2>3 DEF McuSteps, StopsMcu
<1>7. CASE c.cmd = "home"
  BY <1>2, <1>7 DEF McuExecute, c, McuSteps, SameMcus
<1> QED BY <1>2, <1>4, <1>5, <1>6, <1>7

LEMMA NextMcuSteps ==
  ASSUME TypeOK, Next PROVE McuSteps
<1> USE DEF mcuVars, McuSteps, SameMcus
<1>1. CASE AddReader \/ WaitEnd \/ Stop \/ RemoveReader \/ Query \/ Answer
  BY <1>1 DEF AddReader, WaitEnd, Stop, RemoveReader, Query, Answer
<1>2. CASE McuHit
  BY <1>2, ConstantTypes, McuStopsIsStop DEF McuHit
<1>3. ASSUME NEW m \in Mcu, Threads(m) \/ LoseReport(m) PROVE McuSteps
  BY <1>3 DEF Threads, Deliver, Callback, Read, LoseReport
<1>4. ASSUME NEW m \in Mcu, McuExpires(m) PROVE McuSteps
  BY <1>4, ConstantTypes, McuStopsIsStop DEF McuExpires
<1>5. ASSUME NEW m \in Mcu, McuExecute(m) PROVE McuSteps
  BY <1>5, ExecuteMcuSteps
<1>6. ASSUME NEW m \in Mcu, McuReport(m) PROVE McuSteps
  <2>1. trsync \in [Mcu -> Trsync]
    BY DEF TypeOK, McuTypes
  <2> QED BY <1>6, <2>1 DEF McuReport, Trsync
<1> QED BY <1>1, <1>2, <1>3, <1>4, <1>5, <1>6 DEF Next, Works, Main

(* A controller that has gone on has gone on: Alive never falls.           *)
LEMMA AliveGrows ==
  ASSUME TypeOK, TypeOK', ReportsTrue, Next, NEW m \in Mcu
  PROVE  /\ Alive(m) \in Nat /\ Alive(m)' \in Nat
         /\ Alive(m) <= Alive(m)' /\ stopped_at'[m] <= now'
<1>1. /\ Alive(m) \in Nat /\ now \in Nat /\ stopped_at[m] \in Nat
      /\ trsync[m].can_trigger \in BOOLEAN /\ stopped_at[m] <= now
  BY AliveType DEF ReportsTrue
<1>2. /\ Alive(m)' \in Nat /\ now' \in Nat /\ stopped_at'[m] \in Nat
      /\ trsync'[m].can_trigger \in BOOLEAN
  BY AliveNumbersNext DEF AliveNumbers
<1>3. CASE SameMcus
  BY <1>1, <1>3 DEF SameMcus, Alive
<1>4. ASSUME NEW n \in Mcu, StopsMcu(n)
      PROVE  Alive(m) <= Alive(m)' /\ stopped_at'[m] <= now'
  BY <1>1, <1>4, AliveAfterStop
<1>5. CASE Start
  <2>1. trsync' = trsync /\ now' = now /\ stopped_at' = [o \in Mcu |-> now]
    BY <1>5 DEF Start
  <2>2. stopped_at'[m] = now /\ trsync'[m] = trsync[m]
    BY <2>1
  <2> QED BY <1>1, <2>1, <2>2 DEF Alive
<1>6. CASE Tick
  BY <1>1, <1>6 DEF Tick, Alive, mcuVars
<1>7. ASSUME NEW n \in Mcu, now' = now, stopped_at' = stopped_at,
             \A o \in Mcu \ {n} : trsync'[o] = trsync[o],
             trsync'[n].can_trigger = TRUE
      PROVE  Alive(m) <= Alive(m)' /\ stopped_at'[m] <= now'
  BY <1>1, <1>7 DEF Alive
<1> QED BY <1>1, <1>2, <1>3, <1>4, <1>5, <1>6, <1>7, NextMcuSteps DEF McuSteps

(* When a homing move starts, every controller has gone on until now.      *)
LEMMA AliveAtStart ==
  ASSUME TypeOK, Start, NEW m \in Mcu
  PROVE  Alive(m)' = now
<1>1. trsync' = trsync /\ now' = now /\ stopped_at' = [o \in Mcu |-> now]
  BY DEF Start
<1>2. stopped_at'[m] = now /\ trsync'[m] = trsync[m]
  BY <1>1
<1> QED BY <1>1, <1>2 DEF Alive

-----------------------------------------------------------------------------
(* What the host knows of a controller.                                    *)

(* The message a thread is handling tells the truth.                       *)
LEMMA CallbackTrue ==
  ASSUME TypeOK, ReportsTrue, NEW m \in Mcu, callback[m] # << >>
  PROVE  /\ callback[m][1] \in Message
         /\ callback[m][1].can_trigger => callback[m][1].clock <= Alive(m)
<1>1. callback[m] \in Seq(Message)
  BY DEF TypeOK, ThreadTypes
<1>2. callback[m][1] \in ToSet(callback[m])
  BY <1>1 DEF ToSet
<1> QED BY <1>1, <1>2 DEF ReportsTrue

(* A status changes to what is true.                                       *)
LEMMA StatusStep ==
  ASSUME TypeOK, TypeOK', ReportsTrue, Next, NEW m \in Mcu
  PROVE  tdm'[m].status = tdm[m].status \/ tdm'[m].status <= Alive(m)'
<1> DEFINE Goal == tdm'[m].status = tdm[m].status \/ tdm'[m].status <= Alive(m)'
<1> USE DEF mcuVars, threadVars
<1>t. tdm \in [Mcu -> Dispatch] /\ k \in Mcu
  BY DEF TypeOK, ThreadTypes, MainTypes
<1>1. CASE Start
  <2>1. Alive(m)' = now /\ now \in Nat
    BY <1>1, AliveAtStart, AliveType
  <2>2. tdm'[m].status = now
    BY <1>1, <1>t DEF Start, Dispatch
  <2> QED BY <2>1, <2>2
<1>2. CASE AddReader \/ RemoveReader
  <2>1. \E b \in BOOLEAN : tdm' = [tdm EXCEPT ![k].reader = b]
    BY <1>2 DEF AddReader, RemoveReader
  <2> QED BY <1>t, <2>1 DEF Dispatch
<1>3. CASE WaitEnd \/ Stop \/ Query \/ Answer \/ Tick \/ McuHit
  BY <1>3 DEF WaitEnd, Stop, Query, Answer, Tick, McuHit, McuStops
<1>4. ASSUME NEW n \in Mcu,
             Deliver(n) \/ Read(n) \/ McuExecute(n) \/ McuReport(n)
               \/ McuExpires(n) \/ LoseReport(n)
      PROVE  Goal
  BY <1>4 DEF Deliver, Read, McuExecute, McuReport, McuExpires, McuStops,
              LoseReport
<1>5. ASSUME NEW n \in Mcu, Callback(n) PROVE Goal
  <2> DEFINE s == callback[n][1]
             t == [tdm EXCEPT ![n].status = s.clock]
  <2>1. s \in Message /\ (s.can_trigger => s.clock <= Alive(n))
    <3>1. callback[n] # << >>
      BY <1>5 DEF Callback
    <3> QED BY <3>1, CallbackTrue
  <2>2. CASE UNCHANGED tdm
    BY <2>2
  <2>3. CASE ~UNCHANGED tdm
    <3>1. s.can_trigger
          /\ tdm' = [o \in Mcu |-> IF NeedsExtension(t, o)
                       THEN [t[o] EXCEPT !.expire = Extended(Status(t), o)]
                       ELSE t[o]]
      BY <1>5, <2>3 DEF Callback
    <3>2. t \in [Mcu -> Dispatch]
      <4>1. s.clock \in Nat
        BY <2>1 DEF Message
      <4> HIDE DEF s
      <4> QED BY <1>t, <4>1 DEF Dispatch
    <3>3. tdm'[m].status = t[m].status
      <4> HIDE DEF t
      <4> QED BY <3>1, <3>2 DEF Dispatch
    <3>4. CASE m = n
      <4>1. t[m].status = s.clock
        BY <1>t, <3>4 DEF Dispatch
      <4>2. s.clock \in Nat /\ s.clock <= Alive(m)
        BY <1>5, <3>1, <3>4, CallbackTrue DEF Callback, Message
      <4> HIDE DEF s, t
      <4> QED BY <3>3, <4>1, <4>2, AliveGrows
    <3>5. CASE m # n
      BY <1>t, <3>3, <3>5
    <3> QED BY <3>4, <3>5
  <2> QED BY <2>2, <2>3
<1> QED BY <1>1, <1>2, <1>3, <1>4, <1>5 DEF Next, Works, Main, Threads

\* The messages a serial thread has yet to act on.
Messages(m) == ToSet(to_host[m]) \cup ToSet(callback[m])

(* Only true messages are added.                                           *)
LEMMA MessagesStep ==
  ASSUME TypeOK, TypeOK', ReportsTrue, Next, NEW m \in Mcu
  PROVE  \A s \in Messages(m)' :
           s \in Messages(m) \/ ~s.can_trigger
             \/ (trsync[m].can_trigger /\ s.clock = now /\ now' = now
                 /\ trsync'[m].can_trigger)
<1> DEFINE Goal ==
      \A s \in Messages(m)' :
        s \in Messages(m) \/ ~s.can_trigger
          \/ (trsync[m].can_trigger /\ s.clock = now /\ now' = now
              /\ trsync'[m].can_trigger)
<1> USE DEF mcuVars, threadVars
<1>t. /\ to_host \in [Mcu -> Seq(Message)] /\ callback \in [Mcu -> Seq(Message)]
      /\ trsync \in [Mcu -> Trsync]
  BY DEF TypeOK, LinkTypes, ThreadTypes, McuTypes
<1>1. CASE UNCHANGED <<to_host, callback>>
  BY <1>1 DEF Messages
<1>2. ASSUME NEW n \in Mcu, Deliver(n) PROVE Goal
  <2>1. CASE m = n
    <3>1. /\ to_host'[m] = Tail(to_host[m]) /\ to_host[m] # << >>
          /\ callback'[m] = << Head(to_host[m]) >> \/ callback'[m] = << >>
      BY <1>2, <1>t, <2>1 DEF Deliver
    <3>2. ToSet(Tail(to_host[m])) \subseteq ToSet(to_host[m])
          /\ Head(to_host[m]) \in ToSet(to_host[m])
      BY <1>t, <3>1, ToSetTail
    <3>3. ToSet(callback'[m]) \subseteq {Head(to_host[m])}
      BY <3>1, ToSetShort
    <3> QED BY <3>1, <3>2, <3>3 DEF Messages
  <2>2. CASE m # n
    BY <1>2, <1>t, <2>2 DEF Deliver, Messages
  <2> QED BY <2>1, <2>2
<1>3. ASSUME NEW n \in Mcu, LoseReport(n) PROVE Goal
  <2>1. CASE m = n
    <3>1. /\ to_host'[m] = Tail(to_host[m]) /\ to_host[m] # << >>
          /\ callback' = callback
      BY <1>3, <1>t, <2>1 DEF LoseReport
    <3>2. ToSet(Tail(to_host[m])) \subseteq ToSet(to_host[m])
      BY <1>t, <3>1, ToSetTail
    <3> QED BY <3>1, <3>2 DEF Messages
  <2>2. CASE m # n
    BY <1>3, <1>t, <2>2 DEF LoseReport, Messages
  <2> QED BY <2>1, <2>2
<1>4. ASSUME NEW n \in Mcu, Callback(n) PROVE Goal
  <2>1. to_host' = to_host /\ callback' = [callback EXCEPT ![n] = << >>]
    BY <1>4 DEF Callback
  <2>2. ToSet(callback'[m]) \subseteq ToSet(callback[m])
    BY <1>t, <2>1, ToSetShort
  <2> QED BY <2>1, <2>2 DEF Messages
<1>5. ASSUME NEW n \in Mcu, McuReport(n) PROVE Goal
  <2> DEFINE r == State(trsync[n].can_trigger, trsync[n].reason, now, FALSE)
  <2>0. /\ to_host' = [to_host EXCEPT ![n] = @ \o << r >>]
        /\ callback' = callback /\ now' = now
        /\ trsync' = [trsync EXCEPT ![n].next_report =
                                IF now < MaxTime THEN now + 1 ELSE now]
    BY <1>5 DEF McuReport, Reply
  <2>1. CASE m = n
    <3>1. r.can_trigger = trsync[m].can_trigger /\ r.clock = now
      BY <2>1 DEF State
    <3>2. trsync'[m].can_trigger = trsync[m].can_trigger
      BY <1>t, <2>0 DEF Trsync
    <3>3. << r >> \in Seq(Message)
      <4>1. r \in Message
        <5>1. \A x \in BOOLEAN, y \in Reasons : State(x, y, now, FALSE) \in Message
          BY AliveType, StateType
        <5>2. trsync[n].can_trigger \in BOOLEAN /\ trsync[n].reason \in Reasons
          BY <1>t DEF Trsync
        <5> QED BY <5>1, <5>2, Zenon
      <4> HIDE DEF r
      <4> QED BY <4>1
    <3> HIDE DEF r
    <3>4. ToSet(to_host'[m]) \subseteq ToSet(to_host[m]) \cup {r}
      BY <1>t, <2>0, <2>1, <3>3, ToSetConcat, ToSetShort
    <3> QED BY <2>0, <3>1, <3>2, <3>4 DEF Messages
  <2>2. CASE m # n
    BY <1>t, <2>0, <2>2 DEF Messages
  <2> QED BY <2>1, <2>2
<1>6. ASSUME NEW n \in Mcu, McuExecute(n) PROVE Goal
  <2>0. callback' = callback
    BY <1>6 DEF McuExecute
  <2>1. CASE UNCHANGED to_host
    BY <1>1, <2>0, <2>1
  <2>2. CASE ~UNCHANGED to_host
    <3> DEFINE c == Head(to_mcu[n])
               t == [Triggered(n, c.arg) EXCEPT !.next_report = 0]
               s == State(FALSE, t.reason, 0, c.cmd = "query")
               r == IF c.cmd = "query" THEN << s, AckMessage >> ELSE << s >>
    <3>1. to_host' = [to_host EXCEPT ![n] = @ \o r]
          /\ c.cmd \in {"trigger", "query"}
      BY <1>6, <2>2 DEF McuExecute, Reply
    <3>2. s \in Message /\ ~s.can_trigger
      <4>1. c \in Command
        BY <1>6 DEF McuExecute, TypeOK, LinkTypes
      <4>2. c.arg \in Reasons
        BY <3>1, <4>1 DEF Command
      <4>3. Triggered(n, c.arg) \in Trsync
        BY <1>t, <4>2, TriggeredType
      <4>4. t.reason \in Reasons
        BY <4>3 DEF Trsync
      <4>5. (c.cmd = "query") \in BOOLEAN
        OBVIOUS
      <4>6. s \in Message
        <5>1. \A x \in Reasons, y \in BOOLEAN : State(FALSE, x, 0, y) \in Message
          BY StateType
        <5> HIDE DEF t
        <5> QED BY <4>4, <4>5, <5>1, Zenon
      <4> HIDE DEF t
      <4> QED BY <4>6 DEF State
    <3>3. AckMessage \in Message /\ ~AckMessage.can_trigger
      BY ConstantTypes DEF AckMessage
    <3> HIDE DEF c, s
    <3>4. r \in Seq(Message) /\ ToSet(r) \subseteq {s, AckMessage}
      BY <3>2, <3>3, ToSetShort
    <3> HIDE DEF r
    <3>5. CASE m = n
      <4>1. ToSet(to_host'[m]) \subseteq ToSet(to_host[m]) \cup ToSet(r)
        BY <1>t, <3>1, <3>4, <3>5, ToSetConcat
      <4> QED BY <2>0, <3>2, <3>3, <3>4, <4>1 DEF Messages
    <3>6. CASE m # n
      BY <1>t, <2>0, <3>1, <3>6 DEF Messages
    <3> QED BY <3>5, <3>6
  <2> QED BY <2>1, <2>2
<1> QED BY <1>1, <1>2, <1>3, <1>4, <1>5, <1>6
        DEF Next, Works, Main, Threads, Start, AddReader, WaitEnd, Stop, RemoveReader,
            Query, Answer, Tick, McuHit, McuStops, McuExpires, Read

(* What the host knows of the controllers stays true.                      *)
LEMMA ReportsStep ==
  ASSUME TypeOK, TypeOK', ReportsTrue, Next
  PROVE  ReportsTrue'
<1> SUFFICES ASSUME NEW m \in Mcu
             PROVE  /\ stopped_at'[m] <= now' /\ tdm'[m].status <= Alive(m)'
                    /\ \A s \in Messages(m)' :
                         s.can_trigger => s.clock <= Alive(m)'
  BY DEF ReportsTrue, Messages
<1>1. /\ Alive(m) \in Nat /\ Alive(m)' \in Nat
      /\ Alive(m) <= Alive(m)' /\ stopped_at'[m] <= now'
  BY AliveGrows
<1>2. tdm'[m].status <= Alive(m)'
  <2>1. tdm[m].status \in Nat /\ tdm[m].status <= Alive(m)
    BY DEF ReportsTrue, TypeOK, ThreadTypes, Dispatch
  <2> QED BY <1>1, <2>1, StatusStep
<1>3. ASSUME NEW s \in Messages(m)', s.can_trigger
      PROVE  s.clock <= Alive(m)'
  <2>1. CASE s \in Messages(m)
    <3>1. s.clock <= Alive(m)
      BY <1>3, <2>1 DEF ReportsTrue, Messages
    <3>2. s \in Message
      BY <2>1 DEF Messages, ToSet, TypeOK, LinkTypes, ThreadTypes
    <3> QED BY <1>1, <3>1, <3>2 DEF Message
  <2>2. CASE s.clock = now /\ now' = now /\ trsync'[m].can_trigger
    <3>1. Alive(m)' = now /\ now \in Nat
      BY <2>2, AliveType DEF Alive
    <3> QED BY <2>2, <3>1
  <2> QED BY <1>3, <2>1, <2>2, MessagesStep
<1> QED BY <1>1, <1>2, <1>3

-----------------------------------------------------------------------------
(* The time a controller is given.                                         *)

(* A controller's time comes from a command.                               *)
LEMMA ExpireStep ==
  ASSUME TypeOK, Next, NEW b \in Mcu
  PROVE  \/ trsync'[b].expire \in {0, trsync[b].expire}
         \/ \E c \in ToSet(to_mcu[b]) :
              c.cmd = "set_timeout" /\ trsync'[b].expire = c.arg
<1> DEFINE Goal == \/ trsync'[b].expire \in {0, trsync[b].expire}
                   \/ \E c \in ToSet(to_mcu[b]) :
                        c.cmd = "set_timeout" /\ trsync'[b].expire = c.arg
<1> USE DEF mcuVars
<1>t. trsync \in [Mcu -> Trsync] /\ to_mcu \in [Mcu -> Seq(Command)]
  BY DEF TypeOK, McuTypes, LinkTypes
<1>1. CASE UNCHANGED trsync
  BY <1>1
<1>2. ASSUME NEW n \in Mcu, NEW reason \in Reasons, McuStops(n, reason)
      PROVE  Goal
  <2>1. trsync' = [trsync EXCEPT ![n] = [Triggered(n, reason)
                                           EXCEPT !.next_report = now]]
    BY <1>2 DEF McuStops
  <2>2. [Triggered(n, reason) EXCEPT !.next_report = now].expire
          = trsync[n].expire
    BY <1>t DEF Triggered, Trsync
  <2> QED BY <1>t, <2>1, <2>2
<1>3. ASSUME NEW n \in Mcu, McuReport(n) PROVE Goal
  BY <1>3, <1>t DEF McuReport, Trsync
<1>4. ASSUME NEW n \in Mcu, McuExecute(n) PROVE Goal
  <2> DEFINE c == Head(to_mcu[n])
             t == [Triggered(n, c.arg) EXCEPT !.next_report = 0]
  <2>1. c \in Command /\ c \in ToSet(to_mcu[n])
    BY <1>4, <1>t, ToSetTail DEF McuExecute
  <2>2. \/ trsync' = trsync
        \/ trsync' = [trsync EXCEPT ![n] = [Off EXCEPT !.next_report = now,
                                                       !.can_trigger = TRUE]]
        \/ /\ c.cmd = "set_timeout"
           /\ trsync' = [trsync EXCEPT ![n].expire = c.arg]
        \/ /\ c.cmd \in {"trigger", "query"}
           /\ trsync' = [trsync EXCEPT ![n] = t]
    BY <1>4 DEF McuExecute
  <2>3. [Off EXCEPT !.next_report = now, !.can_trigger = TRUE].expire = 0
    BY DEF Off
  <2>4. c.cmd \in {"trigger", "query"} => t.expire = trsync[n].expire
    <3>1. SUFFICES ASSUME c.cmd \in {"trigger", "query"}
                   PROVE  t.expire = trsync[n].expire
      OBVIOUS
    <3>2. c.arg \in Reasons
      BY <2>1, <3>1 DEF Command
    <3> HIDE DEF c
    <3> QED BY <1>t, <3>2 DEF Triggered, Trsync
  <2> HIDE DEF c, t
  <2>5. CASE b = n
    <3>1. [trsync[n] EXCEPT !.expire = c.arg].expire = c.arg
      BY <1>t DEF Trsync
    <3> QED BY <1>t, <2>1, <2>2, <2>3, <2>4, <2>5, <3>1
  <2>6. CASE b # n
    BY <1>t, <2>2, <2>6
  <2> QED BY <2>5, <2>6
<1>5. CASE McuHit
  BY <1>2, <1>5, ConstantTypes DEF McuHit
<1>6. ASSUME NEW n \in Mcu, McuExpires(n) PROVE Goal
  BY <1>2, <1>6, ConstantTypes DEF McuExpires
<1> QED BY <1>1, <1>3, <1>4, <1>5, <1>6
        DEF Next, Works, Main, Threads, Start, AddReader, WaitEnd, Stop, RemoveReader,
            Query, Answer, Tick, Read, Deliver, Callback, LoseReport

(* What the dispatcher sends follows what it knows of the others.          *)
LEMMA ExtendedBound ==
  ASSUME NEW t \in [Mcu -> Dispatch], NEW a \in Mcu, NEW b \in Mcu, a # b
  PROVE  Extended(Status(t), b) <= t[a].status + Expire
<1>1. Status(t) \in [Mcu -> Nat]
  BY ExtendedType
<1>2. a \in Others(b)
  <2>1. N # 1
    BY TimesAssumption DEF Mcu
  <2> QED BY <2>1 DEF Others
<1>3. Earliest(Others(b), Status(t)) <= Status(t)[a]
      /\ Earliest(Others(b), Status(t)) \in Nat
  BY <1>1, <1>2, OthersExist, EarliestIs
<1>4. Status(t)[a] = t[a].status /\ Status(t)[a] \in Nat
  BY <1>1 DEF Status
<1> QED BY <1>3, <1>4, TimesAssumption DEF Extended

(* Only the dispatcher sends times, and never later ones than it may.      *)
LEMMA CommandsStep ==
  ASSUME TypeOK, TypeOK', ReportsTrue, Next, NEW b \in Mcu
  PROVE  \A c \in ToSet(to_mcu'[b]) :
           \/ c \in ToSet(to_mcu[b]) \/ c.cmd # "set_timeout"
           \/ c.arg \in Nat /\ \A a \in Mcu : a # b => c.arg <= Alive(a)' + Expire
<1> DEFINE Fine(c) == \/ c.cmd # "set_timeout"
                      \/ c.arg \in Nat /\ \A a \in Mcu :
                                    a # b => c.arg <= Alive(a)' + Expire
           Goal == \A c \in ToSet(to_mcu'[b]) : c \in ToSet(to_mcu[b]) \/ Fine(c)
<1> SUFFICES Goal
  OBVIOUS
<1>t. to_mcu \in [Mcu -> Seq(Command)]
  BY DEF TypeOK, LinkTypes
<1>0. ASSUME NEW s \in Seq(Command), \A c \in ToSet(s) : Fine(c),
             to_mcu'[b] = to_mcu[b] \o s
      PROVE  Goal
  <2>1. ToSet(to_mcu[b] \o s) \subseteq ToSet(to_mcu[b]) \cup ToSet(s)
    BY <1>t, ToSetConcat
  <2> HIDE DEF Fine
  <2> QED BY <1>0, <2>1
<1>1. CASE UNCHANGED to_mcu
  BY <1>1
<1>2. ASSUME NEW n \in Mcu, NEW c \in Command, c.cmd # "set_timeout",
             Send(n, << c >>)
      PROVE  Goal
  <2>1. CASE b = n
    <3>1. to_mcu'[b] = to_mcu[b] \o << c >>
      BY <1>t, <1>2, <2>1 DEF Send
    <3>2. << c >> \in Seq(Command) /\ ToSet(<< c >>) = {c} /\ Fine(c)
      <4>1. << c >> \in Seq(Command)
        OBVIOUS
      <4>2. ToSet(<< c >>) = {c}
        BY ToSetShort, Zenon
      <4>3. Fine(c)
        BY <1>2
      <4> QED BY <4>1, <4>2, <4>3
    <3> HIDE DEF Fine, Goal
    <3> QED BY <1>0, <3>1, <3>2
  <2>2. CASE b # n
    BY <1>t, <1>2, <2>2 DEF Send
  <2> QED BY <2>1, <2>2
<1>3. CASE Start
  <2> DEFINE s == << Cmd("start", 0), Cmd("set_timeout", now + Expire) >>
  <2>1. now \in Nat /\ now + Expire \in Nat
    BY NowType DEF TypeOK
  <2>2. Cmd("start", 0) \in Command /\ Cmd("set_timeout", now + Expire) \in Command
    BY <2>1, CmdType
  <2>3. s \in Seq(Command)
        /\ ToSet(s) = {Cmd("start", 0), Cmd("set_timeout", now + Expire)}
    <3>1. s \in Seq(Command)
      BY <2>2
    <3>2. ToSet(s) = {Cmd("start", 0), Cmd("set_timeout", now + Expire)}
      BY ToSetShort, Zenon
    <3> QED BY <3>1, <3>2
  <2>4. Fine(Cmd("start", 0))
    BY DEF Cmd
  <2>5. Fine(Cmd("set_timeout", now + Expire))
    <3>1. \A a \in Mcu : Alive(a)' = now
      BY <1>3, AliveAtStart
    <3> QED BY <2>1, <3>1 DEF Cmd
  <2>6. to_mcu'[b] = to_mcu[b] \o s
    BY <1>3 DEF Start
  <2> HIDE DEF s, Fine, Goal
  <2> QED BY <1>0, <2>3, <2>4, <2>5, <2>6
<1>4. CASE AddReader
  BY <1>1, <1>2, <1>4, CmdType, ConstantTypes DEF AddReader, Cmd
<1>5. CASE Stop
  BY <1>2, <1>5, CmdType, ConstantTypes DEF Stop, Cmd
<1>6. CASE Query
  <2>1. k \in Mcu
    BY DEF TypeOK, MainTypes
  <2> QED BY <1>2, <1>6, <2>1, CmdType, ConstantTypes DEF Query, Cmd
<1>7. CASE Answer
  <2>1. k \in Mcu
    BY DEF TypeOK, MainTypes
  <2> QED BY <1>1, <1>2, <1>7, <2>1, CmdType, ConstantTypes DEF Answer, Cmd
<1>8. ASSUME NEW n \in Mcu, Read(n) PROVE Goal
  <2>1. UNCHANGED to_mcu \/ Send(n, << Cmd("trigger", PastEndTime) >>)
    BY <1>8 DEF Read, HandleState
  <2> QED BY <1>1, <1>2, <2>1, CmdType, ConstantTypes DEF Cmd
<1>9. ASSUME NEW n \in Mcu, McuExecute(n) PROVE Goal
  <2>1. CASE b = n
    <3>1. to_mcu'[b] = Tail(to_mcu[b]) /\ to_mcu[b] # << >>
      BY <1>t, <1>9, <2>1 DEF McuExecute
    <3> QED BY <1>t, <3>1, ToSetTail
  <2>2. CASE b # n
    BY <1>t, <1>9, <2>2 DEF McuExecute
  <2> QED BY <2>1, <2>2
<1>10. ASSUME NEW n \in Mcu, Callback(n) PROVE Goal
  <2> DEFINE s == callback[n][1]
             t == [tdm EXCEPT ![n].status = s.clock]
             x == Cmd("set_timeout", Extended(Status(t), b))
  <2>0. callback[n] # << >>
    BY <1>10 DEF Callback
  <2>1. s \in Message /\ (s.can_trigger => s.clock <= Alive(n))
    BY <2>0, CallbackTrue
  <2>2. \/ UNCHANGED to_mcu
        \/ to_mcu' = [o \in Mcu |-> Append(to_mcu[o], Cmd("trigger", HostRequest))]
        \/ /\ s.can_trigger
           /\ \/ to_mcu'[b] = to_mcu[b]
              \/ to_mcu'[b] = Append(to_mcu[b], x)
    BY <1>10 DEF Callback
  <2>3. CASE to_mcu' = [o \in Mcu |-> Append(to_mcu[o], Cmd("trigger", HostRequest))]
    <3>1. ToSet(to_mcu'[b]) \subseteq ToSet(to_mcu[b]) \cup {Cmd("trigger", HostRequest)}
      BY <1>t, <2>3, CmdType, ConstantTypes, ToSetAppend
    <3> QED BY <3>1 DEF Cmd
  <2>4. CASE s.can_trigger /\ to_mcu'[b] = Append(to_mcu[b], x)
    <3>1. tdm \in [Mcu -> Dispatch] /\ t \in [Mcu -> Dispatch]
      BY <2>1 DEF TypeOK, ThreadTypes, Message, Dispatch
    <3>2. Extended(Status(t), b) \in Nat
      BY <3>1, ExtendedType
    <3>3. ASSUME NEW a \in Mcu, a # b
          PROVE  Extended(Status(t), b) <= Alive(a)' + Expire
      <4>1. Extended(Status(t), b) <= t[a].status + Expire
        BY <3>1, <3>3, ExtendedBound
      <4>2. t[a].status \in Nat /\ t[a].status <= Alive(a)
        <5>1. CASE a = n
          BY <2>1, <2>4, <3>1, <5>1 DEF Message, Dispatch
        <5>2. CASE a # n
          BY <3>1, <5>2 DEF ReportsTrue, Dispatch
        <5> QED BY <5>1, <5>2
      <4>3. Alive(a) \in Nat /\ Alive(a)' \in Nat /\ Alive(a) <= Alive(a)'
        BY AliveGrows
      <4> HIDE DEF t
      <4> QED BY <3>2, <4>1, <4>2, <4>3, TimesAssumption
    <3>4. x \in Command /\ x.cmd = "set_timeout" /\ x.arg = Extended(Status(t), b)
      BY <3>2, CmdType DEF Cmd
    <3> HIDE DEF x, t, s
    <3>5. Fine(x)
      BY <3>2, <3>3, <3>4
    <3>6. ToSet(to_mcu'[b]) \subseteq ToSet(to_mcu[b]) \cup {x}
      BY <1>t, <2>4, <3>4, ToSetAppend
    <3> HIDE DEF Fine
    <3> QED BY <3>5, <3>6
  <2> HIDE DEF Fine, s, t, x
  <2> QED BY <2>2, <2>3, <2>4
<1> HIDE DEF Goal
<1> QED BY <1>1, <1>3, <1>4, <1>5, <1>6, <1>7, <1>8, <1>9, <1>10
        DEF Next, Works, Main, Threads, WaitEnd, RemoveReader, Tick, McuHit, McuStops,
            McuReport, McuExpires, Deliver, LoseReport

(* No controller is given more time.                                       *)
LEMMA TimesStep ==
  ASSUME TypeOK, TypeOK', ReportsTrue, TimesBounded, Next
  PROVE  TimesBounded'
<1> SUFFICES ASSUME NEW a \in Mcu, NEW b \in Mcu, a # b
             PROVE  /\ trsync'[b].expire <= Alive(a)' + Expire
                    /\ \A c \in ToSet(to_mcu'[b]) :
                         c.cmd = "set_timeout" => c.arg <= Alive(a)' + Expire
  BY DEF TimesBounded
<1>1. Alive(a) \in Nat /\ Alive(a)' \in Nat /\ Alive(a) <= Alive(a)'
      /\ Expire \in Nat
  BY AliveGrows, TimesAssumption
<1>2. ASSUME NEW c \in ToSet(to_mcu[b]), c.cmd = "set_timeout"
      PROVE  c.arg \in Nat /\ c.arg <= Alive(a)' + Expire
  <2>1. c \in Command
    BY DEF ToSet, TypeOK, LinkTypes
  <2>2. c.arg \in Nat
    BY <2>1 DEF Command, Reasons
  <2>3. c.arg <= Alive(a) + Expire
    BY <1>2 DEF TimesBounded
  <2> QED BY <1>1, <2>2, <2>3
<1>3. trsync'[b].expire <= Alive(a)' + Expire
  <2>1. trsync[b].expire \in Nat /\ trsync[b].expire <= Alive(a) + Expire
    BY AliveType DEF TimesBounded
  <2> QED BY <1>1, <1>2, <2>1, ExpireStep
<1>4. ASSUME NEW c \in ToSet(to_mcu'[b]), c.cmd = "set_timeout"
      PROVE  c.arg <= Alive(a)' + Expire
  BY <1>2, <1>4, CommandsStep
<1> QED BY <1>3, <1>4

(* At the beginning nothing is known and nobody has been given time.       *)
LEMMA StopInit == Init => StopInv
<1> SUFFICES ASSUME Init PROVE StopInv
  OBVIOUS
<1>1. TypeOK
  BY TypeInit
<1>2. \A m \in Mcu : /\ trsync[m] = Off /\ stopped_at[m] = 0 /\ now = 1
                     /\ to_mcu[m] = << >> /\ to_host[m] = << >>
                     /\ callback[m] = << >> /\ tdm[m].status = 0
  BY DEF Init
<1>3. \A m \in Mcu : Alive(m) = 0 /\ ToSet(to_mcu[m]) = {}
                     /\ ToSet(to_host[m]) = {} /\ ToSet(callback[m]) = {}
                     /\ trsync[m].expire = 0
  <2>1. ToSet(<< >>) = {}
    BY ToSetShort, Zenon
  <2>2. \A m \in Mcu : ToSet(to_mcu[m]) = {} /\ ToSet(to_host[m]) = {}
                       /\ ToSet(callback[m]) = {}
    BY <1>2, <2>1
  <2>3. Off.expire = 0 /\ ~Off.can_trigger
    BY DEF Off
  <2> QED BY <1>2, <2>2, <2>3 DEF Alive
<1>4. ReportsTrue
  BY <1>2, <1>3 DEF ReportsTrue
<1>5. TimesBounded
  BY <1>3, TimesAssumption DEF TimesBounded
<1> QED BY <1>1, <1>4, <1>5 DEF StopInv

LEMMA StopStep == StopInv /\ [Next]_vars => StopInv'
<1>1. ASSUME StopInv, Next PROVE StopInv'
  <2>1. TypeOK'
    BY <1>1, TypeStep DEF StopInv
  <2> QED BY <1>1, <2>1, ReportsStep, TimesStep DEF StopInv
<1>2. ASSUME StopInv, UNCHANGED vars PROVE StopInv'
  <2>1. TypeOK'
    BY <1>2, TypeStep DEF StopInv
  <2> QED BY <1>2, <2>1
          DEF StopInv, ReportsTrue, TimesBounded, Alive, vars, mcuVars, threadVars
<1> QED BY <1>1, <1>2

LEMMA StopSafe == StopInv => StopTogether
<1> SUFFICES ASSUME StopInv, NEW a \in Mcu, NEW b \in Mcu, a # b,
                    ~trsync[a].can_trigger
             PROVE  trsync[b].expire <= stopped_at[a] + Expire
  BY DEF StopTogether
<1>1. trsync[b].expire <= Alive(a) + Expire
  BY DEF StopInv, TimesBounded
<1> QED BY <1>1 DEF Alive

(* However many controllers take part in a homing move, and whatever is    *)
(* lost or late: once one has stopped, no other has been given, or is ever *)
(* given, more than Expire of time from then on.                           *)
THEOREM HomingStopsTogether == Spec => []StopTogether
BY StopInit, StopStep, StopSafe, PTL DEF Spec

-----------------------------------------------------------------------------
(* Who has been asked at the end of a move has stopped.                    *)

\* The commands of one kind in a channel, and the acknowledgements.
Marked(s, cmd) == {i \in DOMAIN s : s[i].cmd = cmd}
Acks(s) == {i \in DOMAIN s : s[i].kind = "ack"}
Single(I) == \A i, j \in I : i = j

Queries(m) == Marked(to_mcu[m], "query")
Starts(m) == Marked(to_mcu[m], "start")
Out(m) == Acks(to_host[m])
In(m) == Acks(inbox[m])
Settled(m) == ~trsync[m].can_trigger /\ Starts(m) = {}
Open(m) == Queries(m) # {} \/ Out(m) # {} \/ In(m) # {}

\* One query or its acknowledgement is on its way, behind what starts a move.
Ordered(m) ==
  /\ Single(Queries(m)) /\ Single(Out(m)) /\ Single(In(m))
  /\ Queries(m) # {} => Out(m) = {} /\ In(m) = {}
  /\ Out(m) # {} => In(m) = {}
  /\ \A q \in Queries(m), s \in Starts(m) : s < q

\* It is the one the greenlet waits for.
Asking(m) == Open(m) => main = "answer" /\ m = k /\ ~acked

\* Its acknowledgement says that the controller has stopped, and the
\* controller then stays as it is until the next move.
Waited(m) == \/ main = "answer" /\ acked /\ m = k
             \/ main \in {"query", "answer"} /\ m < k
             \/ main = "idle" /\ round > 0 /\ outcome # "error"
Stopped(m) == Out(m) # {} \/ In(m) # {} \/ Waited(m) => Settled(m)

\* The inductive invariant of AllStopped.
AskedInv == TypeOK /\ \A m \in Mcu : Ordered(m) /\ Asking(m) /\ Stopped(m)

\* What is in a channel was there before, perhaps one place further on.
MarksKept(s, t) ==
  \E d \in {0, 1} : \A cmd \in {"query", "start"} :
    \A i \in Marked(t, cmd) : i + d \in Marked(s, cmd)
AcksKept(s, t) == \E d \in {0, 1} : \A i \in Acks(t) : i + d \in Acks(s)

(* A channel that loses its head, or gets what is of no concern.           *)
LEMMA MarksTail ==
  ASSUME NEW s \in Seq(Command), s # << >>
  PROVE  /\ \A cmd : \A i \in Marked(Tail(s), cmd) : i + 1 \in Marked(s, cmd)
         /\ \A cmd : Head(s).cmd = cmd => 1 \in Marked(s, cmd)
         /\ MarksKept(s, Tail(s))
<1>1. /\ \A cmd : \A i \in Marked(Tail(s), cmd) : i + 1 \in Marked(s, cmd)
      /\ \A cmd : Head(s).cmd = cmd => 1 \in Marked(s, cmd)
  BY DEF Marked
<1>2. 1 \in {0, 1}
  OBVIOUS
<1> QED BY <1>1, <1>2, Zenon DEF MarksKept

LEMMA AcksTail ==
  ASSUME NEW s \in Seq(Message), s # << >>
  PROVE  /\ \A i \in Acks(Tail(s)) : i + 1 \in Acks(s)
         /\ Head(s).kind = "ack" => 1 \in Acks(s)
         /\ AcksKept(s, Tail(s))
<1>1. /\ \A i \in Acks(Tail(s)) : i + 1 \in Acks(s)
      /\ Head(s).kind = "ack" => 1 \in Acks(s)
  BY DEF Acks
<1>2. 1 \in {0, 1}
  OBVIOUS
<1> QED BY <1>1, <1>2, Zenon DEF AcksKept

LEMMA Unchanged ==
  (\A s \in Seq(Command) : MarksKept(s, s)) /\ \A s \in Seq(Message) : AcksKept(s, s)
<1>1. ASSUME NEW s \in Seq(Command) PROVE MarksKept(s, s)
  <2>1. \A cmd : \A i \in Marked(s, cmd) : i + 0 \in Marked(s, cmd)
    BY DEF Marked
  <2>2. 0 \in {0, 1}
    OBVIOUS
  <2> QED BY <2>1, <2>2, Zenon DEF MarksKept
<1>2. ASSUME NEW s \in Seq(Message) PROVE AcksKept(s, s)
  <2>1. \A i \in Acks(s) : i + 0 \in Acks(s)
    BY DEF Acks
  <2>2. 0 \in {0, 1}
    OBVIOUS
  <2> QED BY <2>1, <2>2, Zenon DEF AcksKept
<1> QED BY <1>1, <1>2

LEMMA MarksConcat ==
  ASSUME NEW s \in Seq(Command), NEW t \in Seq(Command), NEW cmd
  PROVE  /\ \A i \in Marked(s \o t, cmd) :
              i \in Marked(s, cmd) \/ (i > Len(s) /\ i - Len(s) \in Marked(t, cmd))
         /\ Marked(s, cmd) \subseteq 1..Len(s)
<1>1. ASSUME NEW i \in Marked(s \o t, cmd)
      PROVE  i \in Marked(s, cmd) \/ (i > Len(s) /\ i - Len(s) \in Marked(t, cmd))
  <2>1. i \in 1..(Len(s) + Len(t)) /\ (s \o t)[i].cmd = cmd
    BY ConcatProperties DEF Marked
  <2>2. CASE i <= Len(s)
    <3>1. (s \o t)[i] = s[i] /\ i \in DOMAIN s
      BY <2>1, <2>2, ConcatProperties
    <3> QED BY <2>1, <3>1, Zenon DEF Marked
  <2>3. CASE i > Len(s)
    <3>1. (s \o t)[i] = t[i - Len(s)] /\ i - Len(s) \in DOMAIN t
      BY <2>1, <2>3, ConcatProperties
    <3> QED BY <2>1, <2>3, <3>1 DEF Marked
  <2> QED BY <2>1, <2>2, <2>3
<1>2. Marked(s, cmd) \subseteq 1..Len(s)
  BY DEF Marked
<1> QED BY <1>1, <1>2

LEMMA MarksMore ==
  ASSUME NEW s \in Seq(Command), NEW t \in Seq(Command),
         Marked(t, "query") = {}, Marked(t, "start") = {}
  PROVE  MarksKept(s, s \o t)
<1>1. ASSUME NEW cmd \in {"query", "start"}, NEW i \in Marked(s \o t, cmd)
      PROVE  i + 0 \in Marked(s, cmd)
  <2>1. i \in Marked(s, cmd)
    BY <1>1, MarksConcat
  <2>2. i + 0 = i
    BY <2>1 DEF Marked
  <2> QED BY <2>1, <2>2
<1>2. 0 \in {0, 1}
  OBVIOUS
<1> QED BY <1>1, <1>2, Zenon DEF MarksKept

LEMMA MarksAppend ==
  ASSUME NEW s \in Seq(Command), NEW c \in Command, c.cmd \notin {"query", "start"}
  PROVE  MarksKept(s, Append(s, c)) /\ MarksKept(s, s \o << c >>)
<1>1. << c >> \in Seq(Command) /\ Marked(<< c >>, "query") = {}
      /\ Marked(<< c >>, "start") = {}
  BY DEF Marked
<1>2. Append(s, c) = s \o << c >>
  OBVIOUS
<1> QED BY <1>1, <1>2, MarksMore

LEMMA AcksAppend ==
  ASSUME NEW s \in Seq(Message), NEW c \in Message
  PROVE  /\ c.kind # "ack" => AcksKept(s, Append(s, c)) /\ AcksKept(s, s \o << c >>)
         /\ Acks(s) = {} => Single(Acks(Append(s, c)))
<1>1. ASSUME NEW i \in Acks(Append(s, c))
      PROVE  i \in Acks(s) \/ (c.kind = "ack" /\ i = Len(s) + 1)
  <2>1. i \in 1..(Len(s) + 1) /\ Append(s, c)[i].kind = "ack"
    BY DEF Acks
  <2>2. CASE i <= Len(s)
    <3>1. Append(s, c)[i] = s[i] /\ i \in DOMAIN s
      BY <2>1, <2>2
    <3> QED BY <2>1, <3>1, Zenon DEF Acks
  <2>3. CASE i = Len(s) + 1
    <3>1. Append(s, c)[i] = c
      BY <2>3
    <3> QED BY <2>1, <2>3, <3>1
  <2> QED BY <2>1, <2>2, <2>3
<1>2. \A i \in Acks(s) : i + 0 = i
  BY DEF Acks
<1>3. Append(s, c) = s \o << c >> /\ 0 \in {0, 1}
  OBVIOUS
<1>4. ASSUME c.kind # "ack" PROVE AcksKept(s, Append(s, c))
  <2>1. \A i \in Acks(Append(s, c)) : i + 0 \in Acks(s)
    BY <1>1, <1>2, <1>4
  <2> QED BY <1>3, <2>1, Zenon DEF AcksKept
<1>5. Acks(s) = {} => Single(Acks(Append(s, c)))
  BY <1>1 DEF Single
<1> QED BY <1>3, <1>4, <1>5

(* The answer to a query ends with the only acknowledgement.               *)
LEMMA AcksAnswer ==
  ASSUME NEW s \in Seq(Message), NEW c \in Message, NEW d \in Message,
         Acks(s) = {}, c.kind # "ack"
  PROVE  Single(Acks(s \o << c, d >>))
<1>1. s \o << c, d >> = Append(Append(s, c), d) /\ Append(s, c) \in Seq(Message)
  OBVIOUS
<1>2. Acks(Append(s, c)) = {}
  BY DEF Acks
<1> QED BY <1>1, <1>2, AcksAppend

(* A controller whose channels only get shorter keeps its order.           *)
LinkKept(m) ==
  /\ MarksKept(to_mcu[m], to_mcu'[m])
  /\ AcksKept(to_host[m], to_host'[m]) /\ AcksKept(inbox[m], inbox'[m])

LEMMA KeptOrder ==
  ASSUME NEW m \in Mcu, Ordered(m), LinkKept(m), TypeOK, TypeOK'
  PROVE  /\ Ordered(m)'
         /\ Queries(m)' # {} => Queries(m) # {}
         /\ Starts(m)' # {} => Starts(m) # {}
         /\ Out(m)' # {} => Out(m) # {}
         /\ In(m)' # {} => In(m) # {}
<1>t. /\ to_mcu'[m] \in Seq(Command) /\ to_host'[m] \in Seq(Message)
      /\ inbox'[m] \in Seq(Message)
  BY DEF TypeOK, LinkTypes, ThreadTypes
<1>1. PICK d \in {0, 1} : /\ \A i \in Queries(m)' : i + d \in Queries(m)
                          /\ \A i \in Starts(m)' : i + d \in Starts(m)
  BY DEF LinkKept, MarksKept, Queries, Starts
<1>2. PICK e \in {0, 1} : \A i \in Out(m)' : i + e \in Out(m)
  BY DEF LinkKept, AcksKept, Out
<1>3. PICK f \in {0, 1} : \A i \in In(m)' : i + f \in In(m)
  BY DEF LinkKept, AcksKept, In
<1>4. Queries(m)' \subseteq Nat /\ Starts(m)' \subseteq Nat
      /\ Out(m)' \subseteq Nat /\ In(m)' \subseteq Nat
  BY <1>t DEF Queries, Starts, Out, In, Marked, Acks
<1>5. /\ Queries(m)' # {} => Queries(m) # {}
      /\ Starts(m)' # {} => Starts(m) # {}
      /\ Out(m)' # {} => Out(m) # {}
      /\ In(m)' # {} => In(m) # {}
  BY <1>1, <1>2, <1>3
<1>6. Single(Queries(m)') /\ Single(Out(m)') /\ Single(In(m)')
  BY <1>1, <1>2, <1>3, <1>4 DEF Ordered, Single
<1>7. \A q \in Queries(m)', s \in Starts(m)' : s < q
  BY <1>1, <1>4 DEF Ordered
<1> QED BY <1>5, <1>6, <1>7 DEF Ordered

(* What does not concern the greenlet: channels that get shorter, and      *)
(* controllers that only stop.                                             *)
LEMMA Calm ==
  ASSUME AskedInv, TypeOK', NEW m \in Mcu, LinkKept(m),
         trsync'[m].can_trigger => trsync[m].can_trigger,
         Waited(m)' => Waited(m) \/ Settled(m),
         Open(m) => (main' = "answer" /\ m = k' /\ ~acked')
  PROVE  Ordered(m)' /\ Asking(m)' /\ Stopped(m)'
<1>1. Ordered(m) /\ Asking(m) /\ Stopped(m) /\ TypeOK
  BY DEF AskedInv
<1>2. /\ Ordered(m)'
      /\ Queries(m)' # {} => Queries(m) # {}
      /\ Starts(m)' # {} => Starts(m) # {}
      /\ Out(m)' # {} => Out(m) # {}
      /\ In(m)' # {} => In(m) # {}
  BY <1>1, KeptOrder
<1>3. Asking(m)'
  BY <1>2 DEF Open, Asking
<1>4. Settled(m) => Settled(m)'
  BY <1>2 DEF Settled
<1>5. Stopped(m)'
  BY <1>1, <1>2, <1>4 DEF Stopped
<1> QED BY <1>2, <1>3, <1>5

(* While nobody waits for an answer nothing is open.                       *)
LEMMA NobodyAsked ==
  ASSUME AskedInv, main # "answer" \/ acked
  PROVE  \A m \in Mcu : ~Open(m)
BY DEF AskedInv, Asking

(* The steps, one by one.                                                  *)
LEMMA AskedExecute ==
  ASSUME AskedInv, TypeOK', NEW n \in Mcu, McuExecute(n), NEW m \in Mcu
  PROVE  Ordered(m)' /\ Asking(m)' /\ Stopped(m)'
<1> USE DEF mainVars, pythonVars
<1>0. Ordered(m) /\ Asking(m) /\ Stopped(m) /\ TypeOK
  BY DEF AskedInv
<1>t. /\ to_mcu \in [Mcu -> Seq(Command)] /\ to_host \in [Mcu -> Seq(Message)]
      /\ inbox \in [Mcu -> Seq(Message)] /\ trsync \in [Mcu -> Trsync]
      /\ stopped_at \in [Mcu -> 0..MaxTime]
  BY <1>0 DEF TypeOK, McuTypes, LinkTypes, ThreadTypes
<1>u. /\ inbox' = inbox /\ main' = main /\ k' = k /\ acked' = acked
      /\ round' = round /\ outcome' = outcome
  BY DEF McuExecute
<1>w. Waited(m)' = Waited(m)
  BY <1>u DEF Waited
<1>i. AcksKept(inbox[m], inbox'[m])
  BY <1>t, <1>u, Unchanged
<1>1. CASE m # n
  <2>1. to_mcu'[m] = to_mcu[m] /\ to_host'[m] = to_host[m] /\ trsync'[m] = trsync[m]
    BY <1>1, <1>t DEF McuExecute, Reply
  <2>2. LinkKept(m)
    BY <1>t, <1>i, <2>1, Unchanged DEF LinkKept
  <2>3. Open(m) => (main' = "answer" /\ m = k' /\ ~acked')
    BY <1>0, <1>u DEF Asking
  <2> QED BY <1>w, <2>1, <2>2, <2>3, Calm
<1>2. CASE m = n
  <2> DEFINE c == Head(to_mcu[m])
  <2>1. to_mcu[m] # << >> /\ to_mcu'[m] = Tail(to_mcu[m])
    BY <1>2, <1>t DEF McuExecute
  <2>2. /\ \A cmd : \A i \in Marked(to_mcu'[m], cmd) : i + 1 \in Marked(to_mcu[m], cmd)
        /\ \A cmd : c.cmd = cmd => 1 \in Marked(to_mcu[m], cmd)
        /\ MarksKept(to_mcu[m], to_mcu'[m])
    BY <1>t, <2>1, MarksTail
  <2>3. Open(m) => (main' = "answer" /\ m = k' /\ ~acked')
    BY <1>0, <1>u DEF Asking
  <2>4. CASE c.cmd = "start"
    <3>1. to_host' = to_host
      BY <1>2, <2>4 DEF McuExecute
    <3>2. LinkKept(m)
      BY <1>t, <1>i, <2>2, <3>1, Unchanged DEF LinkKept
    <3>3. ~Settled(m)
      BY <2>2, <2>4 DEF Settled, Starts
    <3>4. /\ Ordered(m)'
          /\ Queries(m)' # {} => Queries(m) # {}
          /\ Out(m)' # {} => Out(m) # {}
          /\ In(m)' # {} => In(m) # {}
      BY <1>0, <3>2, KeptOrder
    <3>5. Asking(m)'
      BY <2>3, <3>4 DEF Open, Asking
    <3>6. Stopped(m)'
      BY <1>0, <1>w, <3>3, <3>4 DEF Stopped
    <3> QED BY <3>4, <3>5, <3>6
  <2>5. CASE c.cmd \in {"set_timeout", "home"}
    <3>1. to_host' = to_host
      BY <1>2, <2>5 DEF McuExecute
    <3>2. LinkKept(m)
      BY <1>t, <1>i, <2>2, <3>1, Unchanged DEF LinkKept
    <3>3. trsync'[m].can_trigger => trsync[m].can_trigger
      BY <1>2, <1>t, <2>5 DEF McuExecute, Trsync
    <3> QED BY <1>w, <2>3, <3>2, <3>3, Calm
  <2>6. CASE c.cmd = "trigger"
    <3>1. PICK s : s.kind = "state" /\ to_host'[m] = to_host[m] \o << s >>
      <4>1. to_host'[m] = to_host[m] \o
              << State(FALSE, [Triggered(m, c.arg) EXCEPT !.next_report = 0].reason,
                       0, FALSE) >>
        BY <1>2, <1>t, <2>6 DEF McuExecute, Reply
      <4> QED BY <4>1 DEF State
    <3>2. AcksKept(to_host[m], to_host'[m])
      <4>1. Acks(to_host'[m]) \subseteq Acks(to_host[m])
        <5>1. ASSUME NEW i \in Acks(to_host'[m]) PROVE i \in Acks(to_host[m])
          <6>1. /\ i \in 1..(Len(to_host[m]) + 1) /\ to_host'[m][i].kind = "ack"
                /\ to_host'[m] = Append(to_host[m], s)
            BY <1>t, <3>1 DEF Acks
          <6>2. to_host'[m][Len(to_host[m]) + 1] = s
            BY <1>t, <6>1
          <6>3. i \in 1..Len(to_host[m])
            BY <1>t, <3>1, <6>1, <6>2
          <6> QED BY <1>t, <6>1, <6>3 DEF Acks
        <5> QED BY <5>1
      <4>2. \A i \in Acks(to_host'[m]) : i + 0 = i
        BY <1>t, <4>1 DEF Acks
      <4>3. 0 \in {0, 1}
        OBVIOUS
      <4>4. \A i \in Acks(to_host'[m]) : i + 0 \in Acks(to_host[m])
        BY <4>1, <4>2
      <4> QED BY <4>3, <4>4, Zenon DEF AcksKept
    <3>3. LinkKept(m)
      BY <1>i, <2>2, <3>2 DEF LinkKept
    <3>4. trsync'[m].can_trigger => trsync[m].can_trigger
      BY <1>2, <1>t, <2>6 DEF McuExecute, Triggered, Trsync
    <3> QED BY <1>w, <2>3, <3>3, <3>4, Calm
  <2>7. CASE c.cmd = "query"
    <3>1. 1 \in Queries(m) /\ Open(m) /\ Out(m) = {} /\ In(m) = {}
      BY <1>0, <2>2, <2>7 DEF Queries, Open, Ordered
    <3>2. Queries(m)' = {} /\ Starts(m)' = {}
      <4>1. Queries(m)' \subseteq Nat \ {0} /\ Starts(m)' \subseteq Nat \ {0}
        BY <1>t, <2>1 DEF Queries, Starts, Marked
      <4>2. \A i \in Queries(m)' : i + 1 = 1
        BY <1>0, <2>2, <3>1 DEF Queries, Ordered, Single
      <4>3. \A i \in Starts(m)' : i + 1 < 1
        BY <1>0, <2>2, <3>1 DEF Starts, Ordered
      <4> QED BY <4>1, <4>2, <4>3
    <3>3. Single(Out(m)')
      <4> DEFINE s == State(FALSE, [Triggered(m, c.arg) EXCEPT !.next_report = 0].reason,
                            0, TRUE)
      <4>1. to_host'[m] = to_host[m] \o << s, AckMessage >>
        BY <1>2, <1>t, <2>7 DEF McuExecute, Reply
      <4>2. c \in Command /\ c.arg \in Reasons
        BY <1>t, <2>1, <2>7 DEF Command
      <4>3. Triggered(m, c.arg) \in Trsync
        BY <1>t, <4>2, TriggeredType
      <4>4. [Triggered(m, c.arg) EXCEPT !.next_report = 0].reason \in Reasons
        BY <4>3 DEF Trsync
      <4>5. s \in Message /\ s.kind = "state"
        BY <4>4, StateType DEF State
      <4> QED BY <1>t, <3>1, <4>1, <4>5, AcksAnswer, ConstantTypes DEF Out
    <3>4. ~trsync'[m].can_trigger
      BY <1>2, <1>t, <2>7 DEF McuExecute, Triggered, Trsync
    <3>5. In(m)' = {}
      BY <1>u, <3>1 DEF In
    <3>6. Ordered(m)'
      BY <3>2, <3>3, <3>5 DEF Ordered, Single
    <3>7. Asking(m)' /\ Stopped(m)'
      BY <2>3, <3>1, <3>2, <3>4 DEF Asking, Stopped, Settled
    <3> QED BY <3>6, <3>7
  <2>8. c \in Command
    BY <1>t, <2>1
  <2>9. c.cmd \in {"start", "set_timeout", "home", "trigger", "query"}
    BY <2>8 DEF Command
  <2> QED BY <2>4, <2>5, <2>6, <2>7, <2>9
<1> QED BY <1>1, <1>2

LEMMA AskedDeliver ==
  ASSUME AskedInv, TypeOK', NEW n \in Mcu, Deliver(n), NEW m \in Mcu
  PROVE  Ordered(m)' /\ Asking(m)' /\ Stopped(m)'
<1> USE DEF mainVars, mcuVars
<1>0. Ordered(m) /\ Asking(m) /\ Stopped(m) /\ TypeOK
  BY DEF AskedInv
<1>t. /\ to_mcu \in [Mcu -> Seq(Command)] /\ to_host \in [Mcu -> Seq(Message)]
      /\ inbox \in [Mcu -> Seq(Message)]
  BY <1>0 DEF TypeOK, LinkTypes, ThreadTypes
<1>u. /\ to_mcu' = to_mcu /\ trsync' = trsync /\ main' = main /\ k' = k
      /\ acked' = acked /\ round' = round /\ outcome' = outcome
  BY DEF Deliver
<1>w. Waited(m)' = Waited(m)
  BY <1>u DEF Waited
<1>o. Open(m) => (main' = "answer" /\ m = k' /\ ~acked')
  BY <1>0, <1>u DEF Asking
<1>q. MarksKept(to_mcu[m], to_mcu'[m])
  BY <1>t, <1>u, Unchanged
<1>1. CASE m # n
  <2>1. to_host'[m] = to_host[m] /\ inbox'[m] = inbox[m]
    BY <1>1, <1>t DEF Deliver
  <2>2. LinkKept(m)
    BY <1>t, <1>q, <2>1, Unchanged DEF LinkKept
  <2> QED BY <1>u, <1>w, <1>o, <2>2, Calm
<1>2. CASE m = n
  <2> DEFINE s == Head(to_host[m])
  <2>1. /\ to_host[m] # << >> /\ to_host'[m] = Tail(to_host[m])
        /\ inbox'[m] = Append(inbox[m], s)
    BY <1>2, <1>t DEF Deliver
  <2>2. s \in Message
    BY <1>t, <2>1
  <2>3. /\ \A i \in Acks(to_host'[m]) : i + 1 \in Acks(to_host[m])
        /\ s.kind = "ack" => 1 \in Acks(to_host[m])
        /\ AcksKept(to_host[m], to_host'[m])
    BY <1>t, <2>1, AcksTail
  <2> HIDE DEF s
  <2>4. CASE s.kind # "ack"
    <3>1. AcksKept(inbox[m], inbox'[m])
      BY <1>t, <2>1, <2>2, <2>4, AcksAppend
    <3>2. LinkKept(m)
      BY <1>q, <2>3, <3>1 DEF LinkKept
    <3> QED BY <1>u, <1>w, <1>o, <3>2, Calm
  <2>5. CASE s.kind = "ack"
    <3>1. 1 \in Out(m) /\ Open(m) /\ In(m) = {} /\ Queries(m) = {}
      BY <1>0, <2>3, <2>5 DEF Out, Open, Ordered
    <3>2. Out(m)' = {}
      <4>1. Out(m)' \subseteq Nat \ {0}
        BY <1>t, <2>1 DEF Out, Acks
      <4>2. \A i \in Out(m)' : i + 1 = 1
        BY <1>0, <2>3, <3>1 DEF Out, Ordered, Single
      <4> QED BY <4>1, <4>2
    <3>3. Single(In(m)')
      BY <1>t, <2>1, <2>2, <3>1, AcksAppend DEF In
    <3>4. Queries(m)' = {} /\ Starts(m)' = Starts(m)
      BY <1>u, <3>1 DEF Queries, Starts
    <3>5. Ordered(m)'
      BY <3>2, <3>3, <3>4 DEF Ordered, Single
    <3>6. Settled(m)'
      BY <1>0, <1>u, <3>1, <3>4 DEF Stopped, Settled
    <3> QED BY <1>o, <3>1, <3>5, <3>6 DEF Asking, Stopped
  <2> QED BY <2>4, <2>5
<1> QED BY <1>1, <1>2

LEMMA AskedRead ==
  ASSUME AskedInv, TypeOK', NEW n \in Mcu, Read(n), NEW m \in Mcu
  PROVE  Ordered(m)' /\ Asking(m)' /\ Stopped(m)'
<1> USE DEF mainVars, mcuVars
<1>0. Ordered(m) /\ Asking(m) /\ Stopped(m) /\ TypeOK
  BY DEF AskedInv
<1>t. /\ to_mcu \in [Mcu -> Seq(Command)] /\ to_host \in [Mcu -> Seq(Message)]
      /\ inbox \in [Mcu -> Seq(Message)]
  BY <1>0 DEF TypeOK, LinkTypes, ThreadTypes
<1>u. /\ to_host' = to_host /\ trsync' = trsync /\ main' = main /\ k' = k
      /\ round' = round /\ outcome' = outcome
  BY DEF Read
<1>h. AcksKept(to_host[m], to_host'[m])
  BY <1>t, <1>u, Unchanged
<1>q. MarksKept(to_mcu[m], to_mcu'[m])
  <2>1. to_mcu' = to_mcu \/ Send(n, << Cmd("trigger", PastEndTime) >>)
    BY DEF Read, HandleState
  <2>2. CASE to_mcu' = to_mcu
    BY <1>t, <2>2, Unchanged
  <2>3. CASE Send(n, << Cmd("trigger", PastEndTime) >>)
    <3>1. Cmd("trigger", PastEndTime) \in Command
          /\ Cmd("trigger", PastEndTime).cmd \notin {"query", "start"}
      BY CmdType, ConstantTypes DEF Cmd
    <3>2. to_mcu'[m] = to_mcu[m]
          \/ to_mcu'[m] = to_mcu[m] \o << Cmd("trigger", PastEndTime) >>
      BY <1>t, <2>3 DEF Send
    <3> QED BY <1>t, <3>1, <3>2, Unchanged, MarksAppend
  <2> QED BY <2>1, <2>2, <2>3
<1>i. AcksKept(inbox[m], inbox'[m])
  <2>1. CASE m # n
    <3>1. inbox'[m] = inbox[m]
      BY <1>t, <2>1 DEF Read
    <3> QED BY <1>t, <3>1, Unchanged
  <2>2. CASE m = n
    <3>1. inbox[m] # << >> /\ inbox'[m] = Tail(inbox[m])
      BY <1>t, <2>2 DEF Read
    <3> QED BY <1>t, <3>1, AcksTail
  <2> QED BY <2>1, <2>2
<1>l. LinkKept(m)
  BY <1>h, <1>q, <1>i DEF LinkKept
<1>1. CASE acked' = acked
  <2>1. Waited(m)' = Waited(m)
    BY <1>1, <1>u DEF Waited
  <2>2. Open(m) => (main' = "answer" /\ m = k' /\ ~acked')
    BY <1>0, <1>1, <1>u DEF Asking
  <2> QED BY <1>u, <1>l, <2>1, <2>2, Calm
<1>2. CASE acked' # acked
  <2>1. Head(inbox[n]).kind = "ack" /\ inbox[n] # << >> /\ inbox'[n] = Tail(inbox[n])
    BY <1>2, <1>t DEF Read
  <2>2. /\ \A i \in Acks(inbox'[n]) : i + 1 \in Acks(inbox[n])
        /\ 1 \in Acks(inbox[n])
    BY <1>t, <2>1, AcksTail
  <2>3. Open(n) /\ In(n) # {} /\ Ordered(n) /\ Asking(n) /\ Stopped(n)
    BY <2>2 DEF Open, In, AskedInv
  <2>4. main = "answer" /\ n = k /\ Settled(n) /\ Queries(n) = {} /\ Out(n) = {}
    BY <2>3 DEF Asking, Stopped, Ordered
  <2>5. Acks(inbox'[n]) = {}
    <3>1. Acks(inbox'[n]) \subseteq Nat \ {0}
      BY <1>t, <2>1 DEF Acks
    <3>2. \A i \in Acks(inbox'[n]) : i + 1 = 1
      BY <2>2, <2>3 DEF In, Ordered, Single
    <3> QED BY <3>1, <3>2
  <2>6. /\ Ordered(m)'
        /\ Queries(m)' # {} => Queries(m) # {}
        /\ Starts(m)' # {} => Starts(m) # {}
        /\ Out(m)' # {} => Out(m) # {}
        /\ In(m)' # {} => In(m) # {}
    BY <1>0, <1>l, KeptOrder
  <2>7. CASE m = n
    <3>1. Settled(m)'
      BY <1>u, <2>4, <2>6, <2>7 DEF Settled
    <3>2. Queries(m)' = {} /\ Out(m)' = {} /\ In(m)' = {}
      BY <2>4, <2>5, <2>6, <2>7 DEF In
    <3> QED BY <2>6, <3>1, <3>2 DEF Open, Asking, Stopped
  <2>8. CASE m # n
    <3>1. ~Open(m)
      BY <1>0, <2>4, <2>8 DEF Asking
    <3>2. Waited(m)' => Waited(m)
      BY <1>u, <2>4, <2>8 DEF Waited
    <3> QED BY <1>u, <1>l, <3>1, <3>2, Calm
  <2> QED BY <2>7, <2>8
<1> QED BY <1>1, <1>2

(* The queries of the greenlet.                                            *)
LEMMA QueryType ==
  /\ << Cmd("query", HostRequest) >> \in Seq(Command)
  /\ Marked(<< Cmd("query", HostRequest) >>, "query") = {1}
  /\ Marked(<< Cmd("query", HostRequest) >>, "start") = {}
<1>1. Cmd("query", HostRequest) \in Command
  BY CmdType, ConstantTypes
<1> QED BY <1>1 DEF Marked, Cmd

LEMMA AskedSend ==
  ASSUME AskedInv, TypeOK', Send(k, << Cmd("query", HostRequest) >>),
         main \in {"query", "answer"}, \A n \in Mcu : ~Open(n),
         UNCHANGED <<trsync, to_host, inbox, k, round, outcome>>,
         main' = "answer", acked' = FALSE, NEW m \in Mcu
  PROVE  Ordered(m)' /\ Asking(m)' /\ Stopped(m)'
<1>0. Ordered(m) /\ Asking(m) /\ Stopped(m) /\ TypeOK /\ ~Open(m) /\ k \in Mcu
  BY DEF AskedInv, TypeOK, MainTypes
<1>t. /\ to_mcu \in [Mcu -> Seq(Command)] /\ to_host \in [Mcu -> Seq(Message)]
      /\ inbox \in [Mcu -> Seq(Message)]
  BY <1>0 DEF TypeOK, LinkTypes, ThreadTypes
<1>w. Waited(m)' => Waited(m) /\ m # k
  BY <1>0 DEF Waited, Mcu
<1>1. CASE m # k
  <2>1. to_mcu'[m] = to_mcu[m]
    BY <1>1, <1>t DEF Send
  <2>2. LinkKept(m)
    BY <1>t, <2>1, Unchanged DEF LinkKept
  <2> QED BY <1>0, <1>w, <2>2, Calm
<1>2. CASE m = k
  <2> DEFINE q == << Cmd("query", HostRequest) >>
  <2>1. to_mcu'[m] = to_mcu[m] \o q
    BY <1>0, <1>2, <1>t DEF Send
  <2>2. Queries(m) = {} /\ Out(m) = {} /\ In(m) = {}
    BY <1>0 DEF Open
  <2>3. /\ \A i \in Queries(m)' : i - Len(to_mcu[m]) \in {1}
        /\ \A i \in Starts(m)' : i \in Starts(m)
        /\ Starts(m) \subseteq 1..Len(to_mcu[m])
    BY <1>t, <2>1, <2>2, QueryType, MarksConcat DEF Queries, Starts
  <2>4. Out(m)' = {} /\ In(m)' = {}
    BY <2>2 DEF Out, In
  <2>5. to_mcu'[m] \in Seq(Command) /\ Len(to_mcu[m]) \in Nat
    BY <1>t, <2>1, QueryType, ConcatProperties
  <2>6. Queries(m)' \subseteq Nat
    BY <2>5 DEF Queries, Marked
  <2>7. \A i \in Queries(m)' : i = Len(to_mcu[m]) + 1
    BY <2>3, <2>5, <2>6
  <2>8. Ordered(m)'
    BY <2>3, <2>4, <2>5, <2>7 DEF Ordered, Single
  <2>9. Asking(m)' /\ Stopped(m)'
    BY <1>2, <1>w, <2>4 DEF Asking, Stopped
  <2> QED BY <2>8, <2>9
<1> QED BY <1>1, <1>2

(* The steps of the greenlet.                                              *)
LEMMA AskedMain ==
  ASSUME AskedInv, TypeOK', Main, NEW m \in Mcu
  PROVE  Ordered(m)' /\ Asking(m)' /\ Stopped(m)'
<1> USE DEF mcuVars, threadVars, pythonVars
<1>0. Ordered(m) /\ Asking(m) /\ Stopped(m) /\ TypeOK
  BY DEF AskedInv
<1>t. /\ to_mcu \in [Mcu -> Seq(Command)] /\ to_host \in [Mcu -> Seq(Message)]
      /\ inbox \in [Mcu -> Seq(Message)]
  BY <1>0 DEF TypeOK, LinkTypes, ThreadTypes
<1>m. k \in Mcu /\ Mcu = 1..N /\ N \in Nat \ {0}
  BY <1>0, TimesAssumption DEF TypeOK, MainTypes, Mcu
<1>1. CASE Start
  <2>1. ~Open(m) /\ main' = "readers"
    BY <1>1, NobodyAsked DEF Start
  <2>2. to_mcu'[m] = to_mcu[m] \o
          << Cmd("start", 0), Cmd("set_timeout", now + Expire) >>
        /\ to_host' = to_host /\ inbox' = inbox
    BY <1>1 DEF Start
  <2>3. now + Expire \in Nat
    BY <1>0, NowType DEF TypeOK
  <2>4. << Cmd("start", 0), Cmd("set_timeout", now + Expire) >> \in Seq(Command)
        /\ Marked(<< Cmd("start", 0), Cmd("set_timeout", now + Expire) >>, "query") = {}
    <3>1. Cmd("start", 0) \in Command /\ Cmd("set_timeout", now + Expire) \in Command
      BY <2>3, CmdType
    <3>2. Cmd("start", 0).cmd = "start"
          /\ Cmd("set_timeout", now + Expire).cmd = "set_timeout"
      BY DEF Cmd
    <3> QED BY <3>1, <3>2 DEF Marked
  <2>5. Queries(m)' = {} /\ Out(m)' = {} /\ In(m)' = {}
    <3>1. Queries(m) = {} /\ Out(m) = {} /\ In(m) = {}
      BY <2>1 DEF Open
    <3>2. Queries(m)' = {}
      BY <1>t, <2>2, <2>4, <3>1, MarksConcat DEF Queries
    <3> QED BY <2>2, <3>1, <3>2 DEF Out, In
  <2> QED BY <2>1, <2>5 DEF Ordered, Asking, Stopped, Open, Waited, Single
<1>2. CASE AddReader \/ WaitEnd \/ Stop \/ RemoveReader
  <2>1. ~Open(m)
    BY <1>2, NobodyAsked DEF AddReader, WaitEnd, Stop, RemoveReader
  <2>2. UNCHANGED <<to_host, inbox, trsync>>
    BY <1>2 DEF AddReader, WaitEnd, Stop, RemoveReader
  <2>3. MarksKept(to_mcu[m], to_mcu'[m])
    <3>1. CASE to_mcu' = to_mcu
      BY <1>t, <3>1, Unchanged
    <3>2. ASSUME NEW a \in {0, 1}, Send(1, << Cmd("home", a) >>)
          PROVE  MarksKept(to_mcu[m], to_mcu'[m])
      <4>1. Cmd("home", a) \in Command /\ Cmd("home", a).cmd \notin {"query", "start"}
        BY <3>2, CmdType DEF Cmd
      <4>2. to_mcu'[m] = to_mcu[m] \/ to_mcu'[m] = to_mcu[m] \o << Cmd("home", a) >>
        BY <1>t, <3>2 DEF Send
      <4> QED BY <1>t, <4>1, <4>2, Unchanged, MarksAppend
    <3> QED BY <1>2, <3>1, <3>2 DEF AddReader, WaitEnd, Stop, RemoveReader
  <2>4. LinkKept(m)
    BY <1>t, <2>2, <2>3, Unchanged DEF LinkKept
  <2>5. ~Waited(m)'
    <3>1. main' \in {"readers", "moving", "waiting", "remove"}
          \/ (main' = "query" /\ k' = 1)
      BY <1>2 DEF AddReader, WaitEnd, Stop, RemoveReader
    <3> QED BY <1>m, <3>1 DEF Waited
  <2> QED BY <2>1, <2>2, <2>4, <2>5, Calm
<1>3. CASE Query
  <2>1. \A n \in Mcu : ~Open(n)
    BY <1>3, NobodyAsked DEF Query
  <2>2. /\ Send(k, << Cmd("query", HostRequest) >>) /\ main \in {"query", "answer"}
        /\ UNCHANGED <<trsync, to_host, inbox, k, round, outcome>>
        /\ main' = "answer" /\ acked' = FALSE
    BY <1>3 DEF Query
  <2> QED BY <2>1, <2>2, AskedSend
<1>4. CASE Answer
  <2>1. \A n \in Mcu : ~Open(n)
    BY <1>4, NobodyAsked DEF Answer, Answered
  <2>2. main = "answer" /\ acked /\ UNCHANGED <<trsync, to_host, inbox, round>>
    BY <1>4 DEF Answer, Answered
  <2>3. CASE last_params = None /\ retries > 0
    <3>1. retries # 0
      BY <1>0, <2>3, HomingAssumption DEF TypeOK, MainTypes
    <3>2. /\ Send(k, << Cmd("query", HostRequest) >>) /\ UNCHANGED <<main, k, outcome>>
          /\ acked' = FALSE
      BY <1>4, <2>3, <3>1, Zenon DEF Answer
    <3> QED BY <2>1, <2>2, <3>2, AskedSend
  <2>4. CASE ~(last_params = None /\ retries > 0)
    <3>1. to_mcu' = to_mcu
      BY <1>4, <2>4 DEF Answer
    <3>2. LinkKept(m)
      BY <1>t, <2>2, <3>1, Unchanged DEF LinkKept
    <3>3. Waited(m)' => Waited(m)
      <4>1. \/ k < N /\ main' = "query" /\ k' = k + 1
            \/ ~(k < N) /\ main' = "idle"
            \/ main' = "idle" /\ outcome' = "error"
        BY <1>4, <2>4 DEF Answer
      <4> QED BY <1>m, <2>2, <4>1 DEF Waited
    <3> QED BY <2>1, <2>2, <3>2, <3>3, Calm
  <2> QED BY <2>3, <2>4
<1> QED BY <1>1, <1>2, <1>3, <1>4 DEF Main

(* The other steps only lose what is of no concern.                        *)
LEMMA AskedOthers ==
  ASSUME AskedInv, TypeOK', NEW m \in Mcu,
         \/ Tick \/ McuHit
         \/ \E n \in Mcu : Callback(n) \/ McuReport(n) \/ McuExpires(n) \/ LoseReport(n)
  PROVE  Ordered(m)' /\ Asking(m)' /\ Stopped(m)'
<1> USE DEF mcuVars, threadVars, pythonVars, mainVars, McuHit, McuExpires, McuStops
<1>0. Ordered(m) /\ Asking(m) /\ Stopped(m) /\ TypeOK
  BY DEF AskedInv
<1>t. /\ to_mcu \in [Mcu -> Seq(Command)] /\ to_host \in [Mcu -> Seq(Message)]
      /\ inbox \in [Mcu -> Seq(Message)] /\ trsync \in [Mcu -> Trsync]
  BY <1>0 DEF TypeOK, LinkTypes, ThreadTypes, McuTypes
<1>u. UNCHANGED <<inbox, main, k, acked, round, outcome>>
  BY DEF Tick, Callback, McuReport, LoseReport
<1>w. Waited(m)' = Waited(m)
  BY <1>u DEF Waited
<1>o. Open(m) => (main' = "answer" /\ m = k' /\ ~acked')
  BY <1>0, <1>u DEF Asking
<1>c. trsync'[m].can_trigger => trsync[m].can_trigger
  <2>1. CASE UNCHANGED trsync
    BY <2>1
  <2>2. ASSUME NEW n \in Mcu, McuReport(n)
        PROVE  trsync'[m].can_trigger => trsync[m].can_trigger
    BY <1>t, <2>2 DEF McuReport, Trsync
  <2>3. ASSUME NEW n \in Mcu, NEW r, McuStops(n, r)
        PROVE  trsync'[m].can_trigger => trsync[m].can_trigger
    BY <1>t, <2>3 DEF Triggered, Trsync
  <2>4. 1 \in Mcu
    BY ConstantTypes
  <2> QED BY <2>1, <2>2, <2>3, <2>4 DEF Tick, Callback, LoseReport
<1>q. MarksKept(to_mcu[m], to_mcu'[m])
  <2>1. CASE UNCHANGED to_mcu
    BY <1>t, <2>1, Unchanged
  <2>2. ASSUME NEW n \in Mcu, Callback(n) PROVE MarksKept(to_mcu[m], to_mcu'[m])
    <3>1. PICK c \in Command :
            /\ c.cmd \notin {"query", "start"}
            /\ to_mcu'[m] = to_mcu[m] \/ to_mcu'[m] = Append(to_mcu[m], c)
      <4> DEFINE s == callback[n][1]
                 t == [tdm EXCEPT ![n].status = s.clock]
      <4>1. CASE ~td.can_trigger
        <5>1. Cmd("trigger", HostRequest) \in Command
              /\ Cmd("trigger", HostRequest).cmd \notin {"query", "start"}
          BY CmdType, ConstantTypes DEF Cmd
        <5> QED BY <2>2, <4>1, <5>1 DEF Callback
      <4>2. CASE td.can_trigger /\ ~s.can_trigger
        <5>1. Cmd("trigger", HostRequest) \in Command
              /\ Cmd("trigger", HostRequest).cmd \notin {"query", "start"}
          BY CmdType, ConstantTypes DEF Cmd
        <5> QED BY <2>2, <4>2, <5>1 DEF Callback
      <4>3. CASE td.can_trigger /\ s.can_trigger
        <5>1. t \in [Mcu -> Dispatch]
          <6>1. callback[n] \in Seq(Message) /\ callback[n] # << >>
                /\ tdm \in [Mcu -> Dispatch]
            BY <1>0, <2>2 DEF Callback, TypeOK, ThreadTypes
          <6>2. s \in Message
            BY <6>1
          <6>3. s.clock \in Nat
            BY <6>2 DEF Message
          <6> HIDE DEF s
          <6> QED BY <6>1, <6>3 DEF Dispatch
        <5>2. Extended(Status(t), m) \in Nat
          BY <5>1, ExtendedType
        <5>3. Cmd("set_timeout", Extended(Status(t), m)) \in Command
              /\ Cmd("set_timeout", Extended(Status(t), m)).cmd \notin {"query", "start"}
          BY <5>2, CmdType DEF Cmd
        <5>4. to_mcu'[m] = to_mcu[m]
              \/ to_mcu'[m] = Append(to_mcu[m], Cmd("set_timeout", Extended(Status(t), m)))
          BY <2>2, <4>3 DEF Callback
        <5> QED BY <5>3, <5>4
      <4> QED BY <4>1, <4>2, <4>3
    <3> QED BY <1>t, <3>1, Unchanged, MarksAppend
  <2> QED BY <2>1, <2>2 DEF Tick, McuReport, LoseReport
<1>h. AcksKept(to_host[m], to_host'[m])
  <2>1. CASE UNCHANGED to_host
    BY <1>t, <2>1, Unchanged
  <2>2. ASSUME NEW n \in Mcu, LoseReport(n) PROVE AcksKept(to_host[m], to_host'[m])
    <3>1. \/ to_host'[m] = to_host[m]
          \/ to_host[m] # << >> /\ to_host'[m] = Tail(to_host[m])
      BY <1>t, <2>2 DEF LoseReport
    <3> QED BY <1>t, <3>1, Unchanged, AcksTail
  <2>3. ASSUME NEW n \in Mcu, McuReport(n) PROVE AcksKept(to_host[m], to_host'[m])
    <3> DEFINE s == State(trsync[n].can_trigger, trsync[n].reason, now, FALSE)
    <3>1. s \in Message /\ s.kind # "ack"
      <4>1. /\ trsync[n].can_trigger \in BOOLEAN /\ trsync[n].reason \in Reasons
            /\ now \in Nat /\ FALSE \in BOOLEAN
        BY <1>0, <1>t, NowType DEF Trsync, TypeOK
      <4> QED BY <4>1, StateType DEF State
    <3>2. to_host'[m] = to_host[m] \/ to_host'[m] = to_host[m] \o << s >>
      BY <1>t, <2>3 DEF McuReport, Reply
    <3> HIDE DEF s
    <3> QED BY <1>t, <3>1, <3>2, Unchanged, AcksAppend
  <2> QED BY <2>1, <2>2, <2>3 DEF Tick, Callback
<1>i. AcksKept(inbox[m], inbox'[m])
  BY <1>t, <1>u, Unchanged
<1> QED BY <1>c, <1>w, <1>o, <1>q, <1>h, <1>i, Calm DEF LinkKept

(* At the beginning nobody is asked.                                       *)
LEMMA AskedInit == Init => AskedInv
<1> SUFFICES ASSUME Init, NEW m \in Mcu
             PROVE  TypeOK /\ Ordered(m) /\ Asking(m) /\ Stopped(m)
  BY TypeInit DEF AskedInv
<1>1. /\ to_mcu[m] = << >> /\ to_host[m] = << >> /\ inbox[m] = << >>
      /\ main = "idle" /\ round = 0
  BY DEF Init
<1>2. Queries(m) = {} /\ Out(m) = {} /\ In(m) = {}
  BY <1>1 DEF Queries, Out, In, Marked, Acks
<1> QED BY <1>1, <1>2, TypeInit
        DEF Ordered, Asking, Stopped, Open, Waited, Single

LEMMA AskedStep == AskedInv /\ [Next]_vars => AskedInv'
<1>1. ASSUME AskedInv, Next PROVE AskedInv'
  <2>1. TypeOK'
    BY <1>1, TypeStep DEF AskedInv
  <2>2. ASSUME NEW m \in Mcu PROVE Ordered(m)' /\ Asking(m)' /\ Stopped(m)'
    BY <1>1, <2>1, AskedMain, AskedOthers, AskedExecute, AskedDeliver, AskedRead
       DEF Next, Works, Threads
  <2> QED BY <2>1, <2>2 DEF AskedInv
<1>2. ASSUME AskedInv, UNCHANGED vars PROVE AskedInv'
  <2>1. TypeOK'
    BY <1>2, TypeStep DEF AskedInv
  <2> QED BY <1>2, <2>1
          DEF AskedInv, Ordered, Asking, Stopped, Open, Waited, Settled, Queries,
              Starts, Out, In, vars, mcuVars, pythonVars, mainVars
<1> QED BY <1>1, <1>2

(* When a homing move has ended and nobody failed to answer, every         *)
(* controller has stopped: mcu.py asks each one in turn (278-285), and the *)
(* answer to a query cannot come from a controller that has yet to start.  *)
THEOREM AllHaveStopped == Spec => []AllStopped
<1>1. AskedInv => AllStopped
  BY DEF AskedInv, Stopped, Waited, Settled, AllStopped
<1> QED BY <1>1, AskedInit, AskedStep, PTL DEF Spec

====
