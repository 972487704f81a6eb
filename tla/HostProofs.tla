------------------------------ MODULE HostProofs ------------------------------
(***************************************************************************)
(* What is proved of the host program: a printer that is ready runs on     *)
(* controllers that are, and a shutdown reaches all of them; the lines of  *)
(* the input run once; heaters keep their power and faults are found; and  *)
(* subscribers know the status of the last query.                          *)
(***************************************************************************)
EXTENDS Lifecycle, GCodeInput, Heater, VerifyHeater, Webhooks, SequenceTheorems, TLAPS

-----------------------------------------------------------------------------
(* The life of the printer.                                                *)

Connecting == stage \in {"connect", "configure", "check"}

\* Connecting goes through the controllers in their order, first to identify
\* them all; at one that had no configuration it may stay twice.
InOrderOfMcus ==
  /\ stage = "identify" => identified = {m \in Mcus : m < next_mcu}
  /\ Connecting \/ state = "ready" => identified = Mcus
  /\ stage \in {"configure", "check"} => next_mcu \in Mcus
  /\ stage = "configure" => mcu_config[next_mcu] = Unset
  /\ stage = "check" => mcu_config[next_mcu] \in {Unset, config}
  /\ state = "ready" => stage = "over"
  /\ in_use \subseteq identified

\* Controllers that _connect is done with.
Taken(m) == (Connecting /\ m < next_mcu) \/ state = "ready"

\* What they are, as long as nothing went wrong; and that a report of a
\* shutdown is never lost.
TakenAreSound ==
  /\ state \in {"startup", "ready"} =>
       /\ ~in_shutdown
       /\ \A m \in Mcus \ restarted : Taken(m) =>
            mcu_config[m] = config /\ (mcu_down[m] => m \in reports \/ called)
  /\ is_shutdown # {} => called \/ in_shutdown

\* Stops are sent by a shutdown only, to all that are not known to be down.
StopsReach ==
  /\ stops # {} => in_shutdown
  /\ \A m \in (reports \cup is_shutdown) \ restarted : mcu_down[m]
  /\ in_shutdown => \A m \in in_use \ restarted : Down(m)
  /\ (in_shutdown /\ stage \in {"configure", "check"} /\ next_mcu \notin restarted)
       => Down(next_mcu)

LifeInv == LifeTypes /\ InOrderOfMcus /\ TakenAreSound /\ StopsReach

LEMMA LifeInvInit == LifeInit => LifeInv
<1> SUFFICES ASSUME LifeInit PROVE LifeInv
  OBVIOUS
<1>1. LifeTypes
  <2>1. mcu_config \in [Mcus -> Configs \cup {Unset}] /\ mcu_down \in [Mcus -> BOOLEAN]
    BY DEF LifeInit
  <2>2. next_mcu \in 1..(NumMcus + 1)
    BY LifeAssumption DEF LifeInit
  <2>3. start_reason = "startup" /\ stage = "identify" /\ run_result = "none" /\ state = "startup"
    BY DEF LifeInit
  <2>4. in_shutdown \in BOOLEAN /\ called \in BOOLEAN /\ config \in Configs
    BY DEF LifeInit
  <2> QED  BY <2>1, <2>2, <2>3, <2>4 DEF LifeInit, LifeTypes
<1>2. InOrderOfMcus /\ TakenAreSound /\ StopsReach
  <2>1. next_mcu = 1
    BY DEF LifeInit
  <2>2. {m \in Mcus : m < next_mcu} = {}
    BY <2>1 DEF Mcus
  <2>3. InOrderOfMcus
    BY <2>2 DEF LifeInit, InOrderOfMcus, Connecting
  <2> QED  BY <2>3 DEF LifeInit, TakenAreSound, StopsReach, Taken, Connecting
<1> QED  BY <1>1, <1>2 DEF LifeInv

LEMMA LifeInvStep == LifeInv /\ [LifeNext]_lifeVars => LifeInv'
<1> SUFFICES ASSUME LifeInv, [LifeNext]_lifeVars PROVE LifeInv'
  OBVIOUS
<1> USE LifeAssumption DEF LifeAssumption
<1>1. CASE McuShutsDown
  <2>1. LifeTypes'
    BY <1>1 DEF McuShutsDown, McuGoesDown, LifeInv, LifeTypes, hostState
  <2>2. InOrderOfMcus'
    BY <1>1 DEF McuShutsDown, McuGoesDown, LifeInv, LifeTypes, InOrderOfMcus, hostState, Connecting
  <2>3. TakenAreSound'
    BY <1>1 DEF McuShutsDown, McuGoesDown, LifeInv, LifeTypes, InOrderOfMcus, hostState, Connecting, TakenAreSound, Taken
  <2>4. StopsReach'
    BY <1>1 DEF McuShutsDown, McuGoesDown, LifeInv, LifeTypes, InOrderOfMcus, hostState, Connecting, StopsReach, Down
  <2> QED  BY <2>1, <2>2, <2>3, <2>4 DEF LifeInv
<1>2. CASE McuTakesStop
  <2>1. LifeTypes'
    BY <1>2 DEF McuTakesStop, McuGoesDown, LifeInv, LifeTypes, hostState
  <2>2. InOrderOfMcus'
    BY <1>2 DEF McuTakesStop, McuGoesDown, LifeInv, LifeTypes, InOrderOfMcus, hostState, Connecting
  <2>3. TakenAreSound'
    BY <1>2 DEF McuTakesStop, McuGoesDown, LifeInv, LifeTypes, InOrderOfMcus, hostState, Connecting, TakenAreSound, Taken, StopsReach
  <2>4. StopsReach'
    BY <1>2 DEF McuTakesStop, McuGoesDown, LifeInv, LifeTypes, InOrderOfMcus, hostState, Connecting, StopsReach, Down
  <2> QED  BY <2>1, <2>2, <2>3, <2>4 DEF LifeInv
<1>3. CASE McuRestarts
  <2>1. LifeTypes'
    BY <1>3 DEF McuRestarts, LifeInv, LifeTypes
  <2>2. InOrderOfMcus'
    BY <1>3 DEF McuRestarts, LifeInv, LifeTypes, InOrderOfMcus, Connecting
  <2>3. TakenAreSound'
    BY <1>3 DEF McuRestarts, LifeInv, LifeTypes, InOrderOfMcus, Connecting, TakenAreSound, Taken
  <2>4. StopsReach'
    BY <1>3 DEF McuRestarts, LifeInv, LifeTypes, InOrderOfMcus, Connecting, StopsReach, Down
  <2> QED  BY <2>1, <2>2, <2>3, <2>4 DEF LifeInv
<1>4. CASE HandleShutdown
  <2>1. LifeTypes'
    BY <1>4 DEF HandleShutdown, mcuState, LifeInv, LifeTypes
  <2>2. InOrderOfMcus'
    BY <1>4 DEF HandleShutdown, mcuState, LifeInv, LifeTypes, InOrderOfMcus, Connecting
  <2>3. TakenAreSound'
    BY <1>4 DEF HandleShutdown, mcuState, LifeInv, LifeTypes, InOrderOfMcus, Connecting, TakenAreSound, StopsReach, Taken, Down
  <2>4. StopsReach'
    BY <1>4 DEF HandleShutdown, mcuState, LifeInv, LifeTypes, InOrderOfMcus, Connecting, TakenAreSound, StopsReach, Down
  <2> QED  BY <2>1, <2>2, <2>3, <2>4 DEF LifeInv
<1>5. CASE HandleStarting
  BY <1>5 DEF HandleStarting, LifeInv, LifeTypes, InOrderOfMcus, TakenAreSound, StopsReach, Taken, Connecting, Down, mcuState
<1>6. CASE InvokeShutdown
  <2>1. LifeTypes'
    BY <1>6 DEF InvokeShutdown, LifeInv, LifeTypes, mcuState, SetError, ToStop
  <2>2. InOrderOfMcus'
    BY <1>6 DEF InvokeShutdown, LifeInv, LifeTypes, InOrderOfMcus, mcuState, SetError, ToStop, Connecting
  <2>3. TakenAreSound'
    BY <1>6 DEF InvokeShutdown, LifeInv, LifeTypes, InOrderOfMcus, mcuState, SetError, ToStop, Connecting, TakenAreSound, Taken
  <2>4. StopsReach'
    BY <1>6 DEF InvokeShutdown, LifeInv, LifeTypes, InOrderOfMcus, mcuState, SetError, ToStop, Connecting, TakenAreSound, StopsReach, Down
  <2> QED  BY <2>1, <2>2, <2>3, <2>4 DEF LifeInv
<1>7. CASE McuIdentify
  BY <1>7 DEF McuIdentify, connecting, Fail, GoOn, SetError, atHost, LifeInv, LifeTypes, InOrderOfMcus, TakenAreSound, StopsReach, Taken, Connecting, Down, mcuState, Mcus
<1>8. CASE Identified
  <2>1. LifeTypes'
    BY <1>8 DEF Identified, atHost, mcuState, Mcus, LifeInv, LifeTypes
  <2>2. InOrderOfMcus'
    <3>1. \A m \in Mcus : m < next_mcu
      BY <1>8 DEF Identified, LifeInv, LifeTypes, Mcus
    <3>2. identified = Mcus
      BY <1>8, <3>1 DEF Identified, LifeInv, InOrderOfMcus
    <3> QED  BY <1>8, <3>2 DEF Identified, atHost, mcuState, LifeInv, InOrderOfMcus, Connecting
  <2>3. TakenAreSound'
    BY <1>8 DEF Identified, atHost, mcuState, Mcus, LifeInv, LifeTypes, InOrderOfMcus, Connecting, TakenAreSound, StopsReach, Taken, Down
  <2>4. StopsReach'
    BY <1>8 DEF Identified, atHost, mcuState, Mcus, LifeInv, LifeTypes, InOrderOfMcus, Connecting, TakenAreSound, StopsReach, Down
  <2> QED  BY <2>1, <2>2, <2>3, <2>4 DEF LifeInv
<1>9. CASE ConnectStops
  BY <1>9 DEF ConnectStops, atHost, LifeInv, LifeTypes, InOrderOfMcus, TakenAreSound, StopsReach, Taken, Connecting, Down, mcuState, Mcus
<1>10. CASE ConnectMcu
  <2>1. LifeTypes'
    BY <1>10 DEF ConnectMcu, connecting, Fail, GoOn, SetError, atHost, LifeInv, LifeTypes, mcuState, Mcus
  <2>2. InOrderOfMcus'
    BY <1>10 DEF ConnectMcu, connecting, Fail, GoOn, SetError, atHost, LifeInv, LifeTypes, InOrderOfMcus, mcuState, Mcus, Connecting
  <2>3. TakenAreSound'
    BY <1>10 DEF ConnectMcu, connecting, Fail, GoOn, SetError, atHost, LifeInv, LifeTypes, InOrderOfMcus, mcuState, Mcus, Connecting, TakenAreSound, Taken, Unusable, Down
  <2>4. StopsReach'
    BY <1>10 DEF ConnectMcu, connecting, Fail, GoOn, SetError, atHost, LifeInv, LifeTypes, InOrderOfMcus, mcuState, Mcus, Connecting, TakenAreSound, StopsReach, Down
  <2> QED  BY <2>1, <2>2, <2>3, <2>4 DEF LifeInv
<1>11. CASE SendConfig
  <2>1. LifeTypes'
    BY <1>11 DEF SendConfig, connecting, atHost, LifeInv, LifeTypes, Mcus
  <2>2. InOrderOfMcus'
    BY <1>11 DEF SendConfig, connecting, atHost, LifeInv, LifeTypes, InOrderOfMcus, Mcus, Connecting
  <2>3. TakenAreSound'
    BY <1>11 DEF SendConfig, connecting, atHost, LifeInv, LifeTypes, InOrderOfMcus, Mcus, Connecting, TakenAreSound, Taken
  <2>4. StopsReach'
    BY <1>11 DEF SendConfig, connecting, atHost, LifeInv, LifeTypes, InOrderOfMcus, Mcus, Connecting, StopsReach, Down
  <2> QED  BY <2>1, <2>2, <2>3, <2>4 DEF LifeInv
<1>12. CASE CheckConfigured
  BY <1>12 DEF CheckConfigured, connecting, Fail, GoOn, SetError, atHost, LifeInv, LifeTypes, InOrderOfMcus, TakenAreSound, StopsReach, Taken, Connecting, Down, Unusable, mcuState, Mcus
<1>13. CASE SetReady
  BY <1>13 DEF SetReady, atHost, LifeInv, LifeTypes, InOrderOfMcus, TakenAreSound, StopsReach, Taken, Connecting, Down, mcuState, Mcus
<1>14. CASE RequestExit
  BY <1>14 DEF RequestExit, atHost, LifeInv, LifeTypes, InOrderOfMcus, TakenAreSound, StopsReach, Taken, Connecting, Down, mcuState, Mcus
<1>15. CASE RunEnds
  <2>1. LifeTypes'
    <3>1. mcu_config' \in [Mcus -> Configs \cup {Unset}]
      BY <1>15 DEF RunEnds, LifeInv, LifeTypes
    <3>2. mcu_down' \in [Mcus -> BOOLEAN]
      BY <1>15 DEF RunEnds, Down, LifeInv, LifeTypes
    <3>3. in_shutdown' \in BOOLEAN /\ called' \in BOOLEAN
      BY <1>15 DEF RunEnds, Fresh
    <3>4. config' \in Configs /\ next_mcu' \in 1..(NumMcus + 1)
      BY <1>15 DEF RunEnds, Fresh, LifeInv, LifeTypes
    <3>5. start_reason' \in {"startup", "restart", "firmware_restart"}
      BY <1>15 DEF RunEnds, LifeInv, LifeTypes
    <3>6. stage' \in {"identify", "exited"}
      BY <1>15 DEF RunEnds
    <3> QED  BY <1>15, <3>1, <3>2, <3>3, <3>4, <3>5, <3>6 DEF RunEnds, Fresh, LifeTypes
  <2>2. InOrderOfMcus'
    <3>1. next_mcu' = 1
      BY <1>15 DEF RunEnds, Fresh
    <3>2. {m \in Mcus : m < next_mcu'} = {}
      BY <3>1 DEF Mcus
    <3>3. identified' = {} /\ in_use' = {} /\ state' = "startup"
          /\ stage' \in {"identify", "exited"}
      BY <1>15 DEF RunEnds, Fresh
    <3> QED  BY <3>2, <3>3 DEF InOrderOfMcus, Connecting
  <2>3. TakenAreSound'
    BY <1>15 DEF RunEnds, Fresh, Mcus, LifeInv, LifeTypes, InOrderOfMcus, Connecting, TakenAreSound, StopsReach, Taken, Down
  <2>4. StopsReach'
    BY <1>15 DEF RunEnds, Fresh, Mcus, LifeInv, LifeTypes, InOrderOfMcus, Connecting, TakenAreSound, StopsReach, Down
  <2> QED  BY <2>1, <2>2, <2>3, <2>4 DEF LifeInv
<1>16. CASE UNCHANGED lifeVars
  BY <1>16 DEF lifeVars, hostState, mcuState, LifeInv, LifeTypes, InOrderOfMcus, TakenAreSound, StopsReach, Taken, Connecting, Down
<1> QED
  BY <1>1, <1>2, <1>3, <1>4, <1>5, <1>6, <1>7, <1>8, <1>9, <1>10, <1>11, <1>12,
     <1>13, <1>14, <1>15, <1>16 DEF LifeNext

\* A printer that is ready runs on controllers that have its configuration
\* and have not shut down unheard; and a shutdown at any point of connecting
\* reaches every controller in use (klippy.py:128-168, 205-218): for any
\* number of controllers, and any configurations they had before.
THEOREM PrinterIsSound == LifeSpec => []LifecycleSound
<1>1. LifeInv => LifecycleSound
  BY DEF LifeInv, LifecycleSound, ReadyIsRunning, ShutdownReachesAll, TakenAreSound, StopsReach, Taken, Down
<1> QED  BY <1>1, LifeInvInit, LifeInvStep, PTL DEF LifeSpec

-----------------------------------------------------------------------------
(* The lines of the terminal.                                              *)

LEMMA LinesAssociate ==
  ASSUME NEW a \in Seq(Nat), NEW b \in Seq(Nat), NEW c \in Seq(Nat)
  PROVE  (a \o b) \o c = a \o (b \o c)
  BY SMTT(30), ConcatAssociative

\* Lines that stand for those sent up to the k-th.
Stands(lines, k, lost) ==
  /\ InOrder(lines)
  /\ {lines[i] : i \in DOMAIN lines} \ {Mangled} = (1..k) \ lost

LEMMA StandsIs ==
  ASSUME NEW lines \in Seq(Nat), NEW k \in Nat, NEW lost \in SUBSET Nat
  PROVE  Stands(lines, k, lost) <=>
           /\ \A i, j \in 1..Len(lines) :
                i < j /\ lines[i] # 0 /\ lines[j] # 0 => lines[i] < lines[j]
           /\ \A i \in 1..Len(lines) : lines[i] # 0 => lines[i] <= k /\ lines[i] \notin lost
           /\ \A l \in (1..k) \ lost : \E i \in 1..Len(lines) : lines[i] = l
<1>1. DOMAIN lines = 1..Len(lines) /\ Len(lines) \in Nat
      /\ \A i \in 1..Len(lines) : lines[i] \in Nat
  BY ElementOfSeq, LenProperties
<1>2. ({lines[i] : i \in 1..Len(lines)} \ {0} = (1..k) \ lost) <=>
        /\ \A i \in 1..Len(lines) : lines[i] # 0 => lines[i] <= k /\ lines[i] \notin lost
        /\ \A l \in (1..k) \ lost : \E i \in 1..Len(lines) : lines[i] = l
  BY <1>1
<1> QED  BY <1>1, <1>2 DEF Stands, InOrder, Mangled

\* The next n lines join them, the first of which may be lost.
LEMMA MoreLines ==
  ASSUME NEW lines \in Seq(Nat), NEW more \in Seq(Nat), NEW k \in Nat, NEW n \in Nat,
         NEW lost \in SUBSET 1..(k + 1), Stands(lines, k, lost), Len(more) = n,
         \A i \in 1..n : more[i] = IF i = 1 /\ k + 1 \in lost THEN 0 ELSE k + i
  PROVE  Stands(lines \o more, k + n, lost)
<1> DEFINE all == lines \o more
           m == Len(lines)
<1>1. /\ all \in Seq(Nat) /\ Len(all) = m + n /\ m \in Nat /\ lost \in SUBSET Nat
      /\ \A i \in 1..(m + n) : all[i] = IF i <= m THEN lines[i] ELSE more[i - m]
  <2>1. /\ all \in Seq(Nat) /\ Len(all) = m + Len(more)
        /\ \A i \in 1..(m + Len(more)) : all[i] = IF i <= m THEN lines[i] ELSE more[i - m]
    BY ConcatProperties
  <2>2. m \in Nat
    BY LenProperties
  <2>3. lost \in SUBSET Nat
    OBVIOUS
  <2> HIDE DEF all, m
  <2> QED  BY <2>1, <2>2, <2>3
<1>2. /\ \A i, j \in 1..m :
           i < j /\ lines[i] # 0 /\ lines[j] # 0 => lines[i] < lines[j]
      /\ \A i \in 1..m : lines[i] # 0 => lines[i] <= k /\ lines[i] \notin lost
      /\ \A l \in (1..k) \ lost : \E i \in 1..m : lines[i] = l
  BY <1>1, StandsIs
<1>3. \A i \in 1..m : lines[i] \in Nat
  BY ElementOfSeq
<1>4. \A i \in 1..(m + n) : i > m =>
        /\ i - m \in 1..n
        /\ all[i] # 0 => all[i] = k + (i - m) /\ all[i] \notin lost
  BY <1>1
<1> HIDE DEF all, m
<1>5. \A i \in 1..(m + n) : i <= m => i \in 1..m /\ all[i] = lines[i]
  BY <1>1
<1>6. \A i, j \in 1..(m + n) : i < j /\ all[i] # 0 /\ all[j] # 0 => all[i] < all[j]
  <2> SUFFICES ASSUME NEW i \in 1..(m + n), NEW j \in 1..(m + n), i < j,
                      all[i] # 0, all[j] # 0
               PROVE  all[i] < all[j]
    OBVIOUS
  <2>1. CASE j <= m
    <3>1. i <= m
      BY <1>1, <2>1
    <3>2. i \in 1..m /\ j \in 1..m /\ all[i] = lines[i] /\ all[j] = lines[j]
      BY <1>5, <2>1, <3>1
    <3> QED  BY <1>2, <3>2
  <2>2. CASE i <= m /\ j > m
    <3>1. all[i] <= k /\ all[i] \in Nat
      BY <1>2, <1>3, <1>5, <2>2
    <3>2. all[j] = k + (j - m) /\ j - m \in 1..n
      BY <1>4, <2>2
    <3> QED  BY <3>1, <3>2
  <2>3. CASE i > m
    <3>1. j > m
      BY <1>1, <2>3
    <3>2. all[i] = k + (i - m) /\ all[j] = k + (j - m)
      BY <1>4, <2>3, <3>1
    <3> QED  BY <1>1, <3>2
  <2> QED  BY <1>1, <2>1, <2>2, <2>3
<1>7. \A i \in 1..(m + n) : all[i] # 0 => all[i] <= k + n /\ all[i] \notin lost
  <2> SUFFICES ASSUME NEW i \in 1..(m + n), all[i] # 0
               PROVE  all[i] <= k + n /\ all[i] \notin lost
    OBVIOUS
  <2>1. CASE i <= m
    BY <1>2, <1>3, <1>5, <2>1
  <2>2. CASE i > m
    BY <1>1, <1>4, <2>2
  <2> QED  BY <1>1, <2>1, <2>2
<1>8. \A l \in (1..(k + n)) \ lost : \E i \in 1..(m + n) : all[i] = l
  <2> SUFFICES ASSUME NEW l \in 1..(k + n), l \notin lost
               PROVE  \E i \in 1..(m + n) : all[i] = l
    OBVIOUS
  <2>1. CASE l <= k
    <3>1. PICK i \in 1..m : lines[i] = l
      BY <1>2, <2>1
    <3>2. i \in 1..(m + n) /\ all[i] = lines[i]
      BY <1>1, <1>5, <3>1
    <3> QED  BY <3>1, <3>2
  <2>2. CASE l > k
    <3>1. /\ l - k \in 1..n /\ k + (l - k) = l
          /\ m + (l - k) \in 1..(m + n) /\ m + (l - k) > m /\ (m + (l - k)) - m = l - k
      BY <1>1, <2>2
    <3>2. all[m + (l - k)] = more[l - k]
      BY <1>1, <3>1
    <3>3. more[l - k] = l
      BY <3>1
    <3> QED  BY <3>1, <3>2, <3>3
  <2> QED  BY <2>1, <2>2
<1>9. Stands(all, k + n, lost)
  <2>1. k + n \in Nat /\ Len(all) = m + n /\ all \in Seq(Nat) /\ lost \in SUBSET Nat
    BY <1>1
  <2>2. Stands(all, k + n, lost) <=>
          /\ \A i, j \in 1..Len(all) : i < j /\ all[i] # 0 /\ all[j] # 0 => all[i] < all[j]
          /\ \A i \in 1..Len(all) : all[i] # 0 => all[i] <= k + n /\ all[i] \notin lost
          /\ \A l \in (1..(k + n)) \ lost : \E i \in 1..Len(all) : all[i] = l
    BY ONLY <2>1, StandsIs
  <2>3. Len(all) = m + n
    BY <2>1
  <2> QED  BY ONLY <1>6, <1>7, <1>8, <2>2, <2>3
<1>10. lines \o more = all
  BY DEF all
<1> HIDE DEF all
<1> QED  BY ONLY <1>9, <1>10

\* Those that are spoiled need not be there.
LEMMA FewerLines ==
  ASSUME NEW lines \in Seq(Nat), NEW k \in Nat, NEW n \in Nat, NEW last \in Nat,
         NEW lost \in SUBSET Nat, Stands(lines, k, lost), k + n <= last
  PROVE  Stands(lines, k + n, lost \cup ((k + 1)..last))
<1>1. (1..(k + n)) \ (lost \cup ((k + 1)..last)) = (1..k) \ lost
  OBVIOUS
<1> QED  BY <1>1 DEF Stands

\* What was read is done, being done or pending, and when the loop is not under
\* way nothing is left of it.  The next line is spoiled if partial_input does
\* not have its beginning, and none after it is.
InputInv ==
  /\ InputTypes
  /\ spoiled \subseteq 1..(bytes_read + 1)
  /\ bytes_read + 1 \in spoiled <=> partial_input \in {"torn", "cut"}
  /\ Stands(AllLines, bytes_read, spoiled)
  /\ ~is_processing_data => fd_handle /\ batch = << >> /\ pending_commands = << >>
  /\ gcode_mutex = "loop" => is_processing_data

LEMMA InputInvInit == InputInit => InputInv
<1> SUFFICES ASSUME InputInit PROVE InputInv
  OBVIOUS
<1>1. executed = << >> /\ batch = << >> /\ pending_commands = << >> /\ bytes_read = 0
      /\ spoiled = {} /\ partial_input = "none"
  BY DEF InputInit
<1>2. InputTypes
  <2>1. is_processing_data \in BOOLEAN
        /\ fd_handle \in BOOLEAN /\ gcode_shutdown \in BOOLEAN
    BY DEF InputInit
  <2> QED  BY <1>1, <2>1, InputAssumption DEF InputInit, InputTypes
<1>3. AllLines = << >>
  <2>1. (<< >> \o << >>) \o << >> = << >>
    BY ConcatEmptySeq, EmptySeq
  <2> QED  BY <1>1, <2>1 DEF AllLines
<1>4. Stands(<< >>, 0, {})
  BY DEF Stands, InOrder
<1>5. is_processing_data = FALSE /\ fd_handle = TRUE /\ gcode_mutex = "free"
  BY DEF InputInit
<1> QED  BY <1>1, <1>2, <1>3, <1>4, <1>5 DEF InputInv

LEMMA InputInvStep == InputInv /\ [InputNext]_inputVars => InputInv'
<1> SUFFICES ASSUME InputInv, [InputNext]_inputVars PROVE InputInv'
  OBVIOUS
<1> USE InputAssumption
<1>t. /\ executed \in Seq(Nat) /\ batch \in Seq(Nat) /\ pending_commands \in Seq(Nat)
      /\ bytes_read \in Nat /\ spoiled \in SUBSET Nat
      /\ partial_input \in {"none", "begin", "torn", "cut"}
      /\ is_processing_data \in BOOLEAN
      /\ fd_handle \in BOOLEAN /\ gcode_shutdown \in BOOLEAN
  BY DEF InputInv, InputTypes
<1>a. executed \o batch \in Seq(Nat) /\ AllLines \in Seq(Nat)
  BY <1>t, ConcatProperties DEF AllLines
<1>1. CASE ProcessData
  <2>1. PICK n \in 0..MaxPiece, partial \in BOOLEAN :
          LET lines == NextLines(n)
              pending == pending_commands \o lines
              early == (is_processing_data \/ Len(pending) > 1) /\ Len(pending) < MaxPending
          IN /\ bytes_read + n <= LastLine
             /\ n > 0 \/ partial
             /\ bytes_read' = bytes_read + n /\ partial_input' = PartialAfter(n, partial)
             /\ \E m112 \in HasM112(lines) :
                  gcode_shutdown' = (gcode_shutdown \/ (early /\ m112))
             /\ IF is_processing_data
                THEN /\ pending_commands' = pending
                     /\ fd_handle' = (Len(pending) < MaxPending)
                     /\ UNCHANGED <<batch, is_processing_data>>
                ELSE /\ batch' = pending /\ is_processing_data' = (pending # << >>)
                     /\ pending_commands' = << >> /\ UNCHANGED fd_handle
             /\ UNCHANGED <<gcode_mutex, executed, spoiled>>
    BY <1>1 DEF ProcessData
  <2> DEFINE lines == NextLines(n)
             pending == pending_commands \o lines
  <2>2. /\ lines \in Seq(Nat) /\ Len(lines) = n /\ n \in Nat
        /\ \A i \in 1..n : lines[i] = IF i = 1 /\ bytes_read + 1 \in spoiled THEN 0
                                      ELSE bytes_read + i
    BY <1>t DEF NextLines, Mangled, InputInv
  <2>3. pending \in Seq(Nat)
    BY <1>t, <2>2, ConcatProperties
  <2>4. /\ is_processing_data' \in BOOLEAN
        /\ fd_handle' \in BOOLEAN /\ gcode_shutdown' \in BOOLEAN
    <3>1. gcode_shutdown' \in BOOLEAN
      <4>1. PICK m112 \in HasM112(lines) : gcode_shutdown' = (gcode_shutdown \/
               (((is_processing_data \/ Len(pending) > 1) /\ Len(pending) < MaxPending)
                /\ m112))
        BY <2>1
      <4> QED  BY <4>1
    <3>2. CASE is_processing_data
      <4>1. is_processing_data' = is_processing_data
        BY <2>1, <3>2
      <4>2. fd_handle' = (Len(pending) < MaxPending)
        BY <2>1, <3>2
      <4>3. fd_handle' \in BOOLEAN
        BY <4>2
      <4> QED  BY <1>t, <2>1, <3>1, <4>1, <4>3
    <3>3. CASE ~is_processing_data
      <4>1. is_processing_data' = (pending # << >>)
        BY <2>1, <3>3
      <4>2. is_processing_data' \in BOOLEAN
        BY <4>1
      <4>3. fd_handle' = fd_handle
        BY <2>1, <3>3
      <4> QED  BY <1>t, <2>1, <3>1, <4>2, <4>3
    <3> QED  BY <3>2, <3>3
  <2>5. bytes_read' \in 0..LastLine /\ gcode_mutex' \in {"free", "loop", "other"}
    BY <1>t, <2>1 DEF InputInv, InputTypes
  <2>6. /\ executed' \in Seq(Nat) /\ batch' \in Seq(Nat) /\ pending_commands' \in Seq(Nat)
    BY <1>t, <2>1, <2>3, EmptySeq
  <2>7. Stands(AllLines \o lines, bytes_read', spoiled')
    <3>1. bytes_read' = bytes_read + n /\ spoiled' = spoiled
      BY <2>1
    <3>2. Stands(AllLines \o lines, bytes_read + n, spoiled)
      BY <1>t, <1>a, <2>2, MoreLines DEF InputInv
    <3> QED  BY <3>1, <3>2
  <2>8. AllLines' = AllLines \o lines
    <3>1. CASE is_processing_data
      <4>1. /\ pending_commands' = pending_commands \o lines
            /\ batch' = batch /\ executed' = executed
        BY <2>1, <3>1
      <4> HIDE DEF lines, pending
      <4>2. ((executed \o batch) \o pending_commands) \o lines
              = (executed \o batch) \o (pending_commands \o lines)
        <5>1. /\ executed \o batch \in Seq(Nat) /\ pending_commands \in Seq(Nat)
              /\ lines \in Seq(Nat)
          BY <1>t, <2>2, ConcatProperties
        <5> QED  BY ONLY <5>1, LinesAssociate
      <4> QED  BY <4>1, <4>2 DEF AllLines
    <3>2. CASE ~is_processing_data
      <4>1. batch = << >> /\ pending_commands = << >>
        BY <3>2 DEF InputInv
      <4>2. batch' = lines /\ pending_commands' = << >> /\ executed' = executed
        BY <2>1, <2>2, <3>2, <4>1, ConcatEmptySeq
      <4>3. executed \o lines \in Seq(Nat)
        BY <1>t, <2>2, ConcatProperties
      <4> HIDE DEF lines, pending
      <4>4. (executed \o lines) \o << >> = executed \o lines
        BY <4>3, ConcatEmptySeq
      <4>5. (executed \o << >>) \o << >> = executed
        BY <1>t, ConcatEmptySeq
      <4> QED  BY <4>1, <4>2, <4>4, <4>5 DEF AllLines
    <3> QED  BY <3>1, <3>2
  <2>9. ~is_processing_data'
          => fd_handle' /\ batch' = << >> /\ pending_commands' = << >>
    BY <2>1 DEF InputInv
  <2>10. gcode_mutex' = "loop" => is_processing_data'
    BY <2>1 DEF InputInv
  <2>11. /\ spoiled' \subseteq 1..(bytes_read' + 1) /\ spoiled' = spoiled
         /\ bytes_read' + 1 \in spoiled' <=> partial_input' \in {"torn", "cut"}
         /\ partial_input' \in {"none", "begin", "torn", "cut"}
    <3>1. /\ bytes_read' = bytes_read + n /\ spoiled' = spoiled /\ n \in Nat
          /\ spoiled \subseteq 1..(bytes_read + 1)
          /\ partial_input' = PartialAfter(n, partial)
      BY <2>1, <2>2 DEF InputInv
    <3>2. CASE n = 0
      <4>1. partial_input' = IF partial_input \in {"none", "begin"} THEN "begin"
                             ELSE "torn"
        BY <3>1, <3>2 DEF PartialAfter
      <4>2. bytes_read' = bytes_read
        BY <1>t, <3>1, <3>2
      <4> QED  BY <1>t, <3>1, <4>1, <4>2 DEF InputInv
    <3>3. CASE n > 0
      <4>1. partial_input' \in {"none", "begin"}
        BY <3>1, <3>3 DEF PartialAfter
      <4>2. bytes_read' + 1 \notin spoiled /\ spoiled \subseteq 1..(bytes_read' + 1)
        BY <1>t, <3>1, <3>3
      <4> QED  BY <3>1, <4>1, <4>2
    <3> QED  BY <3>1, <3>2, <3>3
  <2> HIDE DEF lines, pending
  <2>12. InputTypes'
    BY <2>4, <2>5, <2>6, <2>11 DEF InputInv, InputTypes
  <2> QED  BY <2>7, <2>8, <2>9, <2>10, <2>11, <2>12 DEF InputInv
<1>7. CASE PieceDropped
  <2>1. PICK n \in 0..MaxPiece, partial \in BOOLEAN :
          LET held == partial_input \in {"begin", "torn"}
              last == bytes_read + n + (IF held \/ partial THEN 1 ELSE 0)
          IN /\ bytes_read + n <= LastLine
             /\ n > 0 \/ partial
             /\ bytes_read' = bytes_read + n
             /\ partial_input' = IF held THEN "torn" ELSE IF partial THEN "cut" ELSE "none"
             /\ spoiled' = spoiled \cup ((bytes_read + 1)..last)
             /\ UNCHANGED <<pending_commands, batch, is_processing_data, fd_handle,
                            gcode_mutex, gcode_shutdown, executed>>
    BY <1>7 DEF PieceDropped
  <2> DEFINE held == partial_input \in {"begin", "torn"}
             last == bytes_read + n + (IF held \/ partial THEN 1 ELSE 0)
  <2>2. /\ last \in Nat /\ n \in Nat /\ bytes_read + n <= last /\ last <= bytes_read + n + 1
        /\ last = bytes_read + n + 1 <=> held \/ partial
        /\ bytes_read + n <= LastLine
    BY <1>t, <2>1
  <2>3. /\ bytes_read' = bytes_read + n /\ spoiled' = spoiled \cup ((bytes_read + 1)..last)
        /\ partial_input' \in {"none", "begin", "torn", "cut"}
        /\ partial_input' \in {"torn", "cut"} <=> held \/ partial
        /\ n > 0 \/ partial
    BY <2>1
  <2>4. AllLines' = AllLines
    BY <2>1 DEF AllLines
  <2> HIDE DEF held, last
  <2>5. Stands(AllLines', bytes_read', spoiled')
    <3>1. Stands(AllLines, bytes_read + n, spoiled \cup ((bytes_read + 1)..last))
      BY <1>t, <1>a, <2>2, FewerLines DEF InputInv
    <3> QED  BY <2>3, <2>4, <3>1
  <2>6. spoiled' \subseteq 1..(bytes_read' + 1) /\ spoiled' \subseteq 1..(LastLine + 1)
    BY <1>t, <2>2, <2>3 DEF InputInv
  <2>7. bytes_read' + 1 \in spoiled' <=> partial_input' \in {"torn", "cut"}
    <3>1. bytes_read' + 1 \in spoiled <=> n = 0 /\ partial_input \in {"torn", "cut"}
      BY <1>t, <2>2, <2>3 DEF InputInv
    <3>2. bytes_read' + 1 \in (bytes_read + 1)..last <=> held \/ partial
      BY <1>t, <2>2, <2>3
    <3> QED  BY <2>2, <2>3, <3>1, <3>2
  <2>8. InputTypes'
    BY <1>t, <2>1, <2>2, <2>3, <2>6 DEF InputInv, InputTypes
  <2> QED  BY <2>1, <2>5, <2>6, <2>7, <2>8 DEF InputInv
<1>2. CASE OtherLocks \/ OtherUnlocks
  BY <1>2 DEF OtherLocks, OtherUnlocks, InputInv, InputTypes, AllLines, readVars
<1>3. CASE LoopLocks
  BY <1>3 DEF LoopLocks, InputInv, InputTypes, AllLines, readVars
<1>4. CASE CommandDone
  <2>1. Head(batch) \in Nat /\ Tail(batch) \in Seq(Nat) /\ << Head(batch) >> \in Seq(Nat)
        /\ batch = << Head(batch) >> \o Tail(batch)
    BY <1>t, <1>4 DEF CommandDone
  <2>2. executed' = executed \o << Head(batch) >> /\ batch' = Tail(batch)
        /\ executed' \in Seq(Nat)
    BY <1>t, <1>4, <2>1, AppendIsConcat, AppendProperties DEF CommandDone
  <2>3. executed' \o batch' = executed \o batch
    <3>1. (executed \o << Head(batch) >>) \o Tail(batch)
            = executed \o (<< Head(batch) >> \o Tail(batch))
      BY <1>t, <2>1, LinesAssociate
    <3> QED  BY <2>1, <2>2, <3>1
  <2>4. gcode_shutdown' \in BOOLEAN
    <3>1. PICK m112 \in HasM112(<<Head(batch)>>) : gcode_shutdown' = (gcode_shutdown \/ m112)
      BY <1>4 DEF CommandDone
    <3> QED  BY <3>1
  <2>5. is_processing_data
    BY <1>4 DEF CommandDone, InputInv
  <2>6. AllLines' = AllLines
    BY <1>4, <2>3 DEF CommandDone, AllLines
  <2> QED  BY <1>4, <2>1, <2>2, <2>4, <2>5, <2>6
           DEF CommandDone, InputInv, InputTypes, readVars
<1>5. CASE LoopUnlocks
  <2>1. batch = << >> /\ batch' = pending_commands /\ pending_commands' = << >>
        /\ executed' = executed /\ UNCHANGED readVars
    BY <1>5 DEF LoopUnlocks, StillPending
  <2>2. executed \o pending_commands \in Seq(Nat)
    BY <1>t, ConcatProperties
  <2>3. AllLines' = AllLines
    <3>1. (executed \o pending_commands) \o << >> = (executed \o << >>) \o pending_commands
      BY <1>t, <2>2, ConcatEmptySeq
    <3> QED  BY <2>1, <3>1 DEF AllLines
  <2>4. is_processing_data' \in BOOLEAN /\ fd_handle' \in BOOLEAN
    BY <1>t, <1>5 DEF LoopUnlocks
  <2>5. << >> \in Seq(Nat)
    BY EmptySeq
  <2> QED  BY <1>t, <1>5, <2>1, <2>3, <2>4, <2>5
           DEF LoopUnlocks, StillPending, InputInv, InputTypes, readVars
<1>6. CASE UNCHANGED inputVars
  BY <1>6 DEF inputVars, InputInv, InputTypes, AllLines
<1> QED
  BY <1>1, <1>2, <1>3, <1>4, <1>5, <1>6, <1>7 DEF InputNext

\* Every line from the terminal that no piece that does not decode has spoiled
\* is run once, as it was sent and in order, and while nothing is read there is
\* a loop that will read again (gcode.py:410-455), for any limit, any pieces of
\* data, whole or dropped, and however often _process_data is called while the
\* loop waits.
THEOREM LinesRunOnce == InputSpec => []EachLineOnce
<1>1. InputInv => EachLineOnce
  BY DEF InputInv, EachLineOnce, Stands
<1> QED  BY <1>1, InputInvInit, InputInvStep, PTL DEF InputSpec

-----------------------------------------------------------------------------
(* The output of a heater.                                                 *)

\* How long a value counts that was sent.
Resend == (3 * MAX_HEAT_TIME) \div 4

\* Commands are carried out in the order of their times, not before PwmDelay.
QueueInOrder ==
  /\ since_reading <= ReportTime + ReportLate /\ output_since <= heat_clock
  /\ \A i \in 1..Len(pwm_queue) :
       heat_clock <= pwm_queue[i].at /\ pwm_queue[i].at <= heat_clock + PwmDelay
  /\ \A i, j \in 1..Len(pwm_queue) : i < j => pwm_queue[i].at <= pwm_queue[j].at

\* The last value sent is that of the last command, and the time to send it
\* again is counted from there; until then no reading has passed it by.
LastSent ==
  /\ pwm_queue # << >> =>
       /\ pwm_queue[Len(pwm_queue)].value = last_pwm_value
       /\ next_pwm_time = pwm_queue[Len(pwm_queue)].at + Resend
  /\ pwm_queue = << >> => /\ output = last_pwm_value
                          /\ output # 0 => next_pwm_time = output_since + Resend
  /\ last_pwm_value # 0 => heat_clock <= next_pwm_time + since_reading

\* Each command that turns the output on is followed in time by the next one.
FollowedInTime ==
  /\ (pwm_queue # << >> /\ output # 0) =>
       pwm_queue[1].at <= output_since + MAX_HEAT_TIME
  /\ \A i \in 1..(Len(pwm_queue) - 1) : pwm_queue[i].value # 0 =>
       pwm_queue[i + 1].at <= pwm_queue[i].at + MAX_HEAT_TIME

\* Nothing is turned on after the target is gone.
NoneAfterTarget ==
  ~wanted =>
    /\ output # 0 => output_since <= unwanted_since + PwmDelay
    /\ \A i \in 1..Len(pwm_queue) : pwm_queue[i].value # 0 =>
         pwm_queue[i].at <= unwanted_since + PwmDelay

HeaterInv == HeaterTypes /\ QueueInOrder /\ LastSent /\ FollowedInTime /\ NoneAfterTarget

LEMMA ResendType == Resend \in Nat
BY HeaterAssumption DEF Resend

LEMMA HeaterFacts ==
  ASSUME HeaterTypes
  PROVE  /\ heat_clock \in Nat /\ since_reading \in Nat /\ next_pwm_time \in Nat
         /\ last_pwm_value \in Nat /\ output \in Nat /\ output_since \in Nat
         /\ unwanted_since \in Nat
         /\ Len(pwm_queue) \in Nat /\ (pwm_queue = << >> <=> Len(pwm_queue) = 0)
         /\ \A i \in 1..Len(pwm_queue) :
              pwm_queue[i].at \in Nat /\ pwm_queue[i].value \in Nat
<1>1. pwm_queue \in Seq([at : Nat, value : Nat])
  BY DEF HeaterTypes
<1>2. \A i \in 1..Len(pwm_queue) : pwm_queue[i] \in [at : Nat, value : Nat]
  BY <1>1, ElementOfSeq
<1>3. Len(pwm_queue) \in Nat /\ (pwm_queue = << >> <=> Len(pwm_queue) = 0)
  BY <1>1, EmptySeq
<1> QED  BY <1>2, <1>3 DEF HeaterTypes

\* A command joins the queue.
LEMMA QueueAppends ==
  ASSUME pwm_queue \in Seq([at : Nat, value : Nat]), NEW cmd \in [at : Nat, value : Nat],
         pwm_queue' = Append(pwm_queue, cmd)
  PROVE  /\ pwm_queue' \in Seq([at : Nat, value : Nat]) /\ pwm_queue' # << >>
         /\ Len(pwm_queue') = Len(pwm_queue) + 1
         /\ \A i \in 1..Len(pwm_queue) : pwm_queue'[i] = pwm_queue[i]
         /\ pwm_queue'[Len(pwm_queue) + 1] = cmd
<1> DEFINE R == [at : Nat, value : Nat]
<1>1. pwm_queue \in Seq(R) /\ cmd \in R
  OBVIOUS
<1> HIDE DEF R
<1>2. /\ pwm_queue' \in Seq(R) /\ Len(pwm_queue') = Len(pwm_queue) + 1
      /\ \A i \in 1..Len(pwm_queue) : pwm_queue'[i] = pwm_queue[i]
      /\ pwm_queue'[Len(pwm_queue) + 1] = cmd
  BY <1>1, AppendProperties
<1>3. Len(pwm_queue) \in Nat /\ Len(pwm_queue') # 0
  BY <1>1, <1>2, LenProperties
<1>4. pwm_queue' # << >>
  BY <1>3, EmptySeq
<1> QED  BY <1>2, <1>4 DEF R

LEMMA HeaterInvInit == HeaterInit => HeaterInv
<1> SUFFICES ASSUME HeaterInit PROVE HeaterInv
  OBVIOUS
<1>1. wanted \in BOOLEAN
  BY DEF HeaterInit
<1>2. pwm_queue \in Seq([at : Nat, value : Nat]) /\ Len(pwm_queue) = 0 /\ pwm_queue = << >>
  BY DEF HeaterInit
<1>3. HeaterTypes
  BY <1>1, <1>2 DEF HeaterInit, HeaterTypes
<1>4. QueueInOrder /\ LastSent /\ FollowedInTime /\ NoneAfterTarget
  BY <1>2, HeaterAssumption DEF HeaterInit, QueueInOrder, LastSent, FollowedInTime, NoneAfterTarget
<1> QED  BY <1>3, <1>4 DEF HeaterInv

LEMMA HeaterInvStep == HeaterInv /\ [HeaterNext]_heaterVars => HeaterInv'
<1> SUFFICES ASSUME HeaterInv, [HeaterNext]_heaterVars PROVE HeaterInv'
  OBVIOUS
<1> USE HeaterAssumption, ResendType
<1>t. /\ heat_clock \in Nat /\ since_reading \in Nat /\ next_pwm_time \in Nat
      /\ last_pwm_value \in Nat /\ output \in Nat /\ output_since \in Nat
      /\ unwanted_since \in Nat
      /\ Len(pwm_queue) \in Nat /\ (pwm_queue = << >> <=> Len(pwm_queue) = 0)
      /\ \A i \in 1..Len(pwm_queue) :
           pwm_queue[i].at \in Nat /\ pwm_queue[i].value \in Nat
  BY HeaterFacts DEF HeaterInv
<1>1. CASE SetTarget
  <2>1. HeaterTypes'
    BY <1>1 DEF SetTarget, HeaterInv, HeaterTypes
  <2>2. QueueInOrder' /\ LastSent' /\ FollowedInTime'
    BY <1>1 DEF SetTarget, HeaterInv, QueueInOrder, LastSent, FollowedInTime
  <2>3. NoneAfterTarget'
    <3>1. CASE wanted
      <4>1. /\ unwanted_since' = heat_clock /\ output' = output
            /\ output_since' = output_since /\ pwm_queue' = pwm_queue
        BY <1>1, <3>1 DEF SetTarget
      <4>2. output_since <= heat_clock /\ PwmDelay \in Nat
            /\ \A i \in 1..Len(pwm_queue) : pwm_queue[i].at <= heat_clock + PwmDelay
        BY DEF HeaterInv, QueueInOrder
      <4>3. output_since <= heat_clock + PwmDelay
        BY <1>t, <4>2
      <4> QED  BY <4>1, <4>2, <4>3 DEF NoneAfterTarget
    <3>2. CASE ~wanted
      BY <1>1, <3>2 DEF SetTarget, NoneAfterTarget
    <3> QED  BY <3>1, <3>2
  <2> QED  BY <2>1, <2>2, <2>3 DEF HeaterInv
<1>2. CASE TemperatureCallback
  <2>1. PICK power \in Powers \cup {0} :
          LET value == IF wanted THEN power ELSE 0
              pwm_time == heat_clock + PwmDelay
          IN
          /\ since_reading' = 0
          /\ IF Suppressed(value)
             THEN UNCHANGED <<next_pwm_time, last_pwm_value, pwm_queue>>
             ELSE /\ next_pwm_time' = pwm_time + Resend
                  /\ last_pwm_value' = value
                  /\ pwm_queue' = Append(pwm_queue, [at |-> pwm_time, value |-> value])
          /\ UNCHANGED <<heat_clock, wanted, output, output_since, unwanted_since>>
    BY <1>2 DEF TemperatureCallback, Resend
  <2> DEFINE value == IF wanted THEN power ELSE 0
             pwm_time == heat_clock + PwmDelay
             cmd == [at |-> pwm_time, value |-> value]
  <2>2. CASE Suppressed(value)
    <3>1. HeaterTypes'
      BY <2>1, <2>2 DEF HeaterInv, HeaterTypes
    <3>2. QueueInOrder' /\ FollowedInTime' /\ NoneAfterTarget'
      BY <2>1, <2>2 DEF HeaterInv, QueueInOrder, FollowedInTime, NoneAfterTarget
    <3>3. last_pwm_value # 0 => heat_clock < next_pwm_time
      BY <2>2 DEF Suppressed
    <3>4. LastSent'
      BY <1>t, <2>1, <2>2, <3>3 DEF HeaterInv, LastSent
    <3> QED  BY <3>1, <3>2, <3>4 DEF HeaterInv
  <2>3. CASE ~Suppressed(value)
    <3>1. /\ next_pwm_time' = pwm_time + Resend /\ last_pwm_value' = value
          /\ pwm_queue' = Append(pwm_queue, cmd) /\ since_reading' = 0
          /\ UNCHANGED <<heat_clock, wanted, output, output_since, unwanted_since>>
      BY <2>1, <2>3
    <3>2. /\ value \in Nat /\ pwm_time \in Nat /\ cmd \in [at : Nat, value : Nat]
          /\ cmd.at = pwm_time /\ cmd.value = value
          /\ ~wanted => value = 0
      BY DEF HeaterInv, HeaterTypes
    <3>3. pwm_time = heat_clock + PwmDelay
      OBVIOUS
    <3> HIDE DEF value, pwm_time, cmd
    <3> DEFINE n == Len(pwm_queue)
    <3>c. /\ pwm_queue' \in Seq([at : Nat, value : Nat])
          /\ pwm_queue' # << >> /\ Len(pwm_queue') = n + 1
          /\ \A i \in 1..n : pwm_queue'[i] = pwm_queue[i]
          /\ pwm_queue'[n + 1] = cmd
      BY <1>t, <3>1, <3>2, QueueAppends DEF HeaterInv, HeaterTypes
    <3>4. /\ pwm_queue' # << >> /\ Len(pwm_queue') = n + 1 /\ n \in Nat
          /\ \A i \in 1..n : pwm_queue'[i] = pwm_queue[i]
      BY <1>t, <3>c
    <3>5. \A i \in 1..n : /\ pwm_queue'[i].at = pwm_queue[i].at
                          /\ pwm_queue'[i].value = pwm_queue[i].value
                          /\ pwm_queue[i].at \in Nat /\ heat_clock <= pwm_queue[i].at
                          /\ pwm_queue[i].at <= pwm_time
      BY <1>t, <3>3, <3>4 DEF HeaterInv, QueueInOrder
    <3>a. /\ pwm_queue'[n + 1].at = pwm_time /\ pwm_queue'[n + 1].value = value
          /\ pwm_queue = << >> <=> n = 0
      BY <1>t, <3>2, <3>c
    <3>d. value \in Nat /\ pwm_time \in Nat /\ (~wanted => value = 0)
      BY <3>2
    <3>6. HeaterTypes'
      BY <3>1, <3>2, <3>c DEF HeaterInv, HeaterTypes
    <3>b. HeaterInv /\ \A i \in 1..(n + 1) : i \in 1..n \/ i = n + 1
      BY <3>4
    <3> HIDE DEF n
    <3>7. QueueInOrder'
      <4>1. \A i \in 1..(n + 1) : heat_clock <= pwm_queue'[i].at
                                  /\ pwm_queue'[i].at <= heat_clock + PwmDelay
        <5>1. ASSUME NEW i \in 1..n
              PROVE  heat_clock <= pwm_queue'[i].at
                     /\ pwm_queue'[i].at <= heat_clock + PwmDelay
          BY <3>3, <3>5, <5>1
        <5>2. heat_clock \in Nat /\ PwmDelay \in Nat
          BY <1>t, HeaterAssumption
        <5>3. heat_clock <= pwm_time /\ pwm_time <= heat_clock + PwmDelay
          BY <3>3, <5>2
        <5> QED BY <3>a, <3>b, <5>1, <5>3, Zenon
      <4>2. ASSUME NEW i \in 1..(n + 1), NEW j \in 1..(n + 1), i < j
            PROVE  pwm_queue'[i].at <= pwm_queue'[j].at
        <5>1. i \in 1..n
          BY <3>4, <4>2
        <5>2. CASE j \in 1..n
          BY <3>5, <4>2, <5>1, <5>2 DEF n, HeaterInv, QueueInOrder
        <5>3. CASE j = n + 1
          BY <3>5, <3>a, <5>1, <5>3
        <5> QED  BY <3>b, <4>2, <5>2, <5>3
      <4> QED  BY <3>1, <3>4, <4>1, <4>2 DEF HeaterInv, QueueInOrder
    <3>8. LastSent'
      <4>1. next_pwm_time' = pwm_queue'[n + 1].at + Resend
            /\ pwm_queue'[n + 1].value = last_pwm_value'
        BY <3>1, <3>a
      <4>2. heat_clock' <= next_pwm_time' + since_reading'
        BY <1>t, <3>1, <3>d, <3>3
      <4> QED  BY <3>4, <4>1, <4>2 DEF LastSent
    <3>9. last_pwm_value # 0 => pwm_time <= next_pwm_time - Resend + MAX_HEAT_TIME
      BY <1>t, <3>3 DEF HeaterInv, QueueInOrder, LastSent, Resend
    <3>10. FollowedInTime'
      <4>1. (pwm_queue' # << >> /\ output # 0) => pwm_queue'[1].at <= output_since + MAX_HEAT_TIME
        <5>1. CASE n = 0
          BY <1>t, <3>d, <3>9, <3>a, <5>1 DEF HeaterInv, LastSent
        <5>2. CASE n # 0
          <6>1. 1 \in 1..n
            BY <3>4, <5>2
          <6> QED  BY <3>5, <3>a, <5>2, <6>1 DEF HeaterInv, FollowedInTime
        <5> QED  BY <5>1, <5>2
      <4>2. ASSUME NEW i \in 1..n, pwm_queue'[i].value # 0
            PROVE  pwm_queue'[i + 1].at <= pwm_queue'[i].at + MAX_HEAT_TIME
        <5>1. CASE i = n
          <6>1. /\ pwm_queue # << >> /\ pwm_queue[n].value = last_pwm_value
                /\ next_pwm_time = pwm_queue[n].at + Resend
            BY <3>4, <3>a, <5>1 DEF n, HeaterInv, LastSent
          <6>2. /\ pwm_queue'[i].at = pwm_queue[n].at /\ pwm_queue[n].at \in Nat
                /\ last_pwm_value # 0 /\ pwm_queue'[i + 1].at = pwm_time
            BY <3>5, <3>a, <4>2, <5>1, <6>1
          <6>3. pwm_time <= (pwm_queue[n].at + Resend) - Resend + MAX_HEAT_TIME
            BY <3>9, <6>1, <6>2
          <6>4. (pwm_queue[n].at + Resend) - Resend = pwm_queue[n].at
            BY <6>2
          <6> QED  BY <6>2, <6>3, <6>4
        <5>2. CASE i # n
          <6>1. i \in 1..(n - 1) /\ i + 1 \in 1..n
            BY <3>4, <5>2
          <6> QED  BY <3>5, <4>2, <6>1 DEF n, HeaterInv, FollowedInTime
        <5> QED  BY <5>1, <5>2
      <4>3. Len(pwm_queue') - 1 = n
        BY <3>4
      <4> QED  BY <3>1, <4>1, <4>2, <4>3 DEF FollowedInTime
    <3>11. NoneAfterTarget'
      <4>1. ~wanted => \A i \in 1..(n + 1) : pwm_queue'[i].value # 0 =>
                         pwm_queue'[i].at <= unwanted_since + PwmDelay
        BY <3>d, <3>5, <3>a, <3>b DEF n, HeaterInv, NoneAfterTarget
      <4> QED  BY <3>1, <3>4, <4>1 DEF HeaterInv, NoneAfterTarget
    <3> QED  BY <3>6, <3>7, <3>8, <3>10, <3>11 DEF HeaterInv
  <2> QED  BY <2>2, <2>3
<1>3. CASE OutputChanges
  <2> DEFINE n == Len(pwm_queue)
  <2>1. /\ pwm_queue # << >> /\ pwm_queue' = Tail(pwm_queue)
        /\ pwm_queue[1].at = heat_clock /\ output' = pwm_queue[1].value
        /\ output_since' = heat_clock
        /\ UNCHANGED <<heat_clock, since_reading, wanted, next_pwm_time,
                       last_pwm_value, unwanted_since>>
    BY <1>3 DEF OutputChanges
  <2>2. /\ n \in Nat \ {0} /\ 1 \in 1..n /\ n \in 1..n
        /\ pwm_queue[1].at \in Nat /\ pwm_queue[1].value \in Nat
    BY <1>t, <2>1
  <2>e. /\ pwm_queue' \in Seq([at : Nat, value : Nat]) /\ Len(pwm_queue') = n - 1
        /\ \A i \in 1..(n - 1) : pwm_queue'[i] = pwm_queue[i + 1]
    BY <2>1, HeadTailProperties DEF HeaterInv, HeaterTypes
  <2>3. /\ Len(pwm_queue') = n - 1
        /\ \A i \in 1..(n - 1) : pwm_queue'[i] = pwm_queue[i + 1]
    BY <2>e
  <2>f. pwm_queue' = << >> <=> Len(pwm_queue') = 0
    BY <2>e, EmptySeq
  <2>5. HeaterTypes'
    BY <2>1, <2>2, <2>e DEF HeaterInv, HeaterTypes
  <2> HIDE DEF n
  <2>4. pwm_queue' = << >> <=> n = 1
    BY <2>2, <2>3, <2>f
  <2>c. \A i \in 1..(n - 1) : i + 1 \in 1..n /\ pwm_queue'[i].at = pwm_queue[i + 1].at
                              /\ pwm_queue'[i].value = pwm_queue[i + 1].value
    BY <2>2, <2>3
  <2>d. HeaterInv
    OBVIOUS
  <2>6. QueueInOrder'
    BY <1>t, <2>1, <2>2, <2>3 DEF n, HeaterInv, QueueInOrder
  <2>7. LastSent'
    <3>1. /\ pwm_queue[n].value = last_pwm_value
          /\ next_pwm_time = pwm_queue[n].at + Resend
      BY <2>1, <2>d DEF n, HeaterInv, LastSent
    <3>2. CASE n = 1
      <4>1. output' = last_pwm_value' /\ next_pwm_time' = output_since' + Resend
        BY <2>1, <3>1, <3>2
      <4> QED  BY <2>1, <2>4, <2>d, <3>2, <4>1 DEF HeaterInv, LastSent
    <3>3. CASE n # 1
      <4>1. n - 1 \in 1..(n - 1) /\ (n - 1) + 1 = n
        BY <2>2, <3>3
      <4>2. pwm_queue'[n - 1].at = pwm_queue[n].at /\ pwm_queue'[n - 1].value = pwm_queue[n].value
        BY <2>c, <4>1
      <4> HIDE DEF n
      <4> QED  BY <2>1, <2>3, <2>4, <2>d, <3>1, <3>3, <4>2 DEF HeaterInv, LastSent
    <3> QED  BY <3>2, <3>3
  <2>8. FollowedInTime'
    <3>1. (pwm_queue' # << >> /\ output' # 0) => pwm_queue'[1].at <= output_since' + MAX_HEAT_TIME
      <4> SUFFICES ASSUME n # 1, pwm_queue[1].value # 0
                   PROVE  pwm_queue'[1].at <= heat_clock + MAX_HEAT_TIME
        BY <2>1, <2>4
      <4>1. 1 \in 1..(n - 1) /\ pwm_queue'[1].at = pwm_queue[1 + 1].at
        BY <2>2, <2>c
      <4> QED  BY <2>1, <2>2, <2>d, <4>1 DEF n, HeaterInv, FollowedInTime
    <3>2. ASSUME NEW i \in 1..((n - 1) - 1), pwm_queue'[i].value # 0
          PROVE  pwm_queue'[i + 1].at <= pwm_queue'[i].at + MAX_HEAT_TIME
      <4>1. i \in 1..(n - 1) /\ i + 1 \in 1..(n - 1)
        BY <2>2
      <4>2. /\ pwm_queue'[i].at = pwm_queue[i + 1].at
            /\ pwm_queue[i + 1].value # 0
            /\ pwm_queue'[i + 1].at = pwm_queue[(i + 1) + 1].at
        BY <2>c, <3>2, <4>1
      <4> QED  BY <2>d, <4>1, <4>2 DEF n, HeaterInv, FollowedInTime
    <3> QED  BY <2>3, <3>1, <3>2 DEF FollowedInTime
  <2>9. NoneAfterTarget'
    BY <1>t, <2>1, <2>2, <2>3 DEF n, HeaterInv, NoneAfterTarget
  <2> QED  BY <2>5, <2>6, <2>7, <2>8, <2>9 DEF HeaterInv
<1>4. CASE HeatClockTicks
  <2>1. HeaterTypes'
    BY <1>4 DEF HeatClockTicks, HeaterInv, HeaterTypes
  <2>2. QueueInOrder'
    <3>1. \A i \in 1..Len(pwm_queue) : heat_clock < pwm_queue[i].at
      <4> SUFFICES ASSUME NEW i \in 1..Len(pwm_queue) PROVE heat_clock < pwm_queue[i].at
        OBVIOUS
      <4>1. pwm_queue # << >> /\ 1 \in 1..Len(pwm_queue)
        BY <1>t
      <4>2. heat_clock < pwm_queue[1].at
        BY <1>4, <4>1 DEF HeatClockTicks
      <4>3. pwm_queue[1].at \in Nat /\ pwm_queue[i].at \in Nat
        BY <1>t, <4>1
      <4>4. pwm_queue[1].at <= pwm_queue[i].at
        BY <4>1, <4>3 DEF HeaterInv, QueueInOrder
      <4> QED  BY <1>t, <4>2, <4>3, <4>4
    <3> QED  BY <1>t, <1>4, <3>1 DEF HeatClockTicks, HeaterInv, QueueInOrder
  <2>3. LastSent'
    BY <1>t, <1>4 DEF HeatClockTicks, HeaterInv, LastSent
  <2>4. FollowedInTime' /\ NoneAfterTarget'
    BY <1>4 DEF HeatClockTicks, HeaterInv, FollowedInTime, NoneAfterTarget
  <2> QED  BY <2>1, <2>2, <2>3, <2>4 DEF HeaterInv
<1>5. CASE UNCHANGED heaterVars
  BY <1>5 DEF heaterVars, HeaterInv, HeaterTypes, QueueInOrder, LastSent, FollowedInTime,
     NoneAfterTarget
<1> QED
  BY <1>1, <1>2, <1>3, <1>4, <1>5 DEF HeaterNext

\* An output that is on gets its next command before the controller would shut
\* down, and one that is to be off is off in time (heaters.py:68-81): for all
\* times, powers and readings as HeaterAssumption relates them.
THEOREM OutputsAreKept == HeaterSpec => []PowerKept
<1>1. HeaterInv => PowerKept
  <2> SUFFICES ASSUME HeaterInv PROVE PowerKept
    OBVIOUS
  <2> USE HeaterAssumption, ResendType
  <2>t. HeaterTypes
    BY DEF HeaterInv
  <2>1. output # 0 => heat_clock <= output_since + MAX_HEAT_TIME
    <3>1. CASE pwm_queue = << >>
      BY <2>t, HeaterFacts, <3>1 DEF HeaterInv, QueueInOrder, LastSent, Resend
    <3>2. CASE pwm_queue # << >>
      <4>0. Len(pwm_queue) \in Nat /\ Len(pwm_queue) # 0
        BY <2>t, HeaterFacts, <3>2
      <4>1. 1 \in 1..Len(pwm_queue)
        BY <4>0
      <4>2. pwm_queue[1].at \in Nat /\ heat_clock \in Nat /\ output_since \in Nat
        BY <2>t, HeaterFacts, <4>1
      <4>3. heat_clock <= pwm_queue[1].at
        BY <4>1 DEF HeaterInv, QueueInOrder
      <4>4. output # 0 => pwm_queue[1].at <= output_since + MAX_HEAT_TIME
        BY <3>2 DEF HeaterInv, FollowedInTime
      <4> QED  BY <4>2, <4>3, <4>4
    <3> QED  BY <3>1, <3>2
  <2> QED  BY <2>t, HeaterFacts, <2>1 DEF HeaterInv, NoneAfterTarget, PowerKept
<1> QED  BY <1>1, HeaterInvInit, HeaterInvStep, PTL DEF HeaterSpec

-----------------------------------------------------------------------------
(* The check that a heater heats.                                          *)

\* Until a fault is found, the sum of errors is at least the deficit, for what
\* clears it also ends the standstill: while a target is approached the last
\* reading was below the goal, and what is left of the time to reach it and the
\* time of the standstill are no more than CheckGainTime together.
WatchInv ==
  ~faulted =>
    /\ heat_error \in Nat /\ stuck \in Nat /\ deficit \in Nat
    /\ goal_temp \in Int /\ goal_in \in Nat /\ last_reading \in Int
    /\ approaching_target \in BOOLEAN
    /\ deficit <= heat_error
    /\ approaching_target => /\ last_reading < goal_temp /\ goal_in >= 1
                             /\ stuck + goal_in <= CheckGainTime
    /\ FaultFound

LEMMA WatchInvInit == VerifyInit => WatchInv
<1> SUFFICES ASSUME VerifyInit PROVE WatchInv
  OBVIOUS
<1>1. approaching_target \in BOOLEAN /\ ~approaching_target
  BY DEF VerifyInit
<1>3. /\ heat_error \in Nat /\ stuck \in Nat /\ deficit \in Nat
      /\ goal_temp \in Int /\ goal_in \in Nat /\ last_reading \in Int
      /\ deficit <= heat_error
  BY DEF VerifyInit
<1>2. FaultFound
  BY VerifyAssumption DEF VerifyInit, FaultFound
<1> QED  BY <1>1, <1>2, <1>3 DEF WatchInv

\* A check less is left, and the standstill is at most one longer.
LEMMA OneCheckLess ==
  ASSUME NEW s \in Nat, NEW g \in Nat, NEW s2 \in Nat, NEW max \in Nat,
         g > 1, s + g <= max, s2 <= s + 1
  PROVE  /\ g - 1 \in Nat /\ g - 1 >= 1 /\ s2 + (g - 1) <= max
         /\ ~(s2 > max)
  OBVIOUS

LEMMA WatchInvStep == WatchInv /\ [VerifyNext]_verifyVars => WatchInv'
<1> SUFFICES ASSUME WatchInv, [VerifyNext]_verifyVars PROVE WatchInv'
  OBVIOUS
<1>c. /\ MaxError \in Nat /\ Hysteresis \in Nat
      /\ HeatingGain \in Nat /\ HeatingGain >= 1
      /\ CheckGainTime \in Nat /\ CheckGainTime >= 1
  BY VerifyAssumption
<1> USE <1>c
<1>1. CASE CheckEvent
  <2>1. PICK temp \in Temps, target \in Targets :
          LET below == target - Hysteresis - temp
              error == Lower(heat_error + below, MaxError)
              still == ~InRange(temp, target) /\ target = last_target
                       /\ temp <= last_reading
          IN
          /\ ~faulted
          /\ \/ NearTarget(temp, target)
             \/ /\ ~InRange(temp, target)
                /\ \/ StartApproach(temp, target, error)
                   \/ NotApproaching(target, error)
                   \/ Progress(temp)
                   \/ NoProgress(temp, error)
          /\ last_target' = target /\ last_reading' = temp
          /\ stuck' = IF still THEN Lower(stuck + 1, CheckGainTime + 1) ELSE 0
          /\ deficit' = IF still THEN Lower(deficit + below, MaxError) ELSE 0
    BY <1>1 DEF CheckEvent
  <2> DEFINE below == target - Hysteresis - temp
             error == Lower(heat_error + below, MaxError)
             still == ~InRange(temp, target) /\ target = last_target
                      /\ temp <= last_reading
  <2>i. temp \in Int /\ target \in Int
    BY VerifyAssumption
  <2>2. /\ ~faulted /\ last_reading' = temp /\ temp \in Int
        /\ stuck' = IF still THEN Lower(stuck + 1, CheckGainTime + 1) ELSE 0
        /\ deficit' = IF still THEN Lower(deficit + below, MaxError) ELSE 0
    BY <2>1, <2>i
  <2>3. \/ NearTarget(temp, target)
        \/ /\ ~InRange(temp, target)
           /\ \/ StartApproach(temp, target, error)
              \/ NotApproaching(target, error)
              \/ Progress(temp)
              \/ NoProgress(temp, error)
    BY <2>1
  <2>t. /\ heat_error \in Nat /\ stuck \in Nat /\ deficit \in Nat
        /\ goal_temp \in Int /\ goal_in \in Nat /\ last_reading \in Int
        /\ deficit <= heat_error
        /\ approaching_target => /\ last_reading < goal_temp /\ goal_in >= 1
                                 /\ stuck + goal_in <= CheckGainTime
    BY <2>2 DEF WatchInv
  <2>b. approaching_target \in BOOLEAN
    BY <2>2 DEF WatchInv
  <2>s. still => ~InRange(temp, target) /\ target = last_target /\ temp <= last_reading
    OBVIOUS
  <2>4. ~InRange(temp, target) => below \in Nat
    BY <2>i DEF InRange
  <2> HIDE DEF below, still
  <2>5. /\ stuck' \in Nat /\ deficit' \in Nat /\ stuck' <= stuck + 1
        /\ ~still => stuck' = 0 /\ deficit' = 0
    BY <2>2, <2>s, <2>4, <2>t DEF Lower
  <2>6. ~InRange(temp, target) => error \in Nat /\ deficit' <= error
    BY <2>2, <2>4, <2>t DEF Lower
  <2> HIDE DEF error
  <2>7. CASE NearTarget(temp, target)
    <3>1. ~still /\ stuck' = 0 /\ deficit' = 0
      BY <2>5, <2>7, <2>s DEF NearTarget
    <3>2. heat_error' \in Nat
      BY <2>7, <2>t DEF NearTarget
    <3>3. /\ goal_temp' = goal_temp /\ goal_in' = goal_in /\ approaching_target' = FALSE
      BY <2>7 DEF NearTarget
    <3>4. approaching_target' \in BOOLEAN /\ ~approaching_target'
      BY <3>3
    <3>5. FaultFound'
      BY <3>1 DEF FaultFound
    <3> QED  BY <2>2, <2>t, <3>1, <3>2, <3>3, <3>4, <3>5 DEF WatchInv
  <2>8. CASE ~InRange(temp, target) /\ StartApproach(temp, target, error)
    <3>1. /\ approaching_target' = TRUE /\ heat_error' = error /\ goal_in' = CheckGainTime
          /\ goal_temp' = temp + HeatingGain /\ target # last_target
      BY <2>8 DEF StartApproach
    <3>2. stuck' = 0 /\ deficit' = 0
      BY <2>5, <2>s, <3>1
    <3> QED  BY <2>2, <2>6, <2>8, <3>1, <3>2 DEF WatchInv, FaultFound
  <2>9. CASE ~InRange(temp, target) /\ NotApproaching(target, error)
    <3>1. /\ approaching_target' = approaching_target /\ ~approaching_target
          /\ heat_error' = error /\ goal_in' = goal_in /\ goal_temp' = goal_temp
          /\ faulted' <=> error >= MaxError
      BY <2>9 DEF NotApproaching
    <3>2. error \in Nat /\ deficit' <= error
      BY <2>6, <2>9
    <3>3. FaultFound'
      BY <2>5, <3>1, <3>2 DEF FaultFound
    <3>4. approaching_target' = FALSE
      BY <2>b, <3>1
    <3> QED  BY <2>2, <2>t, <2>5, <3>1, <3>2, <3>3, <3>4 DEF WatchInv
  <2>10. CASE ~InRange(temp, target) /\ Progress(temp)
    <3>1. /\ approaching_target /\ approaching_target' = approaching_target
          /\ temp >= goal_temp /\ heat_error' = 0
          /\ goal_temp' = temp + HeatingGain /\ goal_in' = CheckGainTime
      BY <2>10 DEF Progress
    <3>2. ~still
      BY <2>2, <2>t, <2>s, <3>1
    <3>3. stuck' = 0 /\ deficit' = 0
      BY <2>5, <3>2
    <3>4. approaching_target' \in BOOLEAN
      BY <2>b, <3>1
    <3> QED  BY <2>2, <3>1, <3>3, <3>4 DEF WatchInv, FaultFound
  <2>11. CASE ~InRange(temp, target) /\ NoProgress(temp, error)
    <3>1. approaching_target /\ temp < goal_temp /\ error \in Nat /\ deficit' <= error
      BY <2>6, <2>11 DEF NoProgress
    <3>a. last_reading < goal_temp /\ goal_in >= 1 /\ stuck + goal_in <= CheckGainTime
      BY <2>t, <3>1
    <3>2. CASE goal_in <= 1
      <4>1. /\ approaching_target' = FALSE /\ goal_in' = 0 /\ heat_error' = error
            /\ goal_temp' = goal_temp
        BY <2>11, <3>2 DEF NoProgress, ErrorKept
      <4>2. stuck' <= CheckGainTime
        BY <2>t, <2>5, <3>a, <3>2
      <4>3. approaching_target' \in BOOLEAN /\ ~approaching_target'
        BY <4>1
      <4>4. FaultFound'
        BY <2>5, <4>2 DEF FaultFound
      <4> QED  BY <2>2, <2>t, <2>5, <3>1, <4>1, <4>3, <4>4 DEF WatchInv
    <3>3. CASE ~(goal_in <= 1)
      <4>1. /\ approaching_target' = approaching_target /\ goal_in' = goal_in - 1
            /\ heat_error' = error
            /\ goal_temp' = IF starting_approach
                            THEN Lower(goal_temp, temp + HeatingGain)
                            ELSE goal_temp
        BY <2>11, <3>3 DEF NoProgress
      <4>2. goal_temp' \in Int /\ temp < goal_temp'
        BY <2>2, <2>t, <3>1, <4>1 DEF Lower
      <4>a. goal_in' = goal_in - 1 /\ goal_in \in Nat /\ stuck \in Nat
            /\ stuck' \in Nat /\ stuck' <= stuck + 1
        BY <2>t, <2>5, <4>1
      <4>3. goal_in' \in Nat /\ goal_in' >= 1 /\ stuck' + goal_in' <= CheckGainTime
            /\ ~(stuck' > CheckGainTime)
        <5>1. goal_in > 1 /\ stuck + goal_in <= CheckGainTime
          BY <3>a, <3>3, <4>a
        <5> QED  BY <5>1, <4>a, <1>c, OneCheckLess
      <4>4. approaching_target' \in BOOLEAN
        BY <2>b, <4>1
      <4>5. FaultFound'
        BY <4>3 DEF FaultFound
      <4> QED  BY <2>2, <2>5, <3>1, <4>1, <4>2, <4>3, <4>4, <4>5 DEF WatchInv
    <3> QED  BY <3>2, <3>3
  <2> QED  BY <2>3, <2>7, <2>8, <2>9, <2>10, <2>11
<1>2. CASE UNCHANGED verifyVars
  BY <1>2 DEF verifyVars, WatchInv, FaultFound
<1> QED  BY <1>1, <1>2 DEF VerifyNext

\* A heater that is below its target and does not heat up shuts the printer
\* down (verify_heater.py:47-90), for any readings and targets in any order.
THEOREM FaultsAreFound == VerifySpec => []FaultFound
<1>1. WatchInv => FaultFound
  BY DEF WatchInv, FaultFound
<1> QED  BY <1>1, WatchInvInit, WatchInvStep, PTL DEF VerifySpec

-----------------------------------------------------------------------------
(* What clients are told.                                                  *)

Message == UNION {[S -> Statuses] : S \in SUBSET Objs}
Request == [watcher : Watchers, objs : (SUBSET Objs) \ {{}}, subscribe : BOOLEAN]
Answer  == [request : Request, answer : Message]

WebTypes ==
  /\ status_now \in [Objs -> Statuses] /\ last_query \in Message
  /\ pending_queries \in Seq(Request) /\ completed \in Seq(Answer)
  /\ DOMAIN subscribed \subseteq Watchers
  /\ \A w \in DOMAIN subscribed : subscribed[w] \subseteq Objs
  /\ open \subseteq Watchers
  /\ send_buffer \in [Watchers -> Seq(Message)]
  /\ socket \in [Watchers -> Seq(Message)]
  /\ \A w \in Watchers : Len(socket[w]) <= Room
  /\ view \in [Watchers -> Message]

\* An answer that waits for its greenlet is of the last query, and the timer
\* runs as long as anything is asked.
AnswersLast ==
  /\ \A i \in DOMAIN completed :
       /\ DOMAIN completed[i].answer = completed[i].request.objs
       /\ \A o \in completed[i].request.objs :
            o \in DOMAIN last_query /\ completed[i].answer[o] = last_query[o]
  /\ (completed # << >> \/ pending_queries # << >>) => query_timer = TRUE

WebInv == WebTypes /\ AnswersLast /\ ViewsCurrent

-----------------------------------------------------------------------------
\* The newest message of a stream, when another one is sent and when the first
\* two are read as one.
LEMMA NewestAppended ==
  ASSUME NEW st \in Seq(Message), NEW m \in Message, NEW o, NEW s
  PROVE  /\ o \in DOMAIN m => Newest(Append(st, m), o, m[o])
         /\ o \notin DOMAIN m /\ Newest(st, o, s) => Newest(Append(st, m), o, s)
<1> DEFINE n == Append(st, m)
<1>1. /\ DOMAIN n = 1..(Len(st) + 1) /\ DOMAIN st = 1..Len(st) /\ Len(st) \in Nat
      /\ \A i \in 1..Len(st) : n[i] = st[i]
      /\ n[Len(st) + 1] = m
  OBVIOUS
<1> HIDE DEF n
<1>2. ASSUME o \in DOMAIN m PROVE Newest(n, o, m[o])
  BY <1>1, <1>2 DEF Newest
<1>3. ASSUME o \notin DOMAIN m, Newest(st, o, s) PROVE Newest(n, o, s)
  <2>1. PICK i \in 1..Len(st) :
          /\ o \in DOMAIN st[i] /\ st[i][o] = s
          /\ \A j \in 1..Len(st) : j > i => o \notin DOMAIN st[j]
    BY <1>1, <1>3 DEF Newest
  <2>2. i \in DOMAIN n /\ n[i] = st[i]
    BY <1>1
  <2>3. \A j \in DOMAIN n : j > i => o \notin DOMAIN n[j]
    <3> TAKE j \in DOMAIN n
    <3>1. CASE j = Len(st) + 1
      BY <3>1, <1>1, <1>3
    <3>2. CASE j # Len(st) + 1
      <4>1. j \in 1..Len(st)
        BY <3>2, <1>1
      <4> QED  BY <4>1, <2>1, <1>1
    <3> QED  BY <3>1, <3>2
  <2> QED  BY <2>1, <2>2, <2>3 DEF Newest
<1> QED  BY <1>2, <1>3 DEF n

LEMMA MergeIs ==
  ASSUME NEW v \in Message, NEW h \in Message
  PROVE  /\ Merge(v, h) \in Message
         /\ DOMAIN Merge(v, h) = DOMAIN v \cup DOMAIN h
         /\ \A o \in DOMAIN h : Merge(v, h)[o] = h[o]
         /\ \A o \in DOMAIN v \ DOMAIN h : Merge(v, h)[o] = v[o]
<1>1. PICK S \in SUBSET Objs, T \in SUBSET Objs : v \in [S -> Statuses] /\ h \in [T -> Statuses]
  BY DEF Message
<1>2. /\ DOMAIN Merge(v, h) = DOMAIN v \cup DOMAIN h
      /\ \A o \in DOMAIN h : Merge(v, h)[o] = h[o]
      /\ \A o \in DOMAIN v \ DOMAIN h : Merge(v, h)[o] = v[o]
  BY DEF Merge
<1>3. Merge(v, h) \in [S \cup T -> Statuses]
  BY <1>1 DEF Merge
<1> QED  BY <1>2, <1>3 DEF Message

LEMMA NewestRead ==
  ASSUME NEW a \in Seq(Message), NEW b \in Seq(Message),
         Len(a) >= 2, Len(b) = Len(a) - 1, b[1] = Merge(a[1], a[2]),
         \A i \in 2..Len(b) : b[i] = a[i + 1],
         NEW o, NEW s, Newest(a, o, s)
  PROVE  Newest(b, o, s)
<1>1. /\ Len(a) \in Nat /\ Len(b) \in Nat /\ DOMAIN a = 1..Len(a) /\ DOMAIN b = 1..Len(b)
      /\ a[1] \in Message /\ a[2] \in Message
  OBVIOUS
<1>2. PICK i \in 1..Len(a) :
        /\ o \in DOMAIN a[i] /\ a[i][o] = s
        /\ \A j \in 1..Len(a) : j > i => o \notin DOMAIN a[j]
  BY <1>1 DEF Newest
<1>3. /\ DOMAIN b[1] = DOMAIN a[1] \cup DOMAIN a[2]
      /\ \A x \in DOMAIN a[2] : b[1][x] = a[2][x]
      /\ \A x \in DOMAIN a[1] \ DOMAIN a[2] : b[1][x] = a[1][x]
  <2>1. /\ DOMAIN Merge(a[1], a[2]) = DOMAIN a[1] \cup DOMAIN a[2]
        /\ \A x \in DOMAIN a[2] : Merge(a[1], a[2])[x] = a[2][x]
        /\ \A x \in DOMAIN a[1] \ DOMAIN a[2] : Merge(a[1], a[2])[x] = a[1][x]
    BY <1>1, MergeIs
  <2> QED  BY <2>1
<1> DEFINE k == IF i <= 2 THEN 1 ELSE i - 1
<1>4. k \in 1..Len(b) /\ (k > 1 => i = k + 1) /\ (k = 1 => i \in {1, 2})
  BY <1>1
<1>5. o \in DOMAIN b[k] /\ b[k][o] = s
  <2>1. CASE k = 1
    <3>1. CASE i = 1
      <4>1. o \notin DOMAIN a[2]
        BY <3>1, <1>1, <1>2
      <4> QED  BY <3>1, <4>1, <2>1, <1>2, <1>3
    <3>2. CASE i = 2
      BY <3>2, <2>1, <1>2, <1>3
    <3> QED  BY <3>1, <3>2, <2>1, <1>4
  <2>2. CASE k > 1
    <3>1. b[k] = a[i]
      BY <2>2, <1>4
    <3> QED  BY <3>1, <1>2
  <2> QED  BY <2>1, <2>2, <1>4
<1> HIDE DEF k
<1>6. \A j \in 1..Len(b) : j > k => o \notin DOMAIN b[j]
  <2> SUFFICES ASSUME NEW j \in 1..Len(b), j > k PROVE o \notin DOMAIN b[j]
    OBVIOUS
  <2>1. b[j] = a[j + 1] /\ j + 1 \in 1..Len(a) /\ j + 1 > i
    BY <1>1, <1>4
  <2> QED  BY <2>1, <1>2
<1> QED  BY <1>1, <1>4, <1>5, <1>6 DEF Newest

-----------------------------------------------------------------------------
LEMMA StreamsJoin ==
  ASSUME NEW a \in Seq(Message), NEW b \in Seq(Message), NEW c \in Seq(Message)
  PROVE  (a \o b) \o c = a \o (b \o c)
BY ConcatAssociative

LEMMA StreamConcat ==
  ASSUME NEW a \in Seq(Message), NEW b \in Seq(Message)
  PROVE  /\ a \o b \in Seq(Message) /\ Len(a \o b) = Len(a) + Len(b)
         /\ \A i \in 1..(Len(a) + Len(b)) :
              (a \o b)[i] = IF i <= Len(a) THEN a[i] ELSE b[i - Len(a)]
<1> HIDE DEF Message
<1> QED  BY ConcatProperties, Zenon

LEMMA StreamSplit ==
  ASSUME NEW b \in Seq(Message), NEW n \in 0..Len(b)
  PROVE  SubSeq(b, 1, n) \o SubSeq(b, n + 1, Len(b)) = SubSeq(b, 1, Len(b))
<1>1. Len(b) \in Nat
  OBVIOUS
<1>2. 1 \in 1..(Len(b) + 1) /\ n \in (1 - 1)..Len(b) /\ Len(b) \in n..Len(b)
  BY <1>1
<1> HIDE DEF Message
<1> QED  BY ONLY <1>2, b \in Seq(Message), ConcatAdjacentSubSeq, Zenon

\* What the socket takes leaves the buffer, and the stream as it was.
LEMMA Moved ==
  ASSUME NEW a \in Seq(Message), NEW b \in Seq(Message), NEW n \in 0..Len(b)
  PROVE  /\ a \o SubSeq(b, 1, n) \in Seq(Message)
         /\ Len(a \o SubSeq(b, 1, n)) = Len(a) + n
         /\ SubSeq(b, n + 1, Len(b)) \in Seq(Message)
         /\ (a \o SubSeq(b, 1, n)) \o SubSeq(b, n + 1, Len(b)) = a \o b
<1>1. /\ SubSeq(b, 1, n) \in Seq(Message) /\ Len(SubSeq(b, 1, n)) = n
  BY SubSeqProperties
<1>2. SubSeq(b, n + 1, Len(b)) \in Seq(Message)
  BY SubSeqProperties
<1>3. SubSeq(b, 1, n) \o SubSeq(b, n + 1, Len(b)) = SubSeq(b, 1, Len(b))
  BY StreamSplit
<1>4. SubSeq(b, 1, Len(b)) = b
  BY SubSeqFull
<1>5. (a \o SubSeq(b, 1, n)) \o SubSeq(b, n + 1, Len(b))
        = a \o (SubSeq(b, 1, n) \o SubSeq(b, n + 1, Len(b)))
  BY <1>1, <1>2, StreamsJoin, Zenon
<1>6. a \o SubSeq(b, 1, n) \in Seq(Message) /\ Len(a \o SubSeq(b, 1, n)) = Len(a) + n
  BY <1>1, ConcatProperties
<1> QED  BY <1>2, <1>3, <1>4, <1>5, <1>6

LEMMA SmallerIs ==
  ASSUME NEW x \in Nat, NEW y \in Nat
  PROVE  Smaller(x, y) \in 0..x /\ Smaller(x, y) <= y
BY DEF Smaller

\* _do_send does not change what clients hear.
LEMMA DoSendKeeps ==
  ASSUME WebTypes, NEW buffer \in [Watchers -> Seq(Message)], NEW ws \in SUBSET Watchers,
         DoSend(ws, buffer)
  PROVE  /\ socket' \in [Watchers -> Seq(Message)]
         /\ send_buffer' \in [Watchers -> Seq(Message)]
         /\ \A w \in Watchers : /\ Len(socket'[w]) <= Room
                               /\ socket'[w] \o send_buffer'[w] = socket[w] \o buffer[w]
<1> DEFINE able == {w \in ws : w \in open}
           sent == [w \in Watchers |->
                      IF w \in able
                      THEN Smaller(Len(buffer[w]), Room - Len(socket[w]))
                      ELSE 0]
<1>1. /\ socket' = [w \in Watchers |-> socket[w] \o SubSeq(buffer[w], 1, sent[w])]
      /\ send_buffer' = [w \in Watchers |->
                            IF w \in able THEN SubSeq(buffer[w], sent[w] + 1, Len(buffer[w]))
                            ELSE buffer[w]]
  BY DEF DoSend, Unsent
<1>2. ASSUME NEW w \in Watchers
      PROVE  \E n \in 0..Len(buffer[w]) :
               /\ Len(socket[w]) + n <= Room
               /\ socket'[w] = socket[w] \o SubSeq(buffer[w], 1, n)
               /\ send_buffer'[w] = SubSeq(buffer[w], n + 1, Len(buffer[w]))
  <2>1. buffer[w] \in Seq(Message) /\ socket[w] \in Seq(Message) /\ Len(socket[w]) <= Room
    BY DEF WebTypes
  <2>2. Len(buffer[w]) \in Nat /\ Len(socket[w]) \in Nat
    BY <2>1
  <2>3. CASE w \in able
    <3> DEFINE n == Smaller(Len(buffer[w]), Room - Len(socket[w]))
    <3>1. n \in 0..Len(buffer[w]) /\ Len(socket[w]) + n <= Room
      <4>1. Room - Len(socket[w]) \in Nat
        BY <2>1, <2>2, WebAssumption
      <4>2. n \in 0..Len(buffer[w]) /\ n <= Room - Len(socket[w])
        BY <2>2, <4>1, SmallerIs
      <4> HIDE DEF n
      <4> QED  BY <2>2, <4>2, WebAssumption
    <3>2. /\ socket'[w] = socket[w] \o SubSeq(buffer[w], 1, n)
          /\ send_buffer'[w] = SubSeq(buffer[w], n + 1, Len(buffer[w]))
      <4> HIDE DEF able
      <4> QED  BY <2>3, <1>1
    <3> QED  BY <3>1, <3>2
  <2>4. CASE w \notin able
    <3>1. SubSeq(buffer[w], 1, Len(buffer[w])) = buffer[w]
      BY <2>1, SubSeqFull
    <3>2. /\ socket'[w] = socket[w] \o SubSeq(buffer[w], 1, 0)
          /\ send_buffer'[w] = SubSeq(buffer[w], 0 + 1, Len(buffer[w]))
      <4> HIDE DEF able
      <4> QED  BY <2>4, <3>1, <1>1
    <3>3. 0 \in 0..Len(buffer[w]) /\ Len(socket[w]) + 0 <= Room
      BY <2>1, <2>2
    <3> QED  BY <3>2, <3>3
  <2> QED  BY <2>3, <2>4
<1>3. ASSUME NEW w \in Watchers
      PROVE  /\ socket'[w] \in Seq(Message) /\ send_buffer'[w] \in Seq(Message)
             /\ Len(socket'[w]) <= Room
             /\ socket'[w] \o send_buffer'[w] = socket[w] \o buffer[w]
  <2>1. PICK n \in 0..Len(buffer[w]) :
               /\ Len(socket[w]) + n <= Room
               /\ socket'[w] = socket[w] \o SubSeq(buffer[w], 1, n)
               /\ send_buffer'[w] = SubSeq(buffer[w], n + 1, Len(buffer[w]))
    BY <1>2
  <2>2. buffer[w] \in Seq(Message) /\ socket[w] \in Seq(Message)
    BY DEF WebTypes
  <2>3. /\ socket[w] \o SubSeq(buffer[w], 1, n) \in Seq(Message)
        /\ Len(socket[w] \o SubSeq(buffer[w], 1, n)) = Len(socket[w]) + n
        /\ SubSeq(buffer[w], n + 1, Len(buffer[w])) \in Seq(Message)
        /\ (socket[w] \o SubSeq(buffer[w], 1, n))
              \o SubSeq(buffer[w], n + 1, Len(buffer[w])) = socket[w] \o buffer[w]
    BY <2>2, Moved
  <2> QED  BY <2>1, <2>3
<1> HIDE DEF able, sent
<1> QED  BY <1>1, <1>3

\* A message is the newest of what its receivers hear.
LEMMA SendTells ==
  ASSUME WebTypes, NEW ws \in SUBSET Watchers, NEW message,
         \A w \in ws : message[w] \in Message,
         Send(ws, message), UNCHANGED view
  PROVE  /\ socket' \in [Watchers -> Seq(Message)]
         /\ send_buffer' \in [Watchers -> Seq(Message)]
         /\ \A w \in Watchers : /\ Len(socket'[w]) <= Room
                               /\ Heard(w) \in Seq(Message)
                               /\ Heard(w)' = IF w \in ws \cap open
                                             THEN Append(Heard(w), message[w])
                                             ELSE Heard(w)
<1> DEFINE buffer == [w \in Watchers |->
                        IF w \in ws \cap open
                        THEN Append(send_buffer[w], message[w])
                        ELSE send_buffer[w]]
<1>1. DoSend({w \in ws : ~is_blocking[w]}, buffer)
  BY DEF Send
<1>2. \A w \in Watchers : buffer[w] \in Seq(Message)
  BY DEF WebTypes
<1>3. buffer \in [Watchers -> Seq(Message)]
  BY <1>2
<1>4. \A w \in Watchers : buffer[w] = IF w \in ws \cap open
                                   THEN Append(send_buffer[w], message[w])
                                   ELSE send_buffer[w]
  OBVIOUS
<1> HIDE DEF buffer
<1>5. /\ socket' \in [Watchers -> Seq(Message)]
      /\ send_buffer' \in [Watchers -> Seq(Message)]
      /\ \A w \in Watchers : /\ Len(socket'[w]) <= Room
                            /\ socket'[w] \o send_buffer'[w] = socket[w] \o buffer[w]
  BY <1>1, <1>3, DoSendKeeps
<1>6. ASSUME NEW w \in Watchers
      PROVE  /\ Heard(w) \in Seq(Message)
             /\ Heard(w)' = IF w \in ws \cap open THEN Append(Heard(w), message[w])
                            ELSE Heard(w)
  <2> DEFINE v == << view[w] >>
             x == socket[w]
             y == send_buffer[w]
  <2>1. v \in Seq(Message) /\ x \in Seq(Message) /\ y \in Seq(Message)
    BY DEF WebTypes
  <2>2. Heard(w) = (v \o x) \o y /\ Heard(w) \in Seq(Message)
    BY <2>1, ConcatProperties DEF Heard
  <2>3. Heard(w)' = (v \o socket'[w]) \o send_buffer'[w]
    BY DEF Heard
  <2> HIDE DEF v, x, y
  <2>4. socket'[w] \in Seq(Message) /\ send_buffer'[w] \in Seq(Message)
        /\ buffer[w] \in Seq(Message)
    BY <1>3, <1>5
  <2>5. (v \o socket'[w]) \o send_buffer'[w] = v \o (socket'[w] \o send_buffer'[w])
    BY <2>1, <2>4, StreamsJoin, ZenonT(40)
  <2>6. socket'[w] \o send_buffer'[w] = x \o buffer[w]
    BY <1>5 DEF x
  <2>7. v \o (x \o buffer[w]) = (v \o x) \o buffer[w]
    BY <2>1, <2>4, StreamsJoin, ZenonT(40)
  <2>8. Heard(w)' = (v \o x) \o buffer[w]
    BY <2>3, <2>5, <2>6, <2>7
  <2>9. CASE w \in ws \cap open
    <3>1. buffer[w] = Append(y, message[w]) /\ message[w] \in Message
      BY <2>9, <1>4 DEF y
    <3>2. Append(y, message[w]) = y \o << message[w] >>
          /\ Append((v \o x) \o y, message[w]) = ((v \o x) \o y) \o << message[w] >>
      BY <3>1, <2>1, <2>2, AppendIsConcat
    <3>3. v \o x \in Seq(Message) /\ << message[w] >> \in Seq(Message)
      BY <3>1, <2>1, ConcatProperties
    <3>4. ((v \o x) \o y) \o << message[w] >> = (v \o x) \o (y \o << message[w] >>)
      BY <3>3, <2>1, StreamsJoin
    <3> QED  BY <3>1, <3>2, <3>4, <2>2, <2>8, <2>9
  <2>10. CASE w \notin ws \cap open
    BY <2>10, <1>4, <2>2, <2>8 DEF y
  <2> QED  BY <2>2, <2>9, <2>10
<1> QED  BY <1>5, <1>6

-----------------------------------------------------------------------------
LEMMA WebInvInit == WebInit => WebInv
<1> SUFFICES ASSUME WebInit PROVE WebInv
  OBVIOUS
<1>1. NoNews \in Message /\ DOMAIN NoNews = {}
  <2>1. NoNews \in [{} -> Statuses] /\ DOMAIN NoNews = {}
    BY DEF NoNews
  <2> QED  BY <2>1 DEF Message
<1>2. status_now \in [Objs -> Statuses]
  BY WebAssumption DEF WebInit
<1>3. WebTypes
  BY <1>1, <1>2, WebAssumption DEF WebInit, WebTypes
<1>4. AnswersLast /\ ViewsCurrent
  BY <1>1 DEF WebInit, AnswersLast, ViewsCurrent
<1> QED  BY <1>3, <1>4 DEF WebInv

\* Steps in which nobody hears anything else and no query begins or ends.
LEMMA QuietStep ==
  ASSUME WebInv, WebTypes',
         UNCHANGED <<last_query, pending_queries, completed, query_timer, subscribed>>,
         open' \subseteq open,
         \A w \in open' : \A o, s : Newest(Heard(w), o, s) => Newest(Heard(w)', o, s)
  PROVE  WebInv'
  BY DEF WebInv, AnswersLast, ViewsCurrent

LEMMA HeardJoins ==
  ASSUME WebTypes, NEW w \in Watchers
  PROVE  /\ Heard(w) = << view[w] >> \o (socket[w] \o send_buffer[w])
         /\ Heard(w) \in Seq(Message)
<1>1. /\ << view[w] >> \in Seq(Message) /\ socket[w] \in Seq(Message)
      /\ send_buffer[w] \in Seq(Message)
  BY DEF WebTypes
<1>2. Heard(w) = << view[w] >> \o (socket[w] \o send_buffer[w])
  BY <1>1, StreamsJoin DEF Heard
<1>3. Heard(w) \in Seq(Message)
  BY <1>1, ConcatProperties DEF Heard
<1> QED  BY <1>2, <1>3

LEMMA WritableInv ==
  ASSUME WebInv, NEW w \in Watchers, Writable(w) PROVE WebInv'
<1>t. WebTypes
  BY DEF WebInv
<1>1. /\ DoSend({w}, send_buffer)
      /\ UNCHANGED <<status_now, last_query, pending_queries, completed,
                     query_timer, subscribed, open, view>>
  BY DEF Writable
<1>2. /\ socket' \in [Watchers -> Seq(Message)]
      /\ send_buffer' \in [Watchers -> Seq(Message)]
      /\ \A x \in Watchers : /\ Len(socket'[x]) <= Room
                            /\ socket'[x] \o send_buffer'[x] = socket[x] \o send_buffer[x]
  <2>1. send_buffer \in [Watchers -> Seq(Message)] /\ {w} \in SUBSET Watchers
    BY <1>t DEF WebTypes
  <2> QED  BY <1>t, <1>1, <2>1, DoSendKeeps
<1>3. WebTypes'
  BY <1>t, <1>1, <1>2 DEF WebTypes
<1>4. \A x \in Watchers : Heard(x)' = Heard(x)
  <2> TAKE x \in Watchers
  <2>1. Heard(x) = << view[x] >> \o (socket[x] \o send_buffer[x])
    BY <1>t, HeardJoins
  <2>2. Heard(x)' = << view'[x] >> \o (socket'[x] \o send_buffer'[x])
    <3>1. /\ << view'[x] >> \in Seq(Message) /\ socket'[x] \in Seq(Message)
          /\ send_buffer'[x] \in Seq(Message)
      BY <1>3 DEF WebTypes
    <3> QED  BY <3>1, StreamsJoin DEF Heard
  <2> QED  BY <2>1, <2>2, <1>1, <1>2
<1> QED  BY <1>1, <1>3, <1>4, QuietStep DEF WebInv, WebTypes

LEMMA CloseInv ==
  ASSUME WebInv, NEW w \in Watchers, Close(w) PROVE WebInv'
<1>1. NoNews \in Message
  <2>1. NoNews \in [{} -> Statuses]
    BY DEF NoNews
  <2> QED  BY <2>1 DEF Message
<1>2. WebTypes'
  BY <1>1, WebAssumption DEF WebInv, WebTypes, Close
<1>3. \A x \in open' : Heard(x)' = Heard(x)
  BY DEF Close, Heard, WebInv, WebTypes
<1> QED  BY <1>2, <1>3, QuietStep DEF Close

LEMMA ClientReadsInv ==
  ASSUME WebInv, NEW w \in Watchers, ClientReads(w) PROVE WebInv'
<1>t. WebTypes
  BY DEF WebInv
<1> DEFINE s == socket[w]
           b == send_buffer[w]
<1>1. /\ s \in Seq(Message) /\ s # << >> /\ b \in Seq(Message) /\ view[w] \in Message
      /\ Len(s) <= Room
  BY <1>t DEF WebTypes, ClientReads
<1>2. /\ Head(s) \in Message /\ Tail(s) \in Seq(Message) /\ Len(Tail(s)) = Len(s) - 1
      /\ Head(s) = s[1] /\ \A i \in 1..Len(Tail(s)) : Tail(s)[i] = s[i + 1]
  BY <1>1, HeadTailProperties
<1>3. Merge(view[w], Head(s)) \in Message
  BY <1>1, <1>2, MergeIs
<1>4. /\ view' = [view EXCEPT ![w] = Merge(view[w], Head(s))]
      /\ socket' = [socket EXCEPT ![w] = Tail(s)]
      /\ UNCHANGED <<status_now, last_query, pending_queries, completed,
                     query_timer, subscribed, open, send_buffer>>
  BY DEF ClientReads
<1> HIDE DEF s, b
<1>5. Len(Tail(s)) <= Room
  <2>1. Len(s) \in Nat
    BY <1>1
  <2> QED  BY <2>1, <1>1, <1>2, WebAssumption
<1>6. WebTypes'
  BY <1>t, <1>2, <1>3, <1>4, <1>5 DEF WebTypes
<1>7. \A x \in open \ {w} : Heard(x)' = Heard(x)
  BY <1>t, <1>4 DEF Heard, WebTypes
<1>8. \A o, v : Newest(Heard(w), o, v) => Newest(Heard(w)', o, v)
  <2> DEFINE r == << view[w] >>
             n == << Merge(view[w], Head(s)) >>
  <2>1. /\ r \in Seq(Message) /\ n \in Seq(Message) /\ Len(r) = 1 /\ Len(n) = 1
        /\ r[1] = view[w] /\ n[1] = Merge(view[w], Head(s))
    BY <1>1, <1>3
  <2>2. Heard(w) = (r \o s) \o b /\ Heard(w)' = (n \o Tail(s)) \o b
    BY <1>4, <1>t DEF Heard, WebTypes, s, b
  <2> HIDE DEF r, n
  <2>3. /\ r \o s \in Seq(Message) /\ Len(r \o s) = 1 + Len(s) /\ (r \o s)[1] = r[1]
        /\ \A i \in 2..(1 + Len(s)) : (r \o s)[i] = s[i - 1]
    <3>1. /\ r \o s \in Seq(Message) /\ Len(r \o s) = Len(r) + Len(s)
          /\ \A i \in 1..(Len(r) + Len(s)) :
               (r \o s)[i] = IF i <= Len(r) THEN r[i] ELSE s[i - Len(r)]
      BY <1>1, <2>1, StreamConcat
    <3>2. Len(s) \in Nat
      BY <1>1
    <3> QED  BY <3>1, <3>2, <2>1
  <2>4. /\ n \o Tail(s) \in Seq(Message) /\ Len(n \o Tail(s)) = Len(s) /\ (n \o Tail(s))[1] = n[1]
        /\ \A i \in 2..Len(s) : (n \o Tail(s))[i] = s[i]
    <3>1. /\ n \o Tail(s) \in Seq(Message) /\ Len(n \o Tail(s)) = Len(n) + Len(Tail(s))
          /\ \A i \in 1..(Len(n) + Len(Tail(s))) :
               (n \o Tail(s))[i] = IF i <= Len(n) THEN n[i] ELSE Tail(s)[i - Len(n)]
      BY <1>2, <2>1, StreamConcat
    <3>2. Len(s) \in Nat /\ Len(s) >= 1
      BY <1>1
    <3>3. \A i \in 2..Len(s) : i - 1 \in 1..Len(Tail(s)) /\ (i - 1) + 1 = i
      BY <3>2, <1>2
    <3> QED  BY <3>1, <3>2, <3>3, <2>1, <1>2
  <2> DEFINE a == (r \o s) \o b
             c == (n \o Tail(s)) \o b
  <2>5. /\ a \in Seq(Message) /\ Len(a) = 1 + Len(s) + Len(b)
        /\ \A i \in 1..(1 + Len(s) + Len(b)) :
             a[i] = IF i <= 1 + Len(s) THEN (r \o s)[i] ELSE b[i - (1 + Len(s))]
    <3>1. r \o s \in Seq(Message) /\ Len(r \o s) = 1 + Len(s)
      BY <2>3
    <3>2. /\ a \in Seq(Message) /\ Len(a) = Len(r \o s) + Len(b)
          /\ \A i \in 1..(Len(r \o s) + Len(b)) :
               a[i] = IF i <= Len(r \o s) THEN (r \o s)[i] ELSE b[i - Len(r \o s)]
      BY <3>1, <1>1, StreamConcat, Zenon
    <3> HIDE DEF a
    <3> QED  BY <3>1, <3>2, Zenon
  <2>6. /\ c \in Seq(Message) /\ Len(c) = Len(s) + Len(b)
        /\ \A i \in 1..(Len(s) + Len(b)) :
             c[i] = IF i <= Len(s) THEN (n \o Tail(s))[i] ELSE b[i - Len(s)]
    <3>1. n \o Tail(s) \in Seq(Message) /\ Len(n \o Tail(s)) = Len(s)
      BY <2>4
    <3>2. /\ c \in Seq(Message) /\ Len(c) = Len(n \o Tail(s)) + Len(b)
          /\ \A i \in 1..(Len(n \o Tail(s)) + Len(b)) :
               c[i] = IF i <= Len(n \o Tail(s)) THEN (n \o Tail(s))[i]
                      ELSE b[i - Len(n \o Tail(s))]
      BY <3>1, <1>1, StreamConcat, Zenon
    <3> HIDE DEF c
    <3> QED  BY <3>1, <3>2, Zenon
  <2> HIDE DEF a, c
  <2>7. Len(s) \in Nat /\ Len(s) >= 1 /\ Len(b) \in Nat
    BY <1>1
  <2>8. /\ Len(a) >= 2 /\ Len(c) = Len(a) - 1
        /\ a[1] = view[w] /\ a[2] = Head(s) /\ c[1] = Merge(a[1], a[2])
    BY <1>2, <2>1, <2>3, <2>4, <2>5, <2>6, <2>7
  <2>9. \A i \in 2..Len(c) : c[i] = a[i + 1]
    <3> TAKE i \in 2..Len(c)
    <3>1. CASE i <= Len(s)
      <4>0. i \in 2..Len(s) /\ i \in 1..(Len(s) + Len(b))
            /\ i + 1 \in 2..(1 + Len(s)) /\ i + 1 \in 1..(1 + Len(s) + Len(b))
            /\ i + 1 <= 1 + Len(s) /\ (i + 1) - 1 = i
        <5>1. Len(c) = Len(s) + Len(b)
          BY <2>6
        <5> QED  BY ONLY <3>1, <5>1, <2>7, i \in 2..Len(c)
      <4>1. c[i] = s[i]
        <5>1. c[i] = (n \o Tail(s))[i]
          BY <3>1, <4>0, <2>6
        <5> QED  BY <5>1, <4>0, <2>4
      <4>2. a[i + 1] = s[i]
        <5>1. a[i + 1] = (r \o s)[i + 1]
          BY <4>0, <2>5
        <5>2. (r \o s)[i + 1] = s[(i + 1) - 1]
          BY <4>0, <2>3
        <5> QED  BY <5>1, <5>2, <4>0
      <4> QED  BY <4>1, <4>2
    <3>2. CASE i > Len(s)
      <4>1. c[i] = b[i - Len(s)]
        BY <3>2, <2>6, <2>7
      <4>2. a[i + 1] = b[(i + 1) - (1 + Len(s))] /\ (i + 1) - (1 + Len(s)) = i - Len(s)
        BY <3>2, <2>5, <2>6, <2>7
      <4> QED  BY <4>1, <4>2
    <3> QED  BY <3>1, <3>2, <2>6, <2>7
  <2>10. Heard(w) = a /\ Heard(w)' = c
    BY <2>2 DEF a, c
  <2>11. \A o, v : Newest(a, o, v) => Newest(c, o, v)
    BY <2>5, <2>6, <2>8, <2>9, NewestRead
  <2> QED  BY <2>10, <2>11
<1> QED  BY <1>4, <1>6, <1>7, <1>8, QuietStep

LEMMA StatsInv ==
  ASSUME WebInv, NEW w \in Watchers, Stats(w) PROVE WebInv'
<1>1. CASE Close(w)
  BY <1>1, CloseInv
<1>2. CASE ~Close(w)
  <2>1. UNCHANGED <<status_now, last_query, pending_queries, completed, query_timer,
                    subscribed, open, send_buffer, socket, view>>
    BY <1>2 DEF Stats
  <2>2. WebTypes'
    BY <2>1 DEF WebInv, WebTypes
  <2>3. \A x \in open' : Heard(x)' = Heard(x)
    BY <2>1 DEF Heard
  <2> QED  BY <2>1, <2>2, <2>3, QuietStep
<1> QED  BY <1>1, <1>2

LEMMA StatusChangesInv ==
  ASSUME WebInv, StatusChanges PROVE WebInv'
<1>1. UNCHANGED <<last_query, pending_queries, completed, query_timer,
                  subscribed, open, send_buffer, socket, view>>
  BY DEF StatusChanges
<1>2. status_now' \in [Objs -> Statuses]
  BY DEF StatusChanges, WebInv, WebTypes
<1>3. WebTypes'
  BY <1>1, <1>2 DEF WebInv, WebTypes
<1>4. \A x \in open' : Heard(x)' = Heard(x)
  BY <1>1 DEF Heard
<1> QED  BY <1>1, <1>3, <1>4, QuietStep

LEMMA HandleQueryInv ==
  ASSUME WebInv, NEW w \in Watchers, NEW objs \in (SUBSET Objs) \ {{}},
         NEW subscribe \in BOOLEAN, HandleQuery(w, objs, subscribe)
  PROVE  WebInv'
<1> DEFINE r == [watcher |-> w, objs |-> objs, subscribe |-> subscribe]
<1>1. /\ pending_queries' = Append(pending_queries, r) /\ query_timer' = TRUE
      /\ subscribed' = IF subscribe THEN Without(subscribed, w) ELSE subscribed
      /\ UNCHANGED <<status_now, last_query, completed, open, send_buffer,
                     socket, view>>
  BY DEF HandleQuery
<1>2. r \in Request
  BY DEF Request
<1> HIDE DEF r
<1>3. pending_queries' \in Seq(Request)
  BY <1>1, <1>2 DEF WebInv, WebTypes
<1>4. /\ DOMAIN subscribed' \subseteq DOMAIN subscribed
      /\ \A x \in DOMAIN subscribed' : subscribed'[x] = subscribed[x]
  BY <1>1 DEF Without
<1>5. WebTypes'
  BY <1>1, <1>3, <1>4 DEF WebInv, WebTypes
<1>6. AnswersLast'
  BY <1>1 DEF WebInv, AnswersLast
<1>7. \A x \in open : Heard(x)' = Heard(x)
  BY <1>1 DEF Heard
<1>8. ViewsCurrent'
  BY <1>1, <1>4, <1>7 DEF WebInv, ViewsCurrent
<1> QED  BY <1>5, <1>6, <1>8 DEF WebInv

LEMMA StatusIs ==
  ASSUME WebTypes, NEW S \in SUBSET Objs
  PROVE  /\ Status(S) \in Message /\ DOMAIN Status(S) = S
         /\ \A o \in S : Status(S)[o] = status_now[o]
<1>1. Status(S) \in [S -> Statuses]
  BY DEF Status, WebTypes
<1>2. \A o \in S : Status(S)[o] = status_now[o]
  BY DEF Status
<1> QED  BY <1>1, <1>2 DEF Message

LEMMA DoQueryInv ==
  ASSUME WebInv, DoQuery PROVE WebInv'
<1>t. WebTypes
  BY DEF WebInv
<1> DEFINE live == [w \in DOMAIN subscribed \cap open |-> subscribed[w]]
           asked == UNION ({live[w] : w \in DOMAIN live} \cup
                           {pending_queries[i].objs : i \in DOMAIN pending_queries})
           news == [w \in Watchers |->
                      IF w \in DOMAIN live
                      THEN Status({o \in live[w] : Changed(o)}) ELSE NoNews]
           ws == {w \in DOMAIN live : news[w] # NoNews}
           comp == [i \in DOMAIN pending_queries |->
                      [request |-> pending_queries[i],
                       answer |-> Status(pending_queries[i].objs)]]
<1>1. /\ completed' = comp /\ pending_queries' = << >> /\ last_query' = Status(asked)
      /\ subscribed' = live /\ Send(ws, news) /\ query_timer' = ~(asked = {})
      /\ UNCHANGED <<status_now, open, view>>
  BY DEF DoQuery, QueriesEnd
<1>2. /\ DOMAIN live = DOMAIN subscribed \cap open
      /\ \A w \in DOMAIN live : live[w] = subscribed[w] /\ live[w] \in SUBSET Objs
                               /\ w \in Watchers
  BY <1>t DEF WebTypes
<1>3. \A i \in DOMAIN pending_queries : /\ pending_queries[i] \in Request
                                       /\ pending_queries[i].objs \in SUBSET Objs
                                       /\ pending_queries[i].objs # {}
  <2>1. \A i \in DOMAIN pending_queries : pending_queries[i] \in Request
    BY <1>t DEF WebTypes
  <2>2. \A q \in Request : q.objs \in SUBSET Objs /\ q.objs # {}
    BY DEF Request
  <2> QED  BY <2>1, <2>2
<1>4. /\ asked \in SUBSET Objs
      /\ \A w \in DOMAIN live : live[w] \subseteq asked
      /\ \A i \in DOMAIN pending_queries : pending_queries[i].objs \subseteq asked
  <2> HIDE DEF live
  <2> QED  BY <1>2, <1>3
<1>5. \A w \in DOMAIN live :
        /\ news[w] = Status({o \in live[w] : Changed(o)})
        /\ news[w] \in Message /\ DOMAIN news[w] = {o \in live[w] : Changed(o)}
        /\ \A o \in DOMAIN news[w] : news[w][o] = status_now[o]
  <2> TAKE w \in DOMAIN live
  <2>1. {o \in live[w] : Changed(o)} \in SUBSET Objs
    BY <1>2
  <2>2. news[w] = Status({o \in live[w] : Changed(o)})
    BY <1>2
  <2> HIDE DEF news, live
  <2> QED  BY <2>1, <2>2, <1>t, StatusIs
<1>6. \A i \in DOMAIN comp : /\ comp[i] = [request |-> pending_queries[i],
                                         answer |-> Status(pending_queries[i].objs)]
                            /\ i \in DOMAIN pending_queries
  OBVIOUS
<1>7. /\ DOMAIN comp = 1..Len(pending_queries) /\ Len(pending_queries) \in Nat
      /\ DOMAIN pending_queries = 1..Len(pending_queries)
  BY <1>t DEF WebTypes
<1>8. ws \in SUBSET Watchers /\ ws \subseteq DOMAIN live
  BY <1>2
<1>9. \A w \in DOMAIN live : w \notin ws => news[w] = NoNews
  OBVIOUS
<1> HIDE DEF live, asked, news, ws, comp
<1>10. /\ last_query' \in Message /\ DOMAIN last_query' = asked
       /\ \A o \in asked : last_query'[o] = status_now[o]
  BY <1>t, <1>1, <1>4, StatusIs
<1>11. /\ socket' \in [Watchers -> Seq(Message)]
       /\ send_buffer' \in [Watchers -> Seq(Message)]
       /\ \A w \in Watchers : /\ Len(socket'[w]) <= Room
                              /\ Heard(w) \in Seq(Message)
                              /\ Heard(w)' = IF w \in ws \cap open
                                             THEN Append(Heard(w), news[w])
                                             ELSE Heard(w)
  BY <1>t, <1>1, <1>5, <1>8, SendTells
<1>12. completed' \in Seq(Answer)
  <2>1. \A i \in DOMAIN comp : comp[i] \in Answer
    <3> TAKE i \in DOMAIN comp
    <3>1. Status(pending_queries[i].objs) \in Message
      BY <1>t, <1>3, <1>6, StatusIs
    <3> QED  BY <3>1, <1>3, <1>6 DEF Answer
  <2>2. comp \in [1..Len(pending_queries) -> Answer]
    BY <2>1, <1>7 DEF comp
  <2> QED  BY <2>2, <1>1, <1>7
<1>13. WebTypes'
  <2>1. pending_queries' \in Seq(Request)
    BY <1>1
  <2>2. /\ DOMAIN subscribed' \subseteq Watchers
        /\ \A w \in DOMAIN subscribed' : subscribed'[w] \subseteq Objs
    BY <1>1, <1>2
  <2> QED  BY <2>1, <2>2, <1>t, <1>1, <1>10, <1>11, <1>12 DEF WebTypes
<1>14. AnswersLast'
  <2>1. \A i \in DOMAIN comp :
          /\ DOMAIN comp[i].answer = comp[i].request.objs
          /\ \A o \in comp[i].request.objs :
               o \in DOMAIN last_query' /\ comp[i].answer[o] = last_query'[o]
    <3> TAKE i \in DOMAIN comp
    <3> DEFINE objs == pending_queries[i].objs
    <3>1. comp[i].request.objs = objs /\ comp[i].answer = Status(objs)
      BY <1>6
    <3>2. objs \in SUBSET Objs /\ objs \subseteq asked
      BY <1>3, <1>4, <1>6
    <3> HIDE DEF objs
    <3>3. DOMAIN Status(objs) = objs /\ \A o \in objs : Status(objs)[o] = status_now[o]
      BY <1>t, <3>2, StatusIs
    <3> QED  BY <3>1, <3>2, <3>3, <1>10
  <2>2. (completed' # << >> \/ pending_queries' # << >>) => query_timer' = TRUE
    <3> SUFFICES ASSUME completed' # << >> PROVE query_timer' = TRUE
      BY <1>1
    <3>1. 1 \in DOMAIN comp
      <4>1. Len(completed') # 0
        BY <1>12
      <4>2. Len(completed') = Len(pending_queries)
        BY <1>1, <1>7, <1>12
      <4> QED  BY <4>1, <4>2, <1>7
    <3>2. pending_queries[1].objs # {} /\ pending_queries[1].objs \subseteq asked
      BY <3>1, <1>3, <1>4, <1>6
    <3> QED  BY <3>2, <1>1
  <2> QED  BY <2>1, <2>2, <1>1 DEF AnswersLast
<1>15. ViewsCurrent'
  <2>1. ASSUME NEW w \in open, w \in DOMAIN live, NEW o \in live[w]
        PROVE  o \in DOMAIN last_query' /\ Newest(Heard(w)', o, last_query'[o])
    <3>1. /\ o \in asked /\ w \in Watchers /\ w \in DOMAIN subscribed
          /\ o \in subscribed[w]
      BY <2>1, <1>2, <1>4
    <3>2. o \in DOMAIN last_query' /\ last_query'[o] = status_now[o]
      BY <3>1, <1>10
    <3>3. CASE Changed(o)
      <4>1. o \in DOMAIN news[w] /\ news[w][o] = status_now[o] /\ news[w] \in Message
        BY <2>1, <3>3, <1>5
      <4>2. w \in ws
        <5>1. DOMAIN NoNews = {}
          BY DEF NoNews
        <5> QED  BY <5>1, <4>1, <1>9, <2>1
      <4>3. Heard(w)' = Append(Heard(w), news[w]) /\ Heard(w) \in Seq(Message)
        BY <4>2, <2>1, <3>1, <1>11
      <4> QED  BY <4>1, <4>3, <3>2, NewestAppended
    <3>4. CASE ~Changed(o)
      <4>1. last_query[o] = status_now[o] /\ Newest(Heard(w), o, status_now[o])
        BY <3>4, <3>1, <2>1 DEF Changed, WebInv, ViewsCurrent
      <4>2. o \notin DOMAIN news[w] /\ news[w] \in Message
        BY <3>4, <2>1, <1>5
      <4>3. /\ Heard(w) \in Seq(Message)
            /\ Heard(w)' = Append(Heard(w), news[w]) \/ Heard(w)' = Heard(w)
        BY <3>1, <1>11
      <4>4. Newest(Append(Heard(w), news[w]), o, status_now[o])
        BY <4>1, <4>2, <4>3, NewestAppended
      <4> QED  BY <4>1, <4>3, <4>4, <3>2
    <3> QED  BY <3>3, <3>4
  <2>2. ASSUME NEW w \in DOMAIN live, live[w] # {} PROVE query_timer'
    BY <2>2, <1>1, <1>4
  <2> QED  BY <2>1, <2>2, <1>1 DEF ViewsCurrent
<1> QED  BY <1>13, <1>14, <1>15 DEF WebInv

LEMMA AnswerQueryInv ==
  ASSUME WebInv, AnswerQuery PROVE WebInv'
<1>t. WebTypes
  BY DEF WebInv
<1> DEFINE c == Head(completed)
           r == c.request
           to == [w \in {r.watcher} |-> c.answer]
<1>1. /\ completed # << >> /\ Send({r.watcher}, to)
      /\ subscribed' = IF r.subscribe THEN Merge(subscribed, [w \in {r.watcher} |-> r.objs])
                       ELSE subscribed
      /\ completed' = Tail(completed)
      /\ UNCHANGED <<status_now, last_query, pending_queries, query_timer, open, view>>
  BY DEF AnswerQuery
<1>2. /\ c = completed[1] /\ 1 \in DOMAIN completed /\ c \in Answer
      /\ Tail(completed) \in Seq(Answer)
      /\ \A i \in DOMAIN Tail(completed) : /\ i + 1 \in DOMAIN completed
                                          /\ Tail(completed)[i] = completed[i + 1]
  <2>1. completed \in Seq(Answer)
    BY <1>t DEF WebTypes
  <2> QED  BY <2>1, <1>1, HeadTailProperties
<1> HIDE DEF c
<1>3. r \in Request /\ c.answer \in Message
  BY <1>2 DEF Answer
<1>4. /\ DOMAIN c.answer = r.objs
      /\ \A o \in r.objs : o \in DOMAIN last_query /\ c.answer[o] = last_query[o]
      /\ query_timer = TRUE
  BY <1>1, <1>2 DEF WebInv, AnswersLast
<1> HIDE DEF r
<1>5. r.watcher \in Watchers /\ r.objs \in SUBSET Objs
  BY <1>3 DEF Request
<1>6. to[r.watcher] = c.answer
  OBVIOUS
<1>7. DOMAIN [w \in {r.watcher} |-> r.objs] = {r.watcher}
      /\ [w \in {r.watcher} |-> r.objs][r.watcher] = r.objs
  OBVIOUS
<1> HIDE DEF to
<1>8. /\ socket' \in [Watchers -> Seq(Message)]
      /\ send_buffer' \in [Watchers -> Seq(Message)]
      /\ \A w \in Watchers : /\ Len(socket'[w]) <= Room
                             /\ Heard(w) \in Seq(Message)
                             /\ Heard(w)' = IF w \in {r.watcher} \cap open
                                            THEN Append(Heard(w), to[w])
                                            ELSE Heard(w)
  <2>1. {r.watcher} \in SUBSET Watchers /\ \A w \in {r.watcher} : to[w] \in Message
    BY <1>3, <1>5, <1>6
  <2> QED  BY <2>1, <1>t, <1>1, SendTells
<1>9. \A w \in DOMAIN subscribed' :
        IF w = r.watcher /\ r.subscribe
        THEN subscribed'[w] = r.objs
        ELSE w \in DOMAIN subscribed /\ subscribed'[w] = subscribed[w]
  BY <1>1, <1>7 DEF Merge
<1>10. DOMAIN subscribed' \subseteq Watchers
  <2>1. DOMAIN subscribed' \subseteq DOMAIN subscribed \cup {r.watcher}
    BY <1>9
  <2> QED  BY <2>1, <1>t, <1>5 DEF WebTypes
<1>11. \A w \in DOMAIN subscribed' : subscribed'[w] \subseteq Objs
  BY <1>9, <1>5, <1>t DEF WebTypes
<1>12. WebTypes'
  BY <1>t, <1>1, <1>2, <1>8, <1>10, <1>11 DEF WebTypes
<1>13. AnswersLast'
  <2>1. \A i \in DOMAIN completed' : /\ i + 1 \in DOMAIN completed
                                    /\ completed'[i] = completed[i + 1]
    BY <1>1, <1>2
  <2> QED  BY <2>1, <1>1, <1>4 DEF WebInv, AnswersLast
<1>14. ViewsCurrent'
  <2>1. ASSUME NEW w \in open \cap DOMAIN subscribed', NEW o \in subscribed'[w]
        PROVE  o \in DOMAIN last_query /\ Newest(Heard(w)', o, last_query[o])
    <3>1. w \in Watchers /\ Heard(w) \in Seq(Message)
      BY <1>8, <1>10
    <3>2. CASE w = r.watcher
      <4>1. Heard(w)' = Append(Heard(w), c.answer)
        BY <3>1, <3>2, <1>6, <1>8
      <4>2. CASE o \in r.objs
        <5>1. Newest(Append(Heard(w), c.answer), o, c.answer[o])
          BY <4>2, <3>1, <1>3, <1>4, NewestAppended
        <5> QED  BY <5>1, <4>1, <4>2, <1>4
      <4>3. CASE o \notin r.objs
        <5>1. w \in DOMAIN subscribed /\ subscribed'[w] = subscribed[w]
          BY <4>3, <2>1, <1>9
        <5>2. o \in DOMAIN last_query /\ Newest(Heard(w), o, last_query[o])
          BY <5>1, <2>1 DEF WebInv, ViewsCurrent
        <5>3. Newest(Append(Heard(w), c.answer), o, last_query[o])
          BY <5>2, <4>3, <3>1, <1>3, <1>4, NewestAppended
        <5> QED  BY <5>2, <5>3, <4>1
      <4> QED  BY <4>2, <4>3
    <3>3. CASE w # r.watcher
      <4>1. Heard(w)' = Heard(w)
        BY <3>1, <3>3, <1>8
      <4>2. w \in DOMAIN subscribed /\ subscribed'[w] = subscribed[w]
        BY <3>3, <2>1, <1>9
      <4> QED  BY <4>1, <4>2, <2>1 DEF WebInv, ViewsCurrent
    <3> QED  BY <3>2, <3>3
  <2> QED  BY <2>1, <1>1, <1>4 DEF ViewsCurrent
<1> QED  BY <1>12, <1>13, <1>14 DEF WebInv

LEMMA WebInvStep == WebInv /\ [WebNext]_webVars => WebInv'
<1> SUFFICES ASSUME WebInv, [WebNext]_webVars PROVE WebInv'
  OBVIOUS
<1>1. ASSUME NEW w \in Watchers, Writable(w) \/ ClientGone(w) \/ Stats(w) \/ ClientReads(w)
      PROVE  WebInv'
  BY <1>1, WritableInv, CloseInv, StatsInv, ClientReadsInv DEF ClientGone
<1>2. ASSUME NEW w \in Watchers, NEW objs \in (SUBSET Objs) \ {{}},
             NEW subscribe \in BOOLEAN, HandleQuery(w, objs, subscribe)
      PROVE  WebInv'
  BY <1>2, HandleQueryInv
<1>3. CASE UNCHANGED webVars
  BY <1>3 DEF webVars, WebInv, WebTypes, AnswersLast, ViewsCurrent, Heard
<1> QED  BY <1>1, <1>2, <1>3, DoQueryInv, AnswerQueryInv, StatusChangesInv DEF WebNext

\* A subscriber that reads gets to know the status of its objects at the last
\* query, whoever else asks, subscribes anew or blocks meanwhile, and the
\* queries go on as long as anyone is subscribed (webhooks.py:433-500).
THEOREM ClientsAreCurrent == WebSpec => []ViewsCurrent
<1>1. WebInv => ViewsCurrent
  BY DEF WebInv
<1> QED  BY <1>1, WebInvInit, WebInvStep, PTL DEF WebSpec
=============================================================================
