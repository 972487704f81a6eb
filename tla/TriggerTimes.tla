--------------------------- MODULE TriggerTimes ---------------------------
(***************************************************************************)
(* How long the controllers of a homing move may go on: what               *)
(* handle_trsync_state of chelper/trdispatch.c makes of their last reports. *)
(***************************************************************************)
EXTENDS Naturals, WellFoundedInduction, TLAPS

CONSTANTS
  N,          \* controllers
  Expire      \* expire_ticks: a controller is given this much time

ASSUME TimesAssumption == N \in Nat \ {0} /\ Expire \in Nat \ {0}

Mcu == 1..N

\* The controllers whose reports the time of controller m depends on.
Others(m) == IF N = 1 THEN Mcu ELSE Mcu \ {m}

\* The earliest of the last reports of a set of controllers.
Earliest(S, status) ==
  CHOOSE s \in {status[n] : n \in S} : \A n \in S : s <= status[n]

\* Mutant: the latest report of all counts.
Extended_Latest(status, m) ==
  Expire + CHOOSE s \in {status[n] : n \in Mcu} : \A n \in Mcu : s >= status[n]

\* What the time of controller m may be extended to.
Extended(status, m) == Earliest(Others(m), status) + Expire

-----------------------------------------------------------------------------
(* The earliest report exists, is one of the reports, and is the only one  *)
(* that is no later than all of them.                                      *)

(* A set of numbers that is not empty has a least one.                     *)
LEMMA LeastNumber ==
  ASSUME NEW T \in SUBSET Nat, T # {}
  PROVE  \E s \in T : \A t \in T : s <= t
<1> DEFINE R == OpToRel(<, Nat)
<1>1. IsWellFoundedOn(R, Nat)
  BY NatLessThanWellFounded
<1>2. \A s, t \in Nat : t < s => <<t, s>> \in R
  BY DEF OpToRel
<1> HIDE DEF R
<1>3. PICK s \in T : \A t \in T : ~ (<<t, s>> \in R)
  BY <1>1, WFMin
<1>4. \A t \in T : ~(t < s)
  BY <1>2, <1>3, Zenon
<1> QED BY <1>4

(* What Earliest returns: one of the reports, and none is earlier.         *)
LEMMA EarliestIs ==
  ASSUME NEW S \in SUBSET Mcu, S # {}, NEW status \in [Mcu -> Nat]
  PROVE  /\ Earliest(S, status) \in {status[n] : n \in S}
         /\ Earliest(S, status) \in Nat
         /\ \A n \in S : Earliest(S, status) <= status[n]
<1> DEFINE T == {status[n] : n \in S}
<1>1. T \in SUBSET Nat /\ T # {}
  OBVIOUS
<1>2. \E s \in T : \A t \in T : s <= t
  BY <1>1, LeastNumber
<1>3. \E s \in T : \A n \in S : s <= status[n]
  BY <1>2
<1>4. Earliest(S, status) \in T /\ \A n \in S : Earliest(S, status) <= status[n]
  BY <1>3, Zenon DEF Earliest
<1> QED BY <1>1, <1>4

(* A report that is no later than any is the earliest.                     *)
LEMMA EarliestUnique ==
  ASSUME NEW S \in SUBSET Mcu, NEW status \in [Mcu -> Nat],
         NEW m \in S, \A n \in S : status[m] <= status[n]
  PROVE  Earliest(S, status) = status[m]
<1>1. PICK n \in S : Earliest(S, status) = status[n]
  BY EarliestIs
<1>2. Earliest(S, status) <= status[m]
  BY EarliestIs
<1> QED BY <1>1, <1>2

(* Every controller depends on somebody.                                   *)
LEMMA OthersExist ==
  ASSUME NEW m \in Mcu
  PROVE  Others(m) \in SUBSET Mcu /\ Others(m) # {}
<1>1. CASE N = 1
  BY <1>1 DEF Others, Mcu
<1>2. CASE N # 1
  <2>1. (IF m = 1 THEN 2 ELSE 1) \in Mcu \ {m}
    BY <1>2, TimesAssumption DEF Mcu
  <2> QED BY <1>2, <2>1 DEF Others
<1> QED BY <1>1, <1>2

=============================================================================
