------------------------------- MODULE Buttons -------------------------------
(***************************************************************************)
(* How buttons.py learns of buttons.  The micro-controller keeps the last  *)
(* changes in a small buffer and reports all of it, again and again, until *)
(* the host acknowledges how many it has taken; the report carries eight   *)
(* bits of the number of changes acknowledged before.  Reports may be      *)
(* lost; acknowledgements are commands, which the transport delivers in    *)
(* order (see SerialQueue).                                                *)
(*                                                                         *)
(* A change is its number.  What the buttons show is left out, and so is   *)
(* the call of the callbacks, which are queued in the order of the changes.*)
(***************************************************************************)
EXTENDS Extension, Sequences

CONSTANTS
  AckTurn,     \* 256
  MaxReports,  \* changes the controller buffers (8)
  MaxPressed,  \* bound: changes in all
  MaxWire      \* bound: reports on their way

ASSUME ButtonAssumption ==
  /\ AckTurn \in Nat \ {0, 1} /\ MaxReports \in Nat /\ MaxPressed \in Nat
  /\ MaxReports <= AckTurn \div 2

VARIABLES
  pressed,     \* changes the controller has seen and buffered
  mcu_acked,   \* those it was told are taken
  wire,        \* reports on their way to the host
  ack_count,
  taken        \* the changes that were passed on last

buttonVars == <<pressed, mcu_acked, wire, ack_count, taken>>

ButtonInit ==
  /\ pressed = 0 /\ mcu_acked = 0 /\ wire = << >> /\ ack_count = 0
  /\ taken = [from |-> 0, upto |-> 0]

\* A change when the buffer is full is not a change the controller sees.
Press ==
  /\ pressed < MaxPressed /\ pressed - mcu_acked < MaxReports
  /\ pressed' = pressed + 1
  /\ UNCHANGED <<mcu_acked, wire, ack_count, taken>>

\* At once, and again after RETRANSMIT_COUNT rounds.
SendReport ==
  /\ pressed > mcu_acked /\ Len(wire) < MaxWire
  /\ wire' = Append(wire, [ack |-> mcu_acked, upto |-> pressed])
  /\ UNCHANGED <<pressed, mcu_acked, ack_count, taken>>

LoseButtonReport ==
  /\ wire # << >> /\ wire' = Tail(wire)
  /\ UNCHANGED <<pressed, mcu_acked, ack_count, taken>>

\* Some of the acknowledgements on their way arrive.
McuTakesAck ==
  /\ mcu_acked' \in (mcu_acked + 1)..ack_count
  /\ UNCHANGED <<pressed, wire, ack_count, taken>>

\* Mutant: a report from before the last acknowledgement seems to be ahead.
MsgAckCount_Forward(m) == ExtendForward(ack_count, m.ack % AckTurn, AckTurn)

MsgAckCount(m) == ExtendNearest(ack_count, m.ack % AckTurn, AckTurn)

\* handle_buttons_state: buttons[-new_count:] are at most all of them.
HandleButtonsState ==
  LET m         == Head(wire)
      new_count == MsgAckCount(m) + (m.upto - m.ack) - ack_count
      first     == IF new_count <= m.upto - m.ack THEN m.upto - new_count + 1
                                                  ELSE m.ack + 1
  IN
  /\ wire # << >> /\ wire' = Tail(wire)
  /\ IF new_count <= 0 THEN UNCHANGED <<ack_count, taken>>
     ELSE /\ ack_count' = ack_count + new_count
          /\ taken' = [from |-> first, upto |-> m.upto]
  /\ UNCHANGED <<pressed, mcu_acked>>

ButtonNext == Press \/ SendReport \/ LoseButtonReport \/ McuTakesAck
              \/ HandleButtonsState

ButtonSpec == ButtonInit /\ [][ButtonNext]_buttonVars

-----------------------------------------------------------------------------
(* Properties.                                                             *)

Report == [ack : Nat, upto : Nat]

\* The types of the variables.
ButtonTypes ==
  /\ pressed \in Nat /\ mcu_acked \in Nat /\ ack_count \in Nat
  /\ wire \in Seq(Report) /\ taken \in [from : Nat, upto : Nat]

\* Every change is passed on once and in order, whatever reports are lost,
\* repeated or late: what is taken from a report begins where the last one
\* ended, although only eight bits tell how far that was (buttons.py:57-82).
EachPressOnce == [][taken' # taken => taken'.from = taken.upto + 1]_buttonVars
=============================================================================
