---------------------------- MODULE ReliableLink ----------------------------
(***************************************************************************)
(* What the host side of the serial link (chelper/serialqueue.c) promises  *)
(* the code above it, with no wire in sight: blocks are numbered in the    *)
(* order they are issued, they arrive at the micro-controller in that      *)
(* order and each exactly once, a block is confirmed to the sender only    *)
(* after it arrived, and at most Window blocks are issued and unconfirmed. *)
(*                                                                         *)
(* The first exchange of a session is different: the controller counts     *)
(* from `first`, a number it kept from an earlier session, and the sender  *)
(* learns it from the first confirmation (serialqueue.c:230 and 166-171).  *)
(* Blocks below `first` never arrive.                                      *)
(***************************************************************************)
EXTENDS Naturals, Sequences

CONSTANT Window

VARIABLES issue,      \* number of the next block to issue
          confirm,    \* every block below it is confirmed
          arrive,     \* number of the next block that may arrive
          first,      \* number the controller expected when the session began
          delivered   \* blocks that arrived, in order of arrival

linkVars == <<issue, confirm, arrive, first, delivered>>

Init == /\ issue = 1
        /\ confirm = 1
        /\ arrive = first
        /\ first \in Nat \ {0}
        /\ delivered = << >>

Issue == /\ issue < confirm + Window
         /\ issue' = issue + 1
         /\ UNCHANGED <<confirm, arrive, first, delivered>>

Arrive == /\ arrive < issue
          /\ arrive' = arrive + 1
          /\ delivered' = Append(delivered, arrive)
          /\ UNCHANGED <<issue, confirm, first>>

Confirm == /\ \E c \in (confirm + 1)..arrive :
                 /\ c <= issue
                 /\ confirm' = c
           /\ UNCHANGED <<issue, arrive, first, delivered>>

\* The sender hears of `first` for the first time and restarts from it.
Resync == /\ confirm = 1
          /\ issue < first
          /\ arrive = first
          /\ issue' = first
          /\ confirm' = first
          /\ UNCHANGED <<arrive, first, delivered>>

Next == Issue \/ Arrive \/ Confirm \/ Resync

Spec == Init /\ [][Next]_linkVars

\* With this the link also promises progress.
LiveSpec == Spec /\ WF_linkVars(Arrive)

=============================================================================
