---------------------------- MODULE SerialQueue ----------------------------
(***************************************************************************)
(* The sliding-window transport between the Klipper host and one           *)
(* micro-controller: the background thread of chelper/serialqueue.c.       *)
(*                                                                         *)
(* Commands leave the host in blocks.  A block carries the low bits of its *)
(* number; the controller accepts a block only when those bits are the     *)
(* ones it expects, and answers every block with the bits it expects next  *)
(* (an "ack" when the block was accepted, a "nak" when it was not; the     *)
(* two are the same message).  Responses carry them too.  The wire is      *)
(* first in, first out in both directions and may lose or damage anything. *)
(*                                                                         *)
(* Blocks and messages are represented by their full numbers.  The code    *)
(* on both sides only ever looks at them modulo SeqMod: see Wire.  Times   *)
(* are abstracted: a timer that is armed may expire at any moment, and the *)
(* send time of a block is represented by the number of the block.         *)
(***************************************************************************)
EXTENDS Integers, Sequences

CONSTANTS
  SeqMod,         \* distinct sequence numbers on the wire (16)
  MaxPending,     \* MAX_PENDING_BLOCKS (12)
  ReceiveWindow,  \* receive_window in blocks, 0 when the mcu states none
  Notify,         \* whether a block's sender may, must or does not await its ack
  MaxReplies,     \* responses the controller may send to one block
  MaxBlock,       \* bound: no block above this number is built
  WireCap,        \* bound: blocks on their way to the controller
  HostCap,        \* bound: messages on their way to the host
  PullCap         \* bound: entries in receive_queue when a message is handled

ASSUME SerialAssumption ==
  /\ SeqMod \in Nat /\ MaxPending \in Nat \ {0} /\ MaxPending < SeqMod
  /\ ReceiveWindow \in Nat /\ MaxReplies \in Nat /\ Notify \subseteq BOOLEAN
  /\ MaxBlock \in Nat /\ WireCap \in Nat /\ HostCap \in Nat /\ PullCap \in Nat
  /\ WireCap >= MaxPending

VARIABLES
  \* struct serialqueue
  send_seq, receive_seq, last_ack_seq, ignore_nak_seq, retransmit_seq,
  rtt_sample_seq,
  last_receive_sent,  \* the block whose send time is last_receive_sent_time
  sent_queue,         \* blocks sent and not yet acknowledged
  notify_queue,       \* block of each command whose sender awaits its ack
  receive_queue,      \* entries for the python thread
  rtimer,             \* the SQPT_RETRANSMIT timer
  \* the wire
  toMcu, toHost,
  \* the micro-controller
  mcu_next,           \* the block it expects
  mcu_first,          \* what it expected when this session began
  delivered,          \* blocks it accepted, in order
  \* history: how often naks made a block be resent, which blocks a timeout
  \* resent, and the block of the last round-trip sample
  nak_resends, timed_out, rtt_block

hostVars  == <<send_seq, receive_seq, last_ack_seq, ignore_nak_seq,
               retransmit_seq, rtt_sample_seq, last_receive_sent, sent_queue,
               notify_queue, receive_queue, rtimer>>
mcuVars   == <<mcu_next, mcu_first, delivered>>
histVars  == <<nak_resends, timed_out, rtt_block>>
vars == <<hostVars, toMcu, toHost, mcuVars, histVars>>

-----------------------------------------------------------------------------
(* What the other side sees of a number (MESSAGE_SEQ_MASK).                *)
Wire(n) == n % SeqMod

Block == 1..MaxBlock
Message == [seq : Nat, data : BOOLEAN, of : Nat]

\* An ack or nak, and a response to block b (0: sent on its own account).
Ack(n)         == [seq |-> n, data |-> FALSE, of |-> 0]
Response(n, b) == [seq |-> n, data |-> TRUE, of |-> b]

Entry == [kind : {"notify", "response"}, block : Nat, sent : Nat]

FirstSeq == 1

Init ==
  /\ send_seq = FirstSeq /\ receive_seq = FirstSeq
  /\ last_ack_seq = 0 /\ ignore_nak_seq = 0 /\ retransmit_seq = 0
  /\ rtt_sample_seq = 0 /\ last_receive_sent = 0
  /\ sent_queue = << >> /\ notify_queue = << >> /\ receive_queue = << >>
  /\ rtimer = "never"
  /\ toMcu = << >> /\ toHost = << >>
  /\ mcu_first \in 1..SeqMod /\ mcu_next = mcu_first /\ delivered = << >>
  /\ nak_resends = [b \in Block |-> 0] /\ timed_out = {} /\ rtt_block = 0

-----------------------------------------------------------------------------
(* The host's background thread.                                           *)

\* Mutant: one block more than the code allows.
WindowOpen_OneMore == send_seq - receive_seq <= MaxPending

\* check_send_command: whether the window lets one more block out.
WindowOpen ==
  /\ send_seq - receive_seq < MaxPending
  /\ (send_seq > receive_seq /\ ReceiveWindow # 0) =>
        Len(sent_queue) + 1 + (IF last_ack_seq < receive_seq THEN 1 ELSE 0)
          <= ReceiveWindow

\* Mutant: sending a block leaves the retransmit timer alone.
TimerAfterSend_Unarmed == rtimer

TimerAfterSend == IF sent_queue = << >> THEN "armed" ELSE rtimer

\* command_event: one block is built, stored and written.  `notify` tells
\* whether a command in it wants to know of its acknowledgement.
SendBlock(notify) ==
  /\ WindowOpen
  /\ send_seq <= MaxBlock
  /\ Len(toMcu) < WireCap
  /\ notify_queue' = IF notify THEN Append(notify_queue, send_seq)
                               ELSE notify_queue
  /\ rtimer' = TimerAfterSend
  /\ rtt_sample_seq' = IF rtt_sample_seq = 0 THEN send_seq ELSE rtt_sample_seq
  /\ sent_queue' = Append(sent_queue, send_seq)
  /\ toMcu' = Append(toMcu, send_seq)
  /\ send_seq' = send_seq + 1
  /\ UNCHANGED <<receive_seq, last_ack_seq, ignore_nak_seq, retransmit_seq,
                 last_receive_sent, receive_queue, toHost, mcuVars, histVars>>

\* Mutant: a round-trip sample goes on across a resend.
SampleAfterResend_Kept == rtt_sample_seq

SampleAfterResend == 0

\* Mutant: the timer is not set again after it expired.
TimerAfterResend_Once == "never"

TimerAfterResend == "armed"

\* retransmit_event: tcflush drops what has not left the port yet (all but
\* the first k blocks) and every unacknowledged block is written again.
ResendAll ==
  /\ \E k \in 0..Len(toMcu) :
       /\ k + Len(sent_queue) <= WireCap
       /\ toMcu' = SubSeq(toMcu, 1, k) \o sent_queue
  /\ retransmit_seq' = send_seq
  /\ rtt_sample_seq' = SampleAfterResend
  /\ rtimer' = TimerAfterResend
  /\ UNCHANGED <<send_seq, receive_seq, last_ack_seq, last_receive_sent,
                 sent_queue, notify_queue, receive_queue, toHost, mcuVars,
                 rtt_block>>

Resent == {b \in Block : \E i \in 1..Len(sent_queue) : sent_queue[i] = b}

\* Mutant: the second nak for one resend is treated like the first.
IgnoreNakSeq_Simple == receive_seq

\* The second nak for one resend does not allow a third.
IgnoreNakSeq == IF receive_seq < retransmit_seq THEN retransmit_seq
                                                ELSE receive_seq

RetransmitNak ==
  /\ rtimer = "now"
  /\ ResendAll
  /\ ignore_nak_seq' = IgnoreNakSeq
  /\ nak_resends' = [b \in Block |-> IF b \in Resent THEN nak_resends[b] + 1
                                                     ELSE nak_resends[b]]
  /\ UNCHANGED timed_out

RetransmitTimeout ==
  /\ rtimer = "armed"
  /\ ResendAll
  /\ ignore_nak_seq' = send_seq
  /\ timed_out' = timed_out \union Resent
  /\ UNCHANGED nak_resends

StillUnacked(n) == SubSeq(sent_queue, n + 1, Len(sent_queue))

\* update_receive_seq: blocks below rseq leave the sent queue.  When the
\* queue runs empty first, this is the start of the connection and the host
\* takes over the controller's count.
UpdateReceiveSeq(rseq) ==
  LET n == rseq - receive_seq
      found == n <= Len(sent_queue)
      sample == rtt_sample_seq # 0 /\ rseq > rtt_sample_seq /\ found
  IN /\ sent_queue' = IF found THEN StillUnacked(n) ELSE << >>
     /\ send_seq' = IF found THEN send_seq ELSE rseq
     /\ last_receive_sent' = IF found THEN sent_queue[n] ELSE 0
     /\ receive_seq' = rseq
     /\ rtt_sample_seq' = IF sample THEN 0 ELSE rtt_sample_seq
     /\ rtt_block' = IF sample THEN sent_queue[n] ELSE rtt_block

\* A response or an ack of a block completes the notifications of the blocks
\* before it; the block a response answers is not complete yet, its ack
\* comes after the response.  k is where the walk over notify_queue stops.
CompleteNotifies(k, wake_seq) ==
  /\ \A i \in 1..k : notify_queue[i] <= wake_seq
  /\ k < Len(notify_queue) => notify_queue[k + 1] > wake_seq
  /\ notify_queue' = SubSeq(notify_queue, k + 1, Len(notify_queue))

Woken(k, sent) ==
  [i \in 1..k |-> [kind |-> "notify", block |-> notify_queue[i], sent |-> sent]]

\* handle_message: rseq is the controller's count, widened from the wire.
RSeq(m) == receive_seq + ((Wire(m.seq) - receive_seq) % SeqMod)

Bogus(m) == RSeq(m) > send_seq /\ receive_seq # FirstSeq

\* Mutant: a response completes the block it answers.
WakeSeq_Eager(m, rseq) == rseq - 1

\* The last block whose notifications a message completes.
WakeSeq(m, rseq) == rseq - 1 - (IF m.data THEN 1 ELSE 0)

\* A repeated ack is a nak.
IsNak(m, rseq) == /\ ~m.data /\ last_ack_seq >= rseq
                  /\ rseq > ignore_nak_seq
                  /\ sent_queue' # << >>

\* A message of the session: acknowledgements first, then notifications,
\* then the message itself.
AcceptMessage(m, rseq) ==
  /\ IF rseq # receive_seq
     THEN UpdateReceiveSeq(rseq)
     ELSE UNCHANGED <<sent_queue, send_seq, last_receive_sent, receive_seq,
                      rtt_sample_seq, rtt_block>>
  /\ last_ack_seq' = IF ~m.data /\ last_ack_seq < rseq THEN rseq
                                                      ELSE last_ack_seq
  /\ rtimer' = IF IsNak(m, rseq) THEN "now"
               ELSE IF rseq = receive_seq THEN rtimer
               ELSE IF sent_queue' = << >> THEN "never" ELSE "armed"
  /\ \E k \in 0..Len(notify_queue) :
       /\ CompleteNotifies(k, WakeSeq(m, rseq))
       /\ receive_queue' =
            receive_queue \o Woken(k, last_receive_sent')
              \o IF m.data
                 THEN << [kind |-> "response", block |-> m.of,
                          sent |-> IF rseq > retransmit_seq
                                   THEN last_receive_sent' ELSE 0] >>
                 ELSE << >>

HandleMessage ==
  /\ toHost # << >>
  /\ Len(receive_queue) < PullCap
  /\ toHost' = Tail(toHost)
  /\ LET m == Head(toHost)
     IN IF Bogus(m)
        THEN UNCHANGED <<hostVars, rtt_block>>
        ELSE /\ AcceptMessage(m, RSeq(m))
             /\ UNCHANGED <<ignore_nak_seq, retransmit_seq>>
  /\ UNCHANGED <<toMcu, mcuVars, nak_resends, timed_out>>

\* serialqueue_pull: the python thread takes the next entry.
Pull ==
  /\ receive_queue # << >>
  /\ receive_queue' = Tail(receive_queue)
  /\ UNCHANGED <<send_seq, receive_seq, last_ack_seq, ignore_nak_seq,
                 retransmit_seq, rtt_sample_seq, last_receive_sent, sent_queue,
                 notify_queue, rtimer, toMcu, toHost, mcuVars, histVars>>

-----------------------------------------------------------------------------
(* The micro-controller.                                                   *)

\* Messages go out as long as the controller's transmit buffer has room for
\* them; the ones that do not fit are dropped.
Post(messages) ==
  LET all == toHost \o messages
  IN  toHost' = SubSeq(all, 1, IF Len(all) < HostCap THEN Len(all) ELSE HostCap)

McuAccept ==
  /\ toMcu # << >>
  /\ Wire(Head(toMcu)) = Wire(mcu_next)
  /\ mcu_next' = mcu_next + 1
  /\ delivered' = Append(delivered, Head(toMcu))
  /\ toMcu' = Tail(toMcu)
  /\ \E r \in 0..MaxReplies :
       Post(Append([i \in 1..r |-> Response(mcu_next + 1, Head(toMcu))],
                   Ack(mcu_next + 1)))
  /\ UNCHANGED <<hostVars, mcu_first, histVars>>

\* A block out of sequence, or one that arrived damaged, is answered by a nak.
McuReject ==
  /\ toMcu # << >>
  /\ toMcu' = Tail(toMcu)
  /\ Post(<< Ack(mcu_next) >>)
  /\ UNCHANGED <<hostVars, mcuVars, histVars>>

\* A report nobody asked for.
McuReport ==
  /\ MaxReplies > 0
  /\ Post(<< Response(mcu_next, 0) >>)
  /\ UNCHANGED <<hostVars, toMcu, mcuVars, histVars>>

(* The wire.                                                               *)

LoseBlock ==
  /\ toMcu # << >>
  /\ toMcu' = Tail(toMcu)
  /\ UNCHANGED <<hostVars, toHost, mcuVars, histVars>>

LoseMessage ==
  /\ toHost # << >>
  /\ toHost' = Tail(toHost)
  /\ UNCHANGED <<hostVars, toMcu, mcuVars, histVars>>

-----------------------------------------------------------------------------
Next ==
  \/ \E notify \in Notify : SendBlock(notify)
  \/ RetransmitNak \/ RetransmitTimeout
  \/ HandleMessage \/ Pull
  \/ McuAccept \/ McuReject \/ McuReport
  \/ LoseBlock \/ LoseMessage

Spec == Init /\ [][Next]_vars

(* The two threads run, the retransmit timer expires, and the wire is not  *)
(* dead: of infinitely many copies of a block or of an answer, one gets    *)
(* through.                                                                *)
Fairness ==
  /\ WF_vars(RetransmitNak \/ RetransmitTimeout)
  /\ WF_vars(Pull)
  /\ SF_vars(McuAccept)
  /\ SF_vars(McuReject)
  /\ SF_vars(HandleMessage /\ receive_seq' # receive_seq)
  /\ WF_vars(HandleMessage)

FairSpec == Spec /\ Fairness

-----------------------------------------------------------------------------
TypeOK ==
  /\ send_seq \in Nat \ {0} /\ receive_seq \in Nat \ {0}
  /\ last_ack_seq \in Nat /\ ignore_nak_seq \in Nat /\ retransmit_seq \in Nat
  /\ rtt_sample_seq \in Nat /\ last_receive_sent \in Nat
  /\ sent_queue \in Seq(Nat) /\ notify_queue \in Seq(Nat)
  /\ receive_queue \in Seq(Entry)
  /\ rtimer \in {"never", "armed", "now"}
  /\ toMcu \in Seq(Nat) /\ toHost \in Seq(Message)
  /\ mcu_first \in 1..SeqMod /\ mcu_next \in Nat \ {0}
  /\ delivered \in Seq(Nat)
  /\ nak_resends \in [Block -> Nat] /\ timed_out \in SUBSET Block
  /\ rtt_block \in Nat

(* Exactly-once, in-order delivery: what the controller accepted is a run  *)
(* of consecutive blocks from mcu_first on, although it tells blocks apart *)
(* only modulo SeqMod and stale copies are still on the wire.              *)
InOrder ==
  /\ Len(delivered) = mcu_next - mcu_first
  /\ \A i \in 1..Len(delivered) : delivered[i] = mcu_first + i - 1

(* No block is confirmed that did not arrive: what left the host's sent    *)
(* queue, the controller has (the blocks numbered below mcu_first, sent    *)
(* before the first exchange of the session, excepted).                    *)
ConfirmedArrived == receive_seq <= mcu_next

(* The window holds: at most MaxPending blocks are unacknowledged.          *)
Window == send_seq <= receive_seq + MaxPending

(* What a receiver needs to tell numbers apart modulo SeqMod.  Stale copies *)
(* of a block stay on the wire, but no copy is ever SeqMod or more behind   *)
(* what the controller expects, nor comes to be when the copies in front of *)
(* it are accepted; and the numbers on their way to the host never run      *)
(* backwards, nor ahead of what it sent once the connection is up.          *)
Unambiguous ==
  /\ mcu_first <= mcu_next
  /\ mcu_next <= send_seq \/ (mcu_next = mcu_first /\ receive_seq = 1)
  /\ \A i \in 1..Len(toMcu) : /\ 1 <= toMcu[i]
                              /\ toMcu[i] < send_seq
                              /\ mcu_next - toMcu[i] < SeqMod
  /\ \A i, j \in 1..Len(toMcu) : i < j => toMcu[i] - toMcu[j] < MaxPending
  /\ \A i \in 1..Len(toHost) : /\ receive_seq <= toHost[i].seq
                               /\ mcu_first <= toHost[i].seq
                               /\ toHost[i].seq <= mcu_next
  /\ \A i, j \in 1..Len(toHost) : i < j => toHost[i].seq <= toHost[j].seq

(* The sent queue holds exactly the blocks between the two counters.       *)
SentQueueExact ==
  /\ Len(sent_queue) = send_seq - receive_seq
  /\ \A i \in 1..Len(sent_queue) : sent_queue[i] = receive_seq + i - 1

(* The link implements the promise stated in ReliableLink.                 *)
Link == INSTANCE ReliableLink WITH
          Window <- MaxPending, issue <- send_seq, confirm <- receive_seq,
          arrive <- mcu_next, first <- mcu_first

LinkSpec == Link!Spec

(* "Second nak for this retransmit - don't allow third"                    *)
(* (serialqueue.c:422): naks never cause one block to be sent again more   *)
(* than twice, however many of them arrive.                                *)
NakBound == \A b \in Block : nak_resends[b] <= 2

(* Round-trip samples and the send time reported with a response, from     *)
(* which clocksync.py estimates the controller's clock, never stem from a  *)
(* block that was sent more than once (Karn's rule).                       *)
SentOnce(b) == nak_resends[b] = 0 /\ b \notin timed_out

TimesUnambiguous ==
  /\ rtt_block # 0 => SentOnce(rtt_block)
  /\ \A i \in 1..Len(receive_queue) :
       (receive_queue[i].kind = "response" /\ receive_queue[i].sent # 0)
         => SentOnce(receive_queue[i].sent)

(* The python thread sees the responses to a block before it is told that  *)
(* the block is done: no response is behind the block's notification,      *)
(* neither in the receive queue nor still on the wire.                     *)
ResponseBeforeNotify ==
  \A i \in 1..Len(receive_queue) : receive_queue[i].kind = "notify" =>
    LET b == receive_queue[i].block IN
    /\ \A j \in 1..Len(receive_queue) :
         (j > i /\ receive_queue[j].kind = "response")
            => receive_queue[j].block # b
    /\ \A j \in 1..Len(toHost) : toHost[j].of # b

\* What is queued for the python thread is right, times and order.
NotesSound == TimesUnambiguous /\ ResponseBeforeNotify

(* Every block that was sent is acknowledged in the end (and so, by         *)
(* ConfirmedArrived, arrives), whatever subset of copies, acks and         *)
(* responses is lost on the way.                                           *)
AllAcknowledged ==
  \A b \in Block : (send_seq > b) ~> (receive_seq > b)

(* The window opens again and again: no loss of acknowledgements makes the  *)
(* host wait for ever for the controller's buffer or for a free block.     *)
WindowReopens == []<>WindowOpen

\* No loss stops the link for ever.
LinkProgress == AllAcknowledged /\ WindowReopens
=============================================================================
