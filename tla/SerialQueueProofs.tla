------------------------- MODULE SerialQueueProofs -------------------------
(***************************************************************************)
(* Proofs about SerialQueue for every window smaller than the number of    *)
(* sequence numbers on the wire, every initial count of the controller and *)
(* every bound: type correctness, exactly-once in-order delivery, the      *)
(* order and the times of what the python thread is told (NotesSound), and *)
(* the refinement of ReliableLink.                                         *)
(***************************************************************************)
EXTENDS SerialQueue, TLAPS

-----------------------------------------------------------------------------
(* Arithmetic modulo N.                                                    *)

(* A multiple of N other than 0 is at least N away from 0.                 *)
LEMMA MultipleGap ==
  ASSUME NEW N \in Nat \ {0}, NEW k \in Int, k # 0
  PROVE  N * k >= N \/ N * k <= -N
<1>1. CASE k >= 1
  <2>1. PICK j \in Nat : k = j + 1
    BY <1>1
  <2>2. N * k = N * j + N /\ N * j >= 0
    BY <2>1
  <2> QED BY <2>2
<1>2. CASE k <= -1
  <2>1. PICK j \in Nat : k = -j - 1
    BY <1>2
  <2>2. N * k = -(N * j) - N /\ N * j >= 0
    BY <2>1
  <2> QED BY <2>2
<1> QED BY <1>1, <1>2

(* Two numbers less than N apart that look the same modulo N are equal:    *)
(* how the controller recognises the block it expects.                     *)
LEMMA ModUnique ==
  ASSUME NEW N \in Nat \ {0}, NEW a \in Int, NEW b \in Int,
         a - b < N, b - a < N, a % N = b % N
  PROVE  a = b
<1> DEFINE k == (a \div N) - (b \div N)
<1>1. a = N * (a \div N) + (a % N) /\ b = N * (b \div N) + (b % N)
  OBVIOUS
<1>2. k \in Int /\ a - b = N * k
  BY <1>1
<1>3. k = 0
  BY <1>2, MultipleGap
<1> QED BY <1>2, <1>3

(* A number at most N - 1 ahead of a known one is recovered from its value *)
(* modulo N: how the host widens the count of an answer.                   *)
LEMMA ModWiden ==
  ASSUME NEW N \in Nat \ {0}, NEW a \in Int, NEW b \in Int,
         0 <= b - a, b - a < N
  PROVE  ((b % N) - a) % N = b - a
<1> DEFINE c == (b % N) - a
           k == (c \div N) + (b \div N)
<1>1. b = N * (b \div N) + (b % N) /\ c = N * (c \div N) + (c % N)
  OBVIOUS
<1>2. c % N \in 0..(N - 1)
  OBVIOUS
<1>3. k \in Int /\ (b - a) - (c % N) = N * k
  BY <1>1
<1>4. k = 0
  BY <1>2, <1>3, MultipleGap
<1> QED BY <1>3, <1>4

-----------------------------------------------------------------------------
(* The inductive invariant.  InOrder alone is not inductive: that the next *)
(* copy the controller accepts is the block it expects, and not one SeqMod *)
(* earlier, follows from where stale copies can be (Unambiguous), which    *)
(* rests on the window and on the shape of the sent queue.                 *)
IInv == TypeOK /\ SentQueueExact /\ Window /\ ConfirmedArrived
        /\ Unambiguous /\ InOrder

USE SerialAssumption DEF SerialAssumption

(* What Post leaves in the channel: the old messages, then a part of the   *)
(* new ones.                                                               *)
LEMMA PostKeeps ==
  ASSUME toHost \in Seq(Message), NEW ms \in Seq(Message), Post(ms)
  PROVE  /\ toHost' \in Seq(Message)
         /\ \A i \in 1..Len(toHost') :
              toHost'[i] = IF i <= Len(toHost) THEN toHost[i]
                                               ELSE ms[i - Len(toHost)]
         /\ Len(toHost') <= Len(toHost) + Len(ms)
<1> DEFINE all == toHost \o ms
           n == IF Len(all) < HostCap THEN Len(all) ELSE HostCap
<1>1. all \in Seq(Message) /\ Len(all) = Len(toHost) + Len(ms)
  OBVIOUS
<1>2. \A i \in 1..Len(all) : all[i] = IF i <= Len(toHost) THEN toHost[i]
                                      ELSE ms[i - Len(toHost)]
  OBVIOUS
<1>3. n \in 0..Len(all) /\ toHost' = SubSeq(all, 1, n)
  BY <1>1 DEF Post
<1> HIDE DEF all, n
<1>4. toHost' \in Seq(Message) /\ Len(toHost') = n
      /\ \A i \in 1..n : toHost'[i] = all[i]
  BY <1>1, <1>3
<1> QED BY <1>1, <1>2, <1>3, <1>4

(* The numbers on their way to the host stay in order when the controller  *)
(* sends messages that carry its count n, which did not decrease.          *)
LEMMA PostInOrder ==
  ASSUME TypeOK, Unambiguous, ConfirmedArrived,
         NEW n \in Nat, mcu_next <= n,
         NEW ms \in Seq(Message), \A i \in 1..Len(ms) : ms[i].seq = n,
         Post(ms)
  PROVE  /\ toHost' \in Seq(Message)
         /\ \A i \in 1..Len(toHost') : /\ receive_seq <= toHost'[i].seq
                                       /\ mcu_first <= toHost'[i].seq
                                       /\ toHost'[i].seq <= n
         /\ \A i, j \in 1..Len(toHost') :
              i < j => toHost'[i].seq <= toHost'[j].seq
<1>1. toHost \in Seq(Message) /\ toHost' \in Seq(Message)
  BY PostKeeps DEF TypeOK
<1>2. \A i \in 1..Len(toHost') :
        toHost'[i] = IF i <= Len(toHost) THEN toHost[i]
                                         ELSE ms[i - Len(toHost)]
  BY PostKeeps, <1>1
<1>3. Len(toHost') <= Len(toHost) + Len(ms)
  BY PostKeeps, <1>1
<1>4. \A i \in 1..Len(toHost') :
        \/ i \in 1..Len(toHost) /\ toHost'[i] = toHost[i]
        \/ i > Len(toHost) /\ toHost'[i].seq = n
  BY <1>1, <1>2, <1>3
<1>5. \A i \in 1..Len(toHost) : toHost[i].seq \in Nat /\ toHost[i].seq <= n
  <2> SUFFICES ASSUME NEW i \in 1..Len(toHost)
               PROVE  toHost[i].seq \in Nat /\ toHost[i].seq <= n
    OBVIOUS
  <2>1. toHost[i] \in Message
    BY <1>1
  <2>2. toHost[i].seq \in Nat
    BY <2>1 DEF Message
  <2>3. toHost[i].seq <= mcu_next /\ mcu_next \in Nat
    BY DEF Unambiguous, TypeOK
  <2> QED BY <2>2, <2>3
<1>6. receive_seq \in Nat /\ mcu_first \in Nat /\ mcu_next \in Nat
      /\ receive_seq <= n /\ mcu_first <= n
  BY DEF Unambiguous, TypeOK, ConfirmedArrived
<1>7. \A i \in 1..Len(toHost') : /\ receive_seq <= toHost'[i].seq
                                 /\ mcu_first <= toHost'[i].seq
                                 /\ toHost'[i].seq <= n
  BY <1>4, <1>5, <1>6 DEF Unambiguous
<1>8. \A i, j \in 1..Len(toHost') : i < j => toHost'[i].seq <= toHost'[j].seq
  <2> SUFFICES ASSUME NEW i \in 1..Len(toHost'), NEW j \in 1..Len(toHost'),
                      i < j
               PROVE  toHost'[i].seq <= toHost'[j].seq
    OBVIOUS
  <2>1. CASE j \in 1..Len(toHost) /\ toHost'[j] = toHost[j]
    <3>1. i \in 1..Len(toHost) /\ toHost'[i] = toHost[i]
      BY <1>1, <1>4, <2>1
    <3> QED BY <2>1, <3>1 DEF Unambiguous
  <2>2. CASE toHost'[j].seq = n
    BY <1>7, <2>2
  <2> QED BY <1>4, <2>1, <2>2
<1> QED BY <1>1, <1>7, <1>8

-----------------------------------------------------------------------------
(* Each step preserves the invariant.                                      *)

LEMMA InitIInv == Init => IInv
<1> SUFFICES ASSUME Init PROVE IInv
  OBVIOUS
<1>1. TypeOK
  BY DEF Init, TypeOK, FirstSeq, Block
<1>2. SentQueueExact /\ Window /\ ConfirmedArrived /\ Unambiguous /\ InOrder
  BY DEF Init, SentQueueExact, Window, ConfirmedArrived, Unambiguous, InOrder,
         FirstSeq
<1> QED BY <1>1, <1>2 DEF IInv

LEMMA SendIInv ==
  ASSUME IInv, NEW notify \in Notify, SendBlock(notify)
  PROVE  IInv'
<1> USE DEF IInv
<1>1. /\ send_seq \in Nat \ {0} /\ receive_seq \in Nat \ {0}
      /\ sent_queue \in Seq(Nat) /\ toMcu \in Seq(Nat)
      /\ sent_queue' = Append(sent_queue, send_seq)
      /\ toMcu' = Append(toMcu, send_seq)
      /\ send_seq' = send_seq + 1
      /\ UNCHANGED <<receive_seq, toHost, mcu_next, mcu_first, delivered>>
      /\ send_seq - receive_seq < MaxPending
  BY DEF SendBlock, WindowOpen, TypeOK, mcuVars
<1>2. TypeOK'
  BY SMTT(30), <1>1 DEF SendBlock, TypeOK, mcuVars, histVars, TimerAfterSend
<1>3. SentQueueExact'
  <2>1. Len(sent_queue') = Len(sent_queue) + 1
        /\ \A i \in 1..Len(sent_queue') :
             sent_queue'[i] = IF i <= Len(sent_queue) THEN sent_queue[i]
                                                      ELSE send_seq
    BY <1>1
  <2>2. Len(sent_queue) = send_seq - receive_seq
        /\ \A i \in 1..Len(sent_queue) : sent_queue[i] = receive_seq + i - 1
    BY DEF SentQueueExact
  <2>3. Len(sent_queue') = send_seq' - receive_seq'
    BY <1>1, <2>1, <2>2
  <2>4. \A i \in 1..Len(sent_queue') : sent_queue'[i] = receive_seq' + i - 1
    <3> SUFFICES ASSUME NEW i \in 1..Len(sent_queue')
                 PROVE  sent_queue'[i] = receive_seq + i - 1
      BY <1>1
    <3>1. CASE i <= Len(sent_queue)
      BY <1>1, <2>1, <2>2, <3>1
    <3>2. CASE i = Len(sent_queue) + 1
      <4>1. sent_queue'[i] = send_seq
        BY <1>1, <3>2
      <4> QED BY <1>1, <2>2, <3>2, <4>1
    <3> QED BY <1>1, <2>1, <3>1, <3>2
  <2> QED BY <2>3, <2>4 DEF SentQueueExact
<1>4. Window' /\ ConfirmedArrived' /\ InOrder'
  BY <1>1 DEF Window, ConfirmedArrived, InOrder, TypeOK
<1>5. Unambiguous'
  <2>1. mcu_first \in 1..SeqMod /\ mcu_next \in Nat
    BY DEF TypeOK
  <2>2. \A i \in 1..Len(toMcu') : \/ i \in 1..Len(toMcu) /\ toMcu'[i] = toMcu[i]
                                  \/ i = Len(toMcu) + 1 /\ toMcu'[i] = send_seq
    BY <1>1
  <2>3. \A i \in 1..Len(toMcu) : toMcu[i] \in Nat
    BY <1>1
  <2>4. mcu_next - send_seq < SeqMod
    BY SMTT(30), <1>1, <2>1 DEF Unambiguous
  <2>5. \A i \in 1..Len(toMcu') : /\ 1 <= toMcu'[i]
                                  /\ toMcu'[i] < send_seq'
                                  /\ mcu_next' - toMcu'[i] < SeqMod
    <3> SUFFICES ASSUME NEW i \in 1..Len(toMcu')
                 PROVE  /\ 1 <= toMcu'[i] /\ toMcu'[i] < send_seq'
                        /\ mcu_next' - toMcu'[i] < SeqMod
      OBVIOUS
    <3>1. /\ send_seq \in Nat \ {0} /\ send_seq' = send_seq + 1
          /\ mcu_next' = mcu_next
      BY <1>1
    <3>2. CASE i \in 1..Len(toMcu) /\ toMcu'[i] = toMcu[i]
      <4>1. /\ 1 <= toMcu[i] /\ toMcu[i] < send_seq
            /\ mcu_next - toMcu[i] < SeqMod
        BY <3>2 DEF Unambiguous
      <4>2. toMcu[i] \in Nat
        BY <2>3, <3>2
      <4> QED BY <3>1, <3>2, <4>1, <4>2
    <3>3. CASE toMcu'[i] = send_seq
      BY <2>4, <3>1, <3>3
    <3> QED BY <2>2, <3>2, <3>3
  <2>6. \A i, j \in 1..Len(toMcu') :
          i < j => toMcu'[i] - toMcu'[j] < MaxPending
    <3> SUFFICES ASSUME NEW i \in 1..Len(toMcu'), NEW j \in 1..Len(toMcu'),
                        i < j
                 PROVE  toMcu'[i] - toMcu'[j] < MaxPending
      OBVIOUS
    <3>1. i \in 1..Len(toMcu) /\ toMcu'[i] = toMcu[i]
      BY <1>1, <2>2
    <3>2. CASE j \in 1..Len(toMcu) /\ toMcu'[j] = toMcu[j]
      BY <3>1, <3>2 DEF Unambiguous
    <3>3. CASE toMcu'[j] = send_seq
      <4>1. toMcu[i] < send_seq
        BY <3>1 DEF Unambiguous
      <4> QED BY <1>1, <2>3, <3>1, <3>3, <4>1
    <3> QED BY <2>2, <3>2, <3>3
  <2>7. mcu_next' <= send_seq' \/ (mcu_next' = mcu_first' /\ receive_seq' = 1)
    BY <1>1, <2>1 DEF Unambiguous
  <2> QED BY <1>1, <2>5, <2>6, <2>7 DEF Unambiguous
<1> QED BY <1>2, <1>3, <1>4, <1>5

(* After a resend the wire holds a prefix of what it held, then the sent   *)
(* queue, whose blocks span less than MaxPending.                          *)
LEMMA ResendIInv ==
  ASSUME IInv, ResendAll,
         ignore_nak_seq' \in Nat,
         nak_resends' \in [Block -> Nat], timed_out' \in SUBSET Block
  PROVE  IInv'
<1> USE DEF IInv
<1>1. PICK k \in 0..Len(toMcu) : toMcu' = SubSeq(toMcu, 1, k) \o sent_queue
  BY DEF ResendAll
<1>2. /\ toMcu \in Seq(Nat) /\ sent_queue \in Seq(Nat)
      /\ send_seq \in Nat /\ receive_seq \in Nat /\ receive_seq >= 1
      /\ mcu_next \in Nat
      /\ UNCHANGED <<send_seq, receive_seq, sent_queue, toHost, mcu_next,
                     mcu_first, delivered>>
  BY DEF ResendAll, TypeOK, mcuVars
<1>3. toMcu' \in Seq(Nat) /\ Len(toMcu') = k + Len(sent_queue)
  BY <1>1, <1>2
<1>4. \A i \in 1..Len(toMcu') :
        \/ i \in 1..k /\ i \in 1..Len(toMcu) /\ toMcu'[i] = toMcu[i]
        \/ i > k /\ i - k \in 1..Len(sent_queue)
           /\ toMcu'[i] = receive_seq + (i - k) - 1
  <2> SUFFICES ASSUME NEW i \in 1..Len(toMcu')
               PROVE  \/ i \in 1..k /\ i \in 1..Len(toMcu) /\ toMcu'[i] = toMcu[i]
                      \/ i > k /\ i - k \in 1..Len(sent_queue)
                         /\ toMcu'[i] = receive_seq + (i - k) - 1
    OBVIOUS
  <2>1. CASE i <= k
    BY <1>1, <1>2, <1>3, <2>1
  <2>2. CASE i > k
    <3>1. i - k \in 1..Len(sent_queue) /\ toMcu'[i] = sent_queue[i - k]
      BY <1>1, <1>2, <1>3, <2>2
    <3> QED BY <2>2, <3>1 DEF SentQueueExact
  <2> QED BY <2>1, <2>2
<1>5. TypeOK'
  BY <1>3 DEF ResendAll, TypeOK, mcuVars, TimerAfterResend, SampleAfterResend
<1>6. SentQueueExact' /\ Window' /\ ConfirmedArrived' /\ InOrder'
  BY <1>2 DEF SentQueueExact, Window, ConfirmedArrived, InOrder
<1>7. Len(sent_queue) = send_seq - receive_seq /\ send_seq - receive_seq <= MaxPending
  BY <1>2 DEF SentQueueExact, Window
<1>8. mcu_next - receive_seq < SeqMod
  BY <1>2 DEF Unambiguous, Window, TypeOK
<1>9. \A i \in 1..Len(toMcu) : toMcu[i] \in Nat
  BY <1>2
<1>10. \A i \in 1..Len(toMcu') : /\ 1 <= toMcu'[i]
                                 /\ toMcu'[i] < send_seq
                                 /\ mcu_next - toMcu'[i] < SeqMod
  <2> SUFFICES ASSUME NEW i \in 1..Len(toMcu')
               PROVE  /\ 1 <= toMcu'[i]
                      /\ toMcu'[i] < send_seq
                      /\ mcu_next - toMcu'[i] < SeqMod
    OBVIOUS
  <2>1. CASE i \in 1..Len(toMcu) /\ toMcu'[i] = toMcu[i]
    BY <2>1 DEF Unambiguous
  <2>2. CASE i - k \in 1..Len(sent_queue) /\ toMcu'[i] = receive_seq + (i - k) - 1
    BY <1>2, <1>3, <1>7, <1>8, <2>2
  <2> QED BY <1>4, <2>1, <2>2
<1>11. \A i, j \in 1..Len(toMcu') : i < j => toMcu'[i] - toMcu'[j] < MaxPending
  <2> SUFFICES ASSUME NEW i \in 1..Len(toMcu'), NEW j \in 1..Len(toMcu'), i < j
               PROVE  toMcu'[i] - toMcu'[j] < MaxPending
    OBVIOUS
  <2>1. CASE j \in 1..k /\ j \in 1..Len(toMcu) /\ toMcu'[j] = toMcu[j]
    <3>1. i \in 1..Len(toMcu) /\ toMcu'[i] = toMcu[i]
      BY <1>2, <1>3, <1>4, <2>1
    <3> QED BY <2>1, <3>1 DEF Unambiguous
  <2>2. CASE j - k \in 1..Len(sent_queue) /\ toMcu'[j] = receive_seq + (j - k) - 1
    <3>1. toMcu'[i] < send_seq /\ toMcu'[i] \in Nat
      BY <1>3, <1>10
    <3>2. j - k >= 1 /\ j - k \in Int
      BY <2>2
    <3>3. toMcu'[j] >= receive_seq
      BY <1>2, <2>2, <3>2
    <3>4. toMcu'[j] \in Nat
      BY <1>3
    <3> QED BY SMTT(30), <1>2, <1>7, <3>1, <3>3, <3>4
  <2> QED BY <1>4, <2>1, <2>2
<1>12. Unambiguous'
  BY <1>2, <1>10, <1>11 DEF Unambiguous
<1> QED BY <1>5, <1>6, <1>12

LEMMA RetransmitIInv ==
  ASSUME IInv, RetransmitNak \/ RetransmitTimeout
  PROVE  IInv'
<1>1. TypeOK
  BY DEF IInv
<1>2. Resent \subseteq Block
  BY DEF Resent
<1>3. ResendAll
  BY DEF RetransmitNak, RetransmitTimeout
<1>4. /\ ignore_nak_seq' \in Nat
      /\ nak_resends' \in [Block -> Nat]
      /\ timed_out' \in SUBSET Block
  <2>1. CASE RetransmitNak
    BY <1>1, <2>1 DEF RetransmitNak, IgnoreNakSeq, TypeOK
  <2>2. CASE RetransmitTimeout
    BY <1>1, <1>2, <2>2 DEF RetransmitTimeout, TypeOK
  <2> QED BY <2>1, <2>2
<1> QED BY <1>3, <1>4, ResendIInv

(* The host reads the count of every answer right, and discards none.      *)
LEMMA AnswersDecode ==
  ASSUME IInv, toHost # << >>
  PROVE  /\ RSeq(Head(toHost)) = Head(toHost).seq
         /\ ~Bogus(Head(toHost))
<1> DEFINE n == Head(toHost).seq
<1>1. toHost \in Seq(Message) /\ Head(toHost) = toHost[1]
      /\ 1 \in 1..Len(toHost) /\ n \in Nat
  <2>1. toHost \in Seq(Message)
    BY DEF IInv, TypeOK
  <2>2. Head(toHost) = toHost[1] /\ 1 \in 1..Len(toHost)
    BY <2>1
  <2>3. toHost[1] \in Message
    BY <2>1, <2>2
  <2>4. n \in Nat
    BY <2>2, <2>3 DEF Message
  <2> QED BY <2>1, <2>2, <2>4
<1>2. /\ receive_seq <= n /\ mcu_first <= n /\ n <= mcu_next
      /\ mcu_next <= send_seq \/ (mcu_next = mcu_first /\ receive_seq = 1)
  BY <1>1 DEF IInv, Unambiguous
<1>3. /\ send_seq \in Nat /\ receive_seq \in Nat /\ mcu_next \in Nat
      /\ mcu_first \in 1..SeqMod /\ send_seq <= receive_seq + MaxPending
  BY DEF IInv, TypeOK, Window
<1>4. n - receive_seq < SeqMod /\ 0 <= n - receive_seq
  BY <1>1, <1>2, <1>3
<1>5. ((n % SeqMod) - receive_seq) % SeqMod = n - receive_seq
  <2> HIDE DEF n
  <2>1. SeqMod \in Nat \ {0} /\ n \in Int /\ receive_seq \in Int
    BY <1>1, <1>3
  <2> QED BY <1>4, <2>1, ModWiden
<1>6. RSeq(Head(toHost)) = n
  BY <1>1, <1>3, <1>5 DEF RSeq, Wire
<1> QED BY <1>1, <1>2, <1>3, <1>6 DEF Bogus, FirstSeq

(* Taking the first message off the wire leaves the rest in order.         *)
LEMMA TailToHost ==
  ASSUME IInv, toHost # << >>, toHost' = Tail(toHost)
  PROVE  /\ toHost' \in Seq(Message)
         /\ \A i \in 1..Len(toHost') : /\ Head(toHost).seq <= toHost'[i].seq
                                       /\ mcu_first <= toHost'[i].seq
                                       /\ toHost'[i].seq <= mcu_next
         /\ \A i, j \in 1..Len(toHost') :
              i < j => toHost'[i].seq <= toHost'[j].seq
<1>1. toHost \in Seq(Message)
  BY DEF IInv, TypeOK
<1>2. Len(toHost') = Len(toHost) - 1 /\ Head(toHost) = toHost[1]
      /\ \A i \in 1..Len(toHost') : toHost'[i] = toHost[i + 1]
  BY <1>1
<1>3. \A i \in 1..Len(toHost') : i + 1 \in 1..Len(toHost)
  BY <1>1, <1>2
<1>4. 1 \in 1..Len(toHost)
  BY <1>1
<1>5. toHost' \in Seq(Message)
  BY <1>1
<1>6. \A i \in 1..Len(toHost') : /\ Head(toHost).seq <= toHost'[i].seq
                                 /\ mcu_first <= toHost'[i].seq
                                 /\ toHost'[i].seq <= mcu_next
  <2> SUFFICES ASSUME NEW i \in 1..Len(toHost')
               PROVE  /\ toHost[1].seq <= toHost[i + 1].seq
                      /\ mcu_first <= toHost[i + 1].seq
                      /\ toHost[i + 1].seq <= mcu_next
    BY <1>2
  <2>1. 1 < i + 1
    OBVIOUS
  <2> QED BY <1>3, <1>4, <2>1 DEF IInv, Unambiguous
<1>7. \A i, j \in 1..Len(toHost') : i < j => toHost'[i].seq <= toHost'[j].seq
  <2> SUFFICES ASSUME NEW i \in 1..Len(toHost'), NEW j \in 1..Len(toHost'), i < j
               PROVE  toHost[i + 1].seq <= toHost[j + 1].seq
    BY <1>2
  <2>1. i + 1 < j + 1
    OBVIOUS
  <2> QED BY <1>3, <2>1 DEF IInv, Unambiguous
<1> QED BY <1>5, <1>6, <1>7

(* Taking the first block off the wire leaves the rest unambiguous.        *)
LEMMA TailToMcu ==
  ASSUME IInv, toMcu # << >>, toMcu' = Tail(toMcu)
  PROVE  /\ toMcu' \in Seq(Nat)
         /\ \A i \in 1..Len(toMcu') : /\ 1 <= toMcu'[i]
                                      /\ toMcu'[i] < send_seq
                                      /\ mcu_next - toMcu'[i] < SeqMod
                                      /\ Head(toMcu) - toMcu'[i] < MaxPending
         /\ \A i, j \in 1..Len(toMcu') :
              i < j => toMcu'[i] - toMcu'[j] < MaxPending
<1>1. toMcu \in Seq(Nat)
  BY DEF IInv, TypeOK
<1>2. Len(toMcu') = Len(toMcu) - 1 /\ Head(toMcu) = toMcu[1]
      /\ \A i \in 1..Len(toMcu') : toMcu'[i] = toMcu[i + 1]
  BY <1>1
<1>3. \A i \in 1..Len(toMcu') : i + 1 \in 1..Len(toMcu)
  BY <1>1, <1>2
<1>4. 1 \in 1..Len(toMcu)
  BY <1>1
<1>5. toMcu' \in Seq(Nat)
  BY <1>1
<1>6. \A i \in 1..Len(toMcu') : /\ 1 <= toMcu'[i]
                                /\ toMcu'[i] < send_seq
                                /\ mcu_next - toMcu'[i] < SeqMod
                                /\ Head(toMcu) - toMcu'[i] < MaxPending
  <2> SUFFICES ASSUME NEW i \in 1..Len(toMcu')
               PROVE  /\ 1 <= toMcu[i + 1]
                      /\ toMcu[i + 1] < send_seq
                      /\ mcu_next - toMcu[i + 1] < SeqMod
                      /\ toMcu[1] - toMcu[i + 1] < MaxPending
    BY <1>2
  <2>1. 1 < i + 1
    OBVIOUS
  <2> QED BY <1>3, <1>4, <2>1 DEF IInv, Unambiguous
<1>7. \A i, j \in 1..Len(toMcu') : i < j => toMcu'[i] - toMcu'[j] < MaxPending
  <2> SUFFICES ASSUME NEW i \in 1..Len(toMcu'), NEW j \in 1..Len(toMcu'), i < j
               PROVE  toMcu[i + 1] - toMcu[j + 1] < MaxPending
    BY <1>2
  <2>1. i + 1 < j + 1
    OBVIOUS
  <2> QED BY <1>3, <2>1 DEF IInv, Unambiguous
<1> QED BY <1>5, <1>6, <1>7

(* update_receive_seq keeps the sent queue exact, also when the connection *)
(* begins and the host takes over the controller's count.                  *)
LEMMA UpdateKeeps ==
  ASSUME IInv, NEW n \in Nat, receive_seq < n, UpdateReceiveSeq(n)
  PROVE  /\ sent_queue' \in Seq(Nat) /\ send_seq' \in Nat \ {0}
         /\ receive_seq' = n
         /\ last_receive_sent' \in Nat /\ rtt_sample_seq' \in Nat
         /\ rtt_block' \in Nat
         /\ Len(sent_queue') = send_seq' - n
         /\ \A i \in 1..Len(sent_queue') : sent_queue'[i] = n + i - 1
         /\ send_seq' <= n + MaxPending
         /\ send_seq <= send_seq' /\ n <= send_seq'
<1> DEFINE d == n - receive_seq
<1>1. /\ send_seq \in Nat \ {0} /\ receive_seq \in Nat \ {0}
      /\ sent_queue \in Seq(Nat) /\ rtt_sample_seq \in Nat /\ rtt_block \in Nat
  BY DEF IInv, TypeOK
<1>2. /\ Len(sent_queue) = send_seq - receive_seq
      /\ \A i \in 1..Len(sent_queue) : sent_queue[i] = receive_seq + i - 1
      /\ send_seq <= receive_seq + MaxPending
  BY DEF IInv, SentQueueExact, Window
<1>3. receive_seq' = n /\ d \in Nat /\ d >= 1
  BY <1>1 DEF UpdateReceiveSeq
<1>4. CASE d <= Len(sent_queue)
  <2>1. d \in 1..Len(sent_queue)
    BY <1>1, <1>3, <1>4
  <2>2. sent_queue[d] \in Nat
    BY <1>1, <2>1
  <2>3. /\ sent_queue' = SubSeq(sent_queue, d + 1, Len(sent_queue))
        /\ send_seq' = send_seq
        /\ last_receive_sent' = sent_queue[d]
        /\ rtt_sample_seq' \in Nat /\ rtt_block' \in Nat
    BY <1>1, <1>4, <2>2 DEF UpdateReceiveSeq, StillUnacked
  <2>4. /\ sent_queue' \in Seq(Nat)
        /\ Len(sent_queue') = Len(sent_queue) - d
        /\ \A i \in 1..Len(sent_queue') : sent_queue'[i] = sent_queue[d + i]
    <3> DEFINE L == Len(sent_queue)
    <3>1. L \in Nat /\ d \in Nat /\ 1 <= d /\ d <= L
      BY <1>1, <1>3, <1>4
    <3> HIDE DEF d
    <3>2. \A i \in (d + 1)..L : sent_queue[i] \in Nat
      BY <1>1, <3>1
    <3>3. sent_queue' \in Seq(Nat)
      BY <1>1, <2>3, <3>1, <3>2
    <3>4. Len(sent_queue') = L - d
      BY <1>1, <2>3, <3>1
    <3>5. \A i \in 1..(L - d) : sent_queue'[i] = sent_queue[d + i]
      BY <1>1, <2>3, <3>1
    <3> QED BY <3>3, <3>4, <3>5
  <2>5. \A i \in 1..Len(sent_queue') : d + i \in 1..Len(sent_queue)
    <3>1. Len(sent_queue) \in Nat /\ d \in Nat
      BY <1>1, <1>3
    <3>2. Len(sent_queue') = Len(sent_queue) - d
      BY <2>4
    <3> HIDE DEF d
    <3> QED BY <3>1, <3>2
  <2>6. \A i \in 1..Len(sent_queue') : sent_queue'[i] = n + i - 1
    <3> SUFFICES ASSUME NEW i \in 1..Len(sent_queue')
                 PROVE  sent_queue'[i] = n + i - 1
      OBVIOUS
    <3>1. sent_queue'[i] = receive_seq + (d + i) - 1
      BY <1>2, <2>4, <2>5
    <3> QED BY <1>1, <3>1
  <2>7. Len(sent_queue') = send_seq' - n
    BY <1>1, <1>2, <1>3, <2>3, <2>4
  <2>8. send_seq' <= n + MaxPending /\ send_seq <= send_seq' /\ n <= send_seq'
    <3>1. send_seq' = send_seq
      BY <2>3
    <3>2. MaxPending \in Nat
      BY SerialAssumption
    <3> QED BY <1>1, <1>2, <1>3, <1>4, <3>1, <3>2
  <2>9. /\ send_seq' \in Nat \ {0} /\ last_receive_sent' \in Nat
        /\ rtt_sample_seq' \in Nat /\ rtt_block' \in Nat
        /\ sent_queue' \in Seq(Nat)
    BY <1>1, <2>2, <2>3, <2>4
  <2> HIDE DEF d
  <2> QED BY <1>3, <2>6, <2>7, <2>8, <2>9
<1>5. CASE ~(d <= Len(sent_queue))
  <2>1. /\ sent_queue' = << >> /\ send_seq' = n /\ last_receive_sent' = 0
        /\ rtt_sample_seq' = rtt_sample_seq /\ rtt_block' = rtt_block
    BY <1>5 DEF UpdateReceiveSeq
  <2>2. send_seq <= n
    BY <1>1, <1>2, <1>5
  <2> QED BY <1>1, <1>3, <2>1, <2>2
<1> QED BY <1>4, <1>5

(* The entries a message adds for the python thread are well formed.       *)
LEMMA AcceptMessageType ==
  ASSUME IInv, NEW m \in Message, NEW n \in Nat, AcceptMessage(m, n),
         last_receive_sent' \in Nat
  PROVE  /\ receive_queue' \in Seq(Entry) /\ notify_queue' \in Seq(Nat)
         /\ last_ack_seq' \in Nat /\ rtimer' \in {"never", "armed", "now"}
<1>1. /\ notify_queue \in Seq(Nat) /\ receive_queue \in Seq(Entry)
      /\ last_ack_seq \in Nat /\ rtimer \in {"never", "armed", "now"}
      /\ retransmit_seq \in Nat
  BY DEF IInv, TypeOK
<1>2. last_ack_seq' \in Nat /\ rtimer' \in {"never", "armed", "now"}
  BY <1>1 DEF AcceptMessage
<1>3. PICK k \in 0..Len(notify_queue) :
        /\ notify_queue' = SubSeq(notify_queue, k + 1, Len(notify_queue))
        /\ receive_queue' =
             receive_queue \o Woken(k, last_receive_sent')
               \o IF m.data
                  THEN << [kind |-> "response", block |-> m.of,
                           sent |-> IF n > retransmit_seq
                                    THEN last_receive_sent' ELSE 0] >>
                  ELSE << >>
  BY DEF AcceptMessage, CompleteNotifies
<1>4. notify_queue' \in Seq(Nat)
  BY SMTT(30), <1>1, <1>3
<1>5. \A i \in 1..k : notify_queue[i] \in Nat
  BY <1>1, <1>3
<1>6. Woken(k, last_receive_sent') \in Seq(Entry)
  <2>1. \A i \in 1..k : [kind |-> "notify", block |-> notify_queue[i],
                         sent |-> last_receive_sent'] \in Entry
    BY <1>5 DEF Entry
  <2>2. k \in Nat
    BY <1>1, <1>3
  <2> QED BY <2>1, <2>2 DEF Woken
<1>7. [kind |-> "response", block |-> m.of,
       sent |-> IF n > retransmit_seq THEN last_receive_sent' ELSE 0] \in Entry
  BY <1>1 DEF Entry, Message
<1>8. receive_queue' \in Seq(Entry)
  <2> DEFINE e == [kind |-> "response", block |-> m.of,
                   sent |-> IF n > retransmit_seq THEN last_receive_sent' ELSE 0]
             a == receive_queue \o Woken(k, last_receive_sent')
  <2>1. a \in Seq(Entry)
    BY <1>1, <1>6
  <2>2. << e >> \in Seq(Entry)
    BY <1>7
  <2>3. receive_queue' = a \o << e >> \/ receive_queue' = a \o << >>
    BY <1>3
  <2> HIDE DEF a, e
  <2>4. a \o << >> = a
    BY <2>1
  <2> QED BY <2>1, <2>2, <2>3, <2>4
<1> QED BY <1>2, <1>4, <1>8

LEMMA HandleIInv ==
  ASSUME IInv, HandleMessage
  PROVE  IInv'
<1> DEFINE m == Head(toHost)
           n == m.seq
<1>1. /\ toHost # << >> /\ toHost' = Tail(toHost)
      /\ UNCHANGED <<ignore_nak_seq, retransmit_seq, toMcu, mcu_next,
                     mcu_first, delivered, nak_resends, timed_out>>
      /\ AcceptMessage(m, n)
  BY AnswersDecode DEF HandleMessage, mcuVars, hostVars
<1>2. TypeOK /\ m \in Message
  <2>1. TypeOK /\ toHost \in Seq(Message)
    BY DEF IInv, TypeOK
  <2> QED BY <1>1, <2>1
<1>3. n \in Nat
  BY <1>2 DEF Message
<1>4. 1 \in 1..Len(toHost) /\ m = toHost[1]
  BY <1>1 DEF IInv, TypeOK
<1>5. /\ receive_seq <= n /\ mcu_first <= n /\ n <= mcu_next
      /\ mcu_next <= send_seq \/ (mcu_next = mcu_first /\ receive_seq = 1)
      /\ mcu_first <= mcu_next
  BY <1>4 DEF IInv, Unambiguous
<1>6. /\ send_seq \in Nat \ {0} /\ receive_seq \in Nat \ {0}
      /\ sent_queue \in Seq(Nat) /\ mcu_next \in Nat
      /\ last_receive_sent \in Nat /\ rtt_sample_seq \in Nat /\ rtt_block \in Nat
      /\ mcu_first \in Nat
  BY <1>2 DEF TypeOK
<1> HIDE DEF m
<1>7. /\ sent_queue' \in Seq(Nat) /\ send_seq' \in Nat \ {0}
      /\ receive_seq' = n
      /\ last_receive_sent' \in Nat /\ rtt_sample_seq' \in Nat
      /\ rtt_block' \in Nat
      /\ Len(sent_queue') = send_seq' - n
      /\ \A i \in 1..Len(sent_queue') : sent_queue'[i] = n + i - 1
      /\ send_seq' <= n + MaxPending
      /\ send_seq <= send_seq' /\ n <= send_seq'
  <2>1. CASE n = receive_seq
    <3>1. UNCHANGED <<sent_queue, send_seq, last_receive_sent, receive_seq,
                      rtt_sample_seq, rtt_block>>
      BY <1>1, <2>1 DEF AcceptMessage
    <3>2. Len(sent_queue) \in Nat
      BY <1>6
    <3> QED BY <1>6, <2>1, <3>1, <3>2 DEF IInv, SentQueueExact, Window
  <2>2. CASE n # receive_seq
    <3>1. UpdateReceiveSeq(n)
      BY <1>1, <2>2 DEF AcceptMessage
    <3>2. receive_seq < n
      BY <1>3, <1>5, <1>6, <2>2
    <3> QED BY <1>3, <3>1, <3>2, UpdateKeeps
  <2> QED BY <2>1, <2>2
<1>8. TypeOK'
  <2>1. /\ receive_queue' \in Seq(Entry) /\ notify_queue' \in Seq(Nat)
        /\ last_ack_seq' \in Nat /\ rtimer' \in {"never", "armed", "now"}
    BY <1>1, <1>2, <1>3, <1>7, AcceptMessageType
  <2>2. toHost' \in Seq(Message)
    BY <1>1, TailToHost
  <2>3. receive_seq' \in Nat \ {0}
    BY <1>3, <1>5, <1>6, <1>7
  <2> QED BY <1>1, <1>2, <1>7, <2>1, <2>2, <2>3 DEF TypeOK
<1>9. SentQueueExact' /\ Window' /\ ConfirmedArrived'
  BY <1>1, <1>5, <1>7 DEF SentQueueExact, Window, ConfirmedArrived
<1>10. InOrder'
  BY <1>1 DEF IInv, InOrder
<1>11. mcu_next' <= send_seq' \/ (mcu_next' = mcu_first' /\ receive_seq' = 1)
  BY SMTT(30), <1>1, <1>3, <1>5, <1>6, <1>7
<1>12. \A i \in 1..Len(toMcu) : toMcu[i] \in Nat
  BY <1>2 DEF TypeOK
<1>13. Unambiguous'
  <2>1. \A i \in 1..Len(toHost') : /\ receive_seq' <= toHost'[i].seq
                                   /\ mcu_first' <= toHost'[i].seq
                                   /\ toHost'[i].seq <= mcu_next'
    BY <1>1, <1>7, TailToHost DEF m
  <2>2. \A i, j \in 1..Len(toHost') : i < j => toHost'[i].seq <= toHost'[j].seq
    BY <1>1, TailToHost
  <2>3. \A i \in 1..Len(toMcu') : /\ 1 <= toMcu'[i]
                                  /\ toMcu'[i] < send_seq'
                                  /\ mcu_next' - toMcu'[i] < SeqMod
    <3> SUFFICES ASSUME NEW i \in 1..Len(toMcu)
                 PROVE  /\ 1 <= toMcu[i] /\ toMcu[i] < send_seq'
                        /\ mcu_next - toMcu[i] < SeqMod
      BY <1>1
    <3>1. /\ 1 <= toMcu[i] /\ toMcu[i] < send_seq
          /\ mcu_next - toMcu[i] < SeqMod
      BY DEF IInv, Unambiguous
    <3> QED BY <1>6, <1>7, <1>12, <3>1
  <2>4. \A i, j \in 1..Len(toMcu') : i < j => toMcu'[i] - toMcu'[j] < MaxPending
    BY <1>1 DEF IInv, Unambiguous
  <2> QED BY <1>1, <1>5, <1>11, <2>1, <2>2, <2>3, <2>4 DEF Unambiguous
<1> QED BY <1>8, <1>9, <1>10, <1>13 DEF IInv

LEMMA PullIInv ==
  ASSUME IInv, Pull
  PROVE  IInv'
<1>1. TypeOK
  BY DEF IInv
<1>2. TypeOK'
  BY <1>1 DEF TypeOK, Pull, mcuVars, histVars
<1>3. /\ SentQueueExact' /\ Window' /\ ConfirmedArrived'
      /\ Unambiguous' /\ InOrder'
  BY DEF IInv, SentQueueExact, Window, ConfirmedArrived, Unambiguous, InOrder,
         Pull, mcuVars
<1> QED BY <1>2, <1>3 DEF IInv

(* The block the controller accepts is the one it expects.                 *)
LEMMA AcceptExact ==
  ASSUME IInv, McuAccept
  PROVE  Head(toMcu) = mcu_next /\ mcu_next < send_seq
<1>1. toMcu \in Seq(Nat) /\ toMcu # << >>
  BY DEF IInv, TypeOK, McuAccept
<1>2. Head(toMcu) = toMcu[1] /\ 1 \in 1..Len(toMcu) /\ Head(toMcu) \in Nat
  BY <1>1
<1>3. Head(toMcu) < send_seq /\ mcu_next - Head(toMcu) < SeqMod
  BY <1>2 DEF IInv, Unambiguous
<1>4. /\ send_seq \in Nat /\ receive_seq \in Nat /\ mcu_next \in Nat
      /\ send_seq <= receive_seq + MaxPending /\ receive_seq <= mcu_next
      /\ SeqMod \in Nat \ {0}
  BY DEF IInv, TypeOK, Window, ConfirmedArrived
<1>5. Head(toMcu) - mcu_next < SeqMod
  BY <1>2, <1>3, <1>4
<1>6. Head(toMcu) % SeqMod = mcu_next % SeqMod
  BY DEF McuAccept, Wire
<1>7. Head(toMcu) = mcu_next
  <2> DEFINE h == Head(toMcu)
  <2>1. h \in Int /\ mcu_next \in Int
    BY <1>2, <1>4
  <2> HIDE DEF h
  <2> QED BY <1>3, <1>4, <1>5, <1>6, <2>1, ModUnique DEF h
<1> QED BY <1>3, <1>7

LEMMA AcceptIInv ==
  ASSUME IInv, McuAccept
  PROVE  IInv'
<1> DEFINE n == mcu_next + 1
<1>1. /\ toMcu # << >> /\ toMcu' = Tail(toMcu) /\ mcu_next' = n
      /\ delivered' = Append(delivered, mcu_next)
      /\ Head(toMcu) = mcu_next /\ mcu_next < send_seq
      /\ UNCHANGED <<hostVars, mcu_first, histVars>>
  BY AcceptExact DEF McuAccept
<1>2. TypeOK /\ ConfirmedArrived /\ Unambiguous
  BY DEF IInv
<1>3. /\ mcu_next \in Nat /\ mcu_next >= 1 /\ n \in Nat /\ send_seq \in Nat
      /\ receive_seq \in Nat
      /\ mcu_first \in Nat /\ delivered \in Seq(Nat) /\ mcu_first <= mcu_next
  BY <1>2 DEF TypeOK, Unambiguous
<1>4. PICK r \in 0..MaxReplies :
        Post(Append([i \in 1..r |-> Response(n, Head(toMcu))], Ack(n)))
  BY DEF McuAccept
<1> DEFINE q == [i \in 1..r |-> Response(n, Head(toMcu))]
           ms == Append(q, Ack(n))
<1>5. Response(n, mcu_next) \in Message /\ Ack(n) \in Message
      /\ Response(n, mcu_next).seq = n /\ Ack(n).seq = n
  BY <1>3 DEF Response, Ack, Message
<1>6. q \in Seq(Message) /\ Len(q) = r
      /\ \A i \in 1..r : q[i] = Response(n, mcu_next)
  BY <1>1, <1>5
<1>7. ms \in Seq(Message) /\ \A i \in 1..Len(ms) : ms[i].seq = n
  <2> HIDE DEF q
  <2>1. ms \in Seq(Message) /\ Len(ms) = r + 1
        /\ \A i \in 1..Len(ms) : ms[i] = IF i <= r THEN q[i] ELSE Ack(n)
    BY <1>5, <1>6
  <2> HIDE DEF ms, n
  <2> QED BY <1>5, <1>6, <2>1
<1>8. /\ toHost' \in Seq(Message)
      /\ \A i \in 1..Len(toHost') : /\ receive_seq <= toHost'[i].seq
                                    /\ mcu_first <= toHost'[i].seq
                                    /\ toHost'[i].seq <= n
      /\ \A i, j \in 1..Len(toHost') : i < j => toHost'[i].seq <= toHost'[j].seq
  <2>1. mcu_next <= n /\ Post(ms)
    BY <1>3, <1>4
  <2> HIDE DEF ms, n
  <2> QED BY <1>2, <1>3, <1>7, <2>1, PostInOrder
<1>9. /\ toMcu' \in Seq(Nat)
      /\ \A i \in 1..Len(toMcu') : /\ 1 <= toMcu'[i]
                                   /\ toMcu'[i] < send_seq
                                   /\ mcu_next - toMcu'[i] < MaxPending
      /\ \A i, j \in 1..Len(toMcu') : i < j => toMcu'[i] - toMcu'[j] < MaxPending
  BY <1>1, TailToMcu
<1>10. TypeOK'
  <2>1. delivered' \in Seq(Nat) /\ mcu_next' \in Nat \ {0}
    BY <1>1, <1>3
  <2> QED BY <1>1, <1>2, <1>8, <1>9, <2>1 DEF TypeOK, hostVars, histVars
<1>11. SentQueueExact' /\ Window'
  BY <1>1 DEF IInv, SentQueueExact, Window, hostVars
<1>12. ConfirmedArrived'
  BY <1>1, <1>2, <1>3 DEF ConfirmedArrived, hostVars
<1>13. InOrder'
  <2>1. Len(delivered) = mcu_next - mcu_first
        /\ \A i \in 1..Len(delivered) : delivered[i] = mcu_first + i - 1
    BY DEF IInv, InOrder
  <2>2. Len(delivered') = Len(delivered) + 1
        /\ \A i \in 1..Len(delivered') :
             delivered'[i] = IF i <= Len(delivered) THEN delivered[i] ELSE mcu_next
    BY <1>1, <1>3
  <2>3. Len(delivered') = mcu_next' - mcu_first'
    BY <1>1, <1>3, <2>1, <2>2
  <2>4. \A i \in 1..Len(delivered') : delivered'[i] = mcu_first' + i - 1
    <3> SUFFICES ASSUME NEW i \in 1..Len(delivered')
                 PROVE  delivered'[i] = mcu_first + i - 1
      BY <1>1
    <3>1. CASE i <= Len(delivered)
      BY <1>3, <2>1, <2>2, <3>1
    <3>2. CASE i = Len(delivered) + 1
      <4>1. delivered'[i] = mcu_next
        BY <1>3, <2>2, <3>2
      <4> QED BY <1>3, <2>1, <3>2, <4>1
    <3> QED BY <1>3, <2>2, <3>1, <3>2
  <2> QED BY <2>3, <2>4 DEF InOrder
<1>14. Unambiguous'
  <2>1. \A i \in 1..Len(toMcu') : mcu_next' - toMcu'[i] < SeqMod
    <3> SUFFICES ASSUME NEW i \in 1..Len(toMcu') PROVE n - toMcu'[i] < SeqMod
      BY <1>1
    <3>1. toMcu'[i] \in Nat /\ mcu_next - toMcu'[i] < MaxPending
      BY <1>9
    <3> QED BY <1>3, <3>1
  <2>2. mcu_next' <= send_seq' /\ mcu_first' <= mcu_next'
    BY <1>1, <1>3 DEF hostVars
  <2> QED BY <1>1, <1>8, <1>9, <2>1, <2>2 DEF Unambiguous, hostVars
<1> QED BY <1>10, <1>11, <1>12, <1>13, <1>14 DEF IInv

(* Steps that move messages but leave both counters alone.                 *)
LEMMA WireIInv ==
  ASSUME IInv, UNCHANGED <<hostVars, mcuVars, histVars>>,
         toMcu' = toMcu \/ (toMcu # << >> /\ toMcu' = Tail(toMcu)),
         \/ toHost' = toHost
         \/ toHost # << >> /\ toHost' = Tail(toHost)
         \/ \E d \in BOOLEAN :
              Post(<< IF d THEN Response(mcu_next, 0) ELSE Ack(mcu_next) >>)
  PROVE  IInv'
<1>1. TypeOK /\ ConfirmedArrived /\ Unambiguous
  BY DEF IInv
<1>2. /\ toMcu' \in Seq(Nat)
      /\ \A i \in 1..Len(toMcu') : /\ 1 <= toMcu'[i]
                                   /\ toMcu'[i] < send_seq
                                   /\ mcu_next - toMcu'[i] < SeqMod
      /\ \A i, j \in 1..Len(toMcu') : i < j => toMcu'[i] - toMcu'[j] < MaxPending
  <2>1. CASE toMcu' = toMcu
    BY <1>1, <2>1 DEF Unambiguous, TypeOK
  <2>2. CASE toMcu # << >> /\ toMcu' = Tail(toMcu)
    BY <2>2, TailToMcu
  <2> QED BY <2>1, <2>2
<1>3. /\ toHost' \in Seq(Message)
      /\ \A i \in 1..Len(toHost') : /\ receive_seq <= toHost'[i].seq
                                    /\ mcu_first <= toHost'[i].seq
                                    /\ toHost'[i].seq <= mcu_next
      /\ \A i, j \in 1..Len(toHost') : i < j => toHost'[i].seq <= toHost'[j].seq
  <2>1. CASE toHost' = toHost
    BY <1>1, <2>1 DEF Unambiguous, TypeOK
  <2>2. CASE toHost # << >> /\ toHost' = Tail(toHost)
    <3>1. /\ toHost' \in Seq(Message)
          /\ \A i \in 1..Len(toHost') : /\ Head(toHost).seq <= toHost'[i].seq
                                        /\ mcu_first <= toHost'[i].seq
                                        /\ toHost'[i].seq <= mcu_next
          /\ \A i, j \in 1..Len(toHost') :
               i < j => toHost'[i].seq <= toHost'[j].seq
      BY <2>2, TailToHost
    <3>2. toHost \in Seq(Message) /\ receive_seq \in Nat
      BY <1>1 DEF TypeOK
    <3>3. 1 \in 1..Len(toHost) /\ Head(toHost) = toHost[1]
      BY <2>2, <3>2
    <3>4. toHost[1] \in Message
      BY <3>2, <3>3
    <3>5. receive_seq <= Head(toHost).seq /\ Head(toHost).seq \in Nat
      BY <1>1, <3>3, <3>4 DEF Unambiguous, Message
    <3>6. \A i \in 1..Len(toHost') : toHost'[i].seq \in Nat
      <4> SUFFICES ASSUME NEW i \in 1..Len(toHost') PROVE toHost'[i].seq \in Nat
        OBVIOUS
      <4>1. toHost'[i] \in Message
        BY <3>1
      <4> QED BY <4>1 DEF Message
    <3>7. \A i \in 1..Len(toHost') : receive_seq <= toHost'[i].seq
      BY <3>1, <3>2, <3>5, <3>6
    <3> QED BY <3>1, <3>7
  <2>3. CASE \E d \in BOOLEAN :
               Post(<< IF d THEN Response(mcu_next, 0) ELSE Ack(mcu_next) >>)
    <3>1. PICK d \in BOOLEAN :
            Post(<< IF d THEN Response(mcu_next, 0) ELSE Ack(mcu_next) >>)
      BY <2>3
    <3> DEFINE e == IF d THEN Response(mcu_next, 0) ELSE Ack(mcu_next)
               ms == << e >>
    <3>2. mcu_next \in Nat /\ mcu_next <= mcu_next
      BY <1>1 DEF TypeOK
    <3>3. e \in Message /\ e.seq = mcu_next
      BY <3>2 DEF Response, Ack, Message
    <3> HIDE DEF e
    <3>4. ms \in Seq(Message) /\ Len(ms) = 1 /\ ms[1] = e
      BY <3>3
    <3>5. \A i \in 1..Len(ms) : ms[i].seq = mcu_next
      BY <3>3, <3>4
    <3>6. Post(ms)
      BY <3>1 DEF e
    <3> HIDE DEF ms
    <3> QED BY <1>1, <3>2, <3>4, <3>5, <3>6, PostInOrder
  <2> QED BY <2>1, <2>2, <2>3
<1>4. TypeOK'
  BY <1>1, <1>2, <1>3 DEF TypeOK, hostVars, mcuVars, histVars
<1>5. SentQueueExact' /\ Window' /\ ConfirmedArrived' /\ InOrder'
  BY DEF IInv, SentQueueExact, Window, ConfirmedArrived, InOrder, hostVars,
         mcuVars
<1>6. Unambiguous'
  BY <1>1, <1>2, <1>3 DEF Unambiguous, hostVars, mcuVars
<1> QED BY <1>4, <1>5, <1>6 DEF IInv

LEMMA NextIInv == IInv /\ [Next]_vars => IInv'
<1> SUFFICES ASSUME IInv, [Next]_vars PROVE IInv'
  OBVIOUS
<1>1. ASSUME NEW notify \in Notify, SendBlock(notify) PROVE IInv'
  BY <1>1, SendIInv
<1>2. CASE RetransmitNak \/ RetransmitTimeout
  BY <1>2, RetransmitIInv
<1>3. CASE HandleMessage
  BY <1>3, HandleIInv
<1>4. CASE Pull
  BY <1>4, PullIInv
<1>5. CASE McuAccept
  BY <1>5, AcceptIInv
<1>6. CASE McuReject
  BY <1>6, WireIInv DEF McuReject
<1>7. CASE McuReport
  BY <1>7, WireIInv DEF McuReport
<1>8. CASE LoseBlock
  BY <1>8, WireIInv DEF LoseBlock
<1>9. CASE LoseMessage
  BY <1>9, WireIInv DEF LoseMessage
<1>10. CASE UNCHANGED vars
  BY <1>10, WireIInv DEF vars
<1> QED BY <1>1, <1>2, <1>3, <1>4, <1>5, <1>6, <1>7, <1>8, <1>9, <1>10 DEF Next

THEOREM Invariance == Spec => []IInv
  BY InitIInv, NextIInv, PTL DEF Spec

-----------------------------------------------------------------------------
(* Every variable keeps its type.                                          *)
THEOREM TypeCorrect == Spec => []TypeOK
<1>1. IInv => TypeOK
  BY DEF IInv
<1> QED BY <1>1, Invariance, PTL

(* Blocks arrive exactly once and in order, whatever the wire loses, for   *)
(* every window MAX_PENDING_BLOCKS smaller than the number of sequence     *)
(* numbers (chelper/serialqueue.c:72 and msgblock.h:16).                   *)
THEOREM ExactlyOnce == Spec => []InOrder
<1>1. IInv => InOrder
  BY DEF IInv
<1> QED BY <1>1, Invariance, PTL

(* No block is confirmed to its sender that did not arrive.                *)
THEOREM NoFalseAck == Spec => []ConfirmedArrived
<1>1. IInv => ConfirmedArrived
  BY DEF IInv
<1> QED BY <1>1, Invariance, PTL

(* The numbers on the wire can always be told apart.                       *)
THEOREM WireUnambiguous == Spec => []Unambiguous
<1>1. IInv => Unambiguous
  BY DEF IInv
<1> QED BY <1>1, Invariance, PTL

-----------------------------------------------------------------------------
(* Naks.  A resend that a nak asks for needs an acknowledgement beyond      *)
(* ignore_nak_seq; blocks from there on were sent again at most once, and   *)
(* those from retransmit_seq on never.                                      *)
NakInv ==
  /\ \A b \in Block : /\ nak_resends[b] <= 2
                      /\ b >= ignore_nak_seq => nak_resends[b] <= 1
                      /\ b >= retransmit_seq => nak_resends[b] = 0
  /\ retransmit_seq <= send_seq
  /\ rtimer = "now" => receive_seq > ignore_nak_seq

LEMMA NakTypes ==
  ASSUME TypeOK
  PROVE  /\ send_seq \in Nat /\ receive_seq \in Nat /\ ignore_nak_seq \in Nat
         /\ retransmit_seq \in Nat /\ nak_resends \in [Block -> Nat]
         /\ \A b \in Block : b \in Nat /\ nak_resends[b] \in Nat
  BY DEF TypeOK, Block

(* What is sent again is not acknowledged.                                 *)
LEMMA ResentAbove ==
  ASSUME IInv, NEW b \in Resent
  PROVE  b \in Block /\ b >= receive_seq
<1>1. PICK i \in 1..Len(sent_queue) : sent_queue[i] = b
  BY DEF Resent
<1>2. b \in Block /\ b = receive_seq + i - 1 /\ receive_seq \in Nat
  BY <1>1 DEF Resent, IInv, SentQueueExact, TypeOK
<1>3. i \in Nat /\ i >= 1
  BY DEF IInv, TypeOK
<1> QED  BY <1>2, <1>3

LEMMA InitNakInv == Init => NakInv
<1> SUFFICES ASSUME Init PROVE NakInv
  OBVIOUS
<1>1. \A b \in Block : nak_resends[b] = 0
  BY DEF Init
<1>2. retransmit_seq <= send_seq /\ rtimer # "now"
  BY DEF Init, FirstSeq
<1> QED  BY <1>1, <1>2 DEF NakInv

LEMMA RetransmitNakKeeps ==
  ASSUME IInv, NakInv, RetransmitNak
  PROVE  NakInv'
<1>1. /\ send_seq' = send_seq /\ receive_seq' = receive_seq
      /\ retransmit_seq' = send_seq /\ ignore_nak_seq' = IgnoreNakSeq
      /\ rtimer' = "armed" /\ rtimer = "now"
      /\ nak_resends' = [b \in Block |-> IF b \in Resent THEN nak_resends[b] + 1
                                                         ELSE nak_resends[b]]
  BY DEF RetransmitNak, ResendAll, TimerAfterResend
<1>2. /\ send_seq \in Nat /\ receive_seq \in Nat /\ ignore_nak_seq \in Nat
      /\ retransmit_seq \in Nat
      /\ \A b \in Block : b \in Nat /\ nak_resends[b] \in Nat
  BY NakTypes DEF IInv
<1>3. receive_seq > ignore_nak_seq /\ retransmit_seq <= send_seq
  BY <1>1 DEF NakInv
<1>4. ASSUME NEW b \in Block
      PROVE  /\ nak_resends'[b] <= 2
             /\ b >= ignore_nak_seq' => nak_resends'[b] <= 1
             /\ b >= retransmit_seq' => nak_resends'[b] = 0
  <2>1. /\ nak_resends[b] <= 2
        /\ b >= ignore_nak_seq => nak_resends[b] <= 1
        /\ b >= retransmit_seq => nak_resends[b] = 0
        /\ b \in Nat /\ nak_resends[b] \in Nat
    BY <1>2 DEF NakInv
  <2>2. b >= ignore_nak_seq' => b >= retransmit_seq
    BY <1>1, <1>2, <2>1 DEF IgnoreNakSeq
  <2>3. CASE b \in Resent
    <3>1. b >= receive_seq /\ nak_resends'[b] = nak_resends[b] + 1
      BY <1>1, <2>3, ResentAbove
    <3>2. b < send_seq
      <4>1. PICK i \in 1..Len(sent_queue) : sent_queue[i] = b
        BY <2>3 DEF Resent
      <4>2. /\ b = receive_seq + i - 1 /\ Len(sent_queue) = send_seq - receive_seq
            /\ i \in Nat /\ i <= Len(sent_queue)
        BY <4>1 DEF IInv, SentQueueExact, TypeOK
      <4> QED  BY <1>2, <2>1, <4>2
    <3>3. nak_resends[b] <= 1
      BY <1>2, <1>3, <2>1, <3>1
    <3> QED  BY <1>1, <1>2, <2>1, <2>2, <3>1, <3>2, <3>3
  <2>4. CASE b \notin Resent
    <3>1. nak_resends'[b] = nak_resends[b]
      BY <1>1, <2>4
    <3> QED  BY <1>1, <1>2, <1>3, <2>1, <2>2, <3>1
  <2> QED  BY <2>3, <2>4
<1> QED  BY <1>1, <1>2, <1>4 DEF NakInv

LEMMA RetransmitTimeoutKeeps ==
  ASSUME IInv, NakInv, RetransmitTimeout
  PROVE  NakInv'
<1>1. /\ send_seq' = send_seq /\ receive_seq' = receive_seq
      /\ retransmit_seq' = send_seq /\ ignore_nak_seq' = send_seq
      /\ rtimer' = "armed" /\ nak_resends' = nak_resends
  BY DEF RetransmitTimeout, ResendAll, TimerAfterResend
<1>2. /\ send_seq \in Nat /\ retransmit_seq \in Nat
      /\ \A b \in Block : b \in Nat /\ nak_resends[b] \in Nat
      /\ retransmit_seq <= send_seq
  BY NakTypes DEF IInv, NakInv
<1>3. \A b \in Block : b >= send_seq => nak_resends[b] = 0
  BY <1>2 DEF NakInv
<1>4. \A b \in Block : nak_resends[b] <= 2
  BY DEF NakInv
<1> QED  BY <1>1, <1>2, <1>3, <1>4 DEF NakInv

LEMMA HandleNakKeeps ==
  ASSUME IInv, NakInv, HandleMessage
  PROVE  NakInv'
<1> DEFINE m == Head(toHost)
           n == m.seq
<1>1. /\ UNCHANGED <<ignore_nak_seq, retransmit_seq, nak_resends>>
      /\ AcceptMessage(m, n)
  BY AnswersDecode DEF HandleMessage, hostVars
<1>2. /\ send_seq \in Nat /\ receive_seq \in Nat /\ ignore_nak_seq \in Nat
      /\ retransmit_seq \in Nat /\ rtimer \in {"never", "armed", "now"}
  BY DEF IInv, TypeOK
<1>3. n \in Nat /\ receive_seq <= n
  <2>1. /\ toHost # << >> /\ toHost \in Seq(Message)
    BY DEF HandleMessage, IInv, TypeOK
  <2>2. m \in Message /\ 1 \in 1..Len(toHost) /\ m = toHost[1]
    BY <2>1
  <2> QED  BY <2>2 DEF IInv, Unambiguous, Message
<1> HIDE DEF m
<1>4. receive_seq' = n /\ send_seq <= send_seq'
  <2>1. CASE n = receive_seq
    BY <1>1, <1>2, <2>1 DEF AcceptMessage
  <2>2. CASE n # receive_seq
    <3>1. UpdateReceiveSeq(n)
      BY <1>1, <2>2 DEF AcceptMessage
    <3>2. /\ receive_seq' = n
          /\ send_seq' = IF n - receive_seq <= Len(sent_queue) THEN send_seq ELSE n
      BY <3>1 DEF UpdateReceiveSeq
    <3>3. Len(sent_queue) = send_seq - receive_seq
      BY DEF IInv, SentQueueExact
    <3> QED  BY <1>2, <1>3, <3>2, <3>3
  <2> QED  BY <2>1, <2>2
<1>5. rtimer' = "now" => n > ignore_nak_seq
  <2>1. rtimer' = IF IsNak(m, n) THEN "now"
                  ELSE IF n = receive_seq THEN rtimer
                  ELSE IF sent_queue' = << >> THEN "never" ELSE "armed"
    BY <1>1 DEF AcceptMessage
  <2>2. IsNak(m, n) => n > ignore_nak_seq
    BY DEF IsNak
  <2>3. (n = receive_seq /\ rtimer = "now") => n > ignore_nak_seq
    BY DEF NakInv
  <2> QED  BY <2>1, <2>2, <2>3
<1>6. retransmit_seq' <= send_seq'
  <2>1. retransmit_seq <= send_seq
    BY DEF NakInv
  <2>2. send_seq' \in Nat
    BY HandleIInv DEF IInv, TypeOK
  <2> QED  BY <1>1, <1>2, <1>4, <2>1, <2>2
<1> QED  BY <1>1, <1>4, <1>5, <1>6 DEF NakInv

LEMMA NextNakInv == IInv /\ NakInv /\ [Next]_vars => NakInv'
<1> SUFFICES ASSUME IInv, NakInv, [Next]_vars PROVE NakInv'
  OBVIOUS
<1>1. ASSUME NEW notify \in Notify, SendBlock(notify) PROVE NakInv'
  <2>1. /\ receive_seq' = receive_seq /\ ignore_nak_seq' = ignore_nak_seq
        /\ retransmit_seq' = retransmit_seq /\ nak_resends' = nak_resends
        /\ send_seq' = send_seq + 1 /\ rtimer' = TimerAfterSend
    BY <1>1 DEF SendBlock, histVars
  <2>2. rtimer' = "now" => rtimer = "now"
    BY <2>1 DEF TimerAfterSend
  <2>3. retransmit_seq' <= send_seq'
    BY <2>1, NakTypes DEF IInv, NakInv
  <2> QED  BY <2>1, <2>2, <2>3 DEF NakInv
<1>2. CASE RetransmitNak
  BY <1>2, RetransmitNakKeeps
<1>3. CASE RetransmitTimeout
  BY <1>3, RetransmitTimeoutKeeps
<1>4. CASE HandleMessage
  BY <1>4, HandleNakKeeps
<1>5. CASE Pull
  BY <1>5 DEF Pull, histVars, NakInv
<1>6. CASE McuAccept \/ McuReject \/ McuReport \/ LoseBlock \/ LoseMessage
  BY <1>6 DEF McuAccept, McuReject, McuReport, LoseBlock, LoseMessage, hostVars,
     histVars, NakInv
<1>7. CASE UNCHANGED vars
  BY <1>7 DEF vars, hostVars, histVars, NakInv
<1> QED  BY <1>1, <1>2, <1>3, <1>4, <1>5, <1>6, <1>7 DEF Next

(* No block is sent again more than twice because of naks, however many of  *)
(* them arrive (serialqueue.c:422), for every window and number width.      *)
THEOREM NaksAreBounded == Spec => []NakBound
<1>1. NakInv => NakBound
  BY DEF NakInv, NakBound
<1>2. Spec => []NakInv
  BY InitNakInv, NextNakInv, Invariance, PTL DEF Spec
<1> QED  BY <1>1, <1>2, PTL

-----------------------------------------------------------------------------
(* What the python thread is told.  Times: a block that was sent again is   *)
(* below retransmit_seq, and no round trip is measured, nor a send time     *)
(* reported, from below it.  What is confirmed is never sent again.         *)
Confirmed(b) == b # 0 => b \in Block /\ b < receive_seq /\ SentOnce(b)

TimesInv ==
  /\ retransmit_seq <= send_seq
  /\ \A i \in 1..Len(sent_queue) : sent_queue[i] \in Block
  /\ \A b \in Block : b >= retransmit_seq => SentOnce(b)
  /\ rtt_sample_seq # 0 => rtt_sample_seq >= retransmit_seq
  /\ last_receive_sent # 0 => /\ last_receive_sent = receive_seq - 1
                              /\ last_receive_sent \in Block
  /\ Confirmed(rtt_block)
  /\ \A i \in 1..Len(receive_queue) :
       receive_queue[i].kind = "response" => Confirmed(receive_queue[i].sent)

(* Order: on the wire h a response to a block carries the count after it,   *)
(* and an ack that has this count comes behind it.  Of a block whose end is *)
(* told in the queue q no response is behind it or still on the wire.       *)
Answers(h) ==
  /\ \A i \in 1..Len(h) : h[i].of # 0 => h[i].data /\ h[i].seq = h[i].of + 1
  /\ \A i, j \in 1..Len(h) :
       (i < j /\ ~h[i].data /\ h[j].of # 0) => h[i].seq < h[j].seq
Told(q, h, rseq) ==
  \A i \in 1..Len(q) : q[i].kind = "notify" =>
    /\ q[i].block # 0 /\ q[i].block < rseq
    /\ \A j \in 1..Len(h) : h[j].of # 0 => h[j].of > q[i].block
    /\ \A j \in 1..Len(q) :
         (j > i /\ q[j].kind = "response") => q[j].block # q[i].block

OrderInv ==
  /\ \A i \in 1..Len(notify_queue) : notify_queue[i] # 0
  /\ Answers(toHost) /\ Told(receive_queue, toHost, receive_seq)

LEMMA NoteTypes ==
  ASSUME TypeOK
  PROVE  /\ send_seq \in Nat \ {0} /\ receive_seq \in Nat \ {0}
         /\ retransmit_seq \in Nat
         /\ rtt_sample_seq \in Nat /\ last_receive_sent \in Nat
         /\ sent_queue \in Seq(Nat) /\ notify_queue \in Seq(Nat)
         /\ toHost \in Seq(Message) /\ receive_queue \in Seq(Entry)
         /\ mcu_next \in Nat \ {0} /\ rtt_block \in Nat
         /\ nak_resends \in [Block -> Nat]
         /\ \A b \in Block : b \in Nat /\ b # 0
  BY DEF TypeOK, Block

LEMMA MessageTypes ==
  ASSUME NEW h \in Seq(Message), NEW i \in 1..Len(h)
  PROVE  h[i].seq \in Nat /\ h[i].data \in BOOLEAN /\ h[i].of \in Nat
<1>1. h[i] \in Message
  OBVIOUS
<1> QED BY <1>1 DEF Message

LEMMA EntryTypes ==
  ASSUME NEW q \in Seq(Entry), NEW i \in 1..Len(q)
  PROVE  q[i].kind \in {"notify", "response"} /\ q[i].block \in Nat
         /\ q[i].sent \in Nat
<1>1. q[i] \in Entry
  OBVIOUS
<1> QED BY <1>1 DEF Entry

LEMMA TailOf ==
  ASSUME NEW S, NEW s \in Seq(S), s # << >>
  PROVE  /\ Tail(s) \in Seq(S)
         /\ \A i \in 1..Len(Tail(s)) : /\ i + 1 \in 1..Len(s)
                                       /\ Tail(s)[i] = s[i + 1]
  OBVIOUS

LEMMA RestOf ==
  ASSUME NEW S, NEW s \in Seq(S), NEW k \in 0..Len(s)
  PROVE  LET r == SubSeq(s, k + 1, Len(s)) IN
         \A i \in 1..Len(r) : k + i \in 1..Len(s) /\ r[i] = s[k + i]
  OBVIOUS

LEMMA JoinOf ==
  ASSUME NEW S, NEW a \in Seq(S), NEW b \in Seq(S)
  PROVE  /\ a \o b \in Seq(S) /\ Len(a \o b) = Len(a) + Len(b)
         /\ \A i \in 1..(Len(a) + Len(b)) :
              (a \o b)[i] = IF i <= Len(a) THEN a[i] ELSE b[i - Len(a)]
  OBVIOUS

LEMMA FunctionIsSeq ==
  ASSUME NEW S, NEW k \in Nat, NEW f, f = [j \in 1..k |-> f[j]],
         \A j \in 1..k : f[j] \in S
  PROVE  f \in Seq(S) /\ Len(f) = k
  OBVIOUS

(* The first message is gone: what was right of the wire stays right.      *)
LEMMA TailAnswers ==
  ASSUME NEW h \in Seq(Message), h # << >>, Answers(h)
  PROVE  Answers(Tail(h))
<1> DEFINE t == Tail(h)
<1>1. \A i \in 1..Len(t) : i + 1 \in 1..Len(h) /\ t[i] = h[i + 1]
  BY TailOf
<1>2. Len(t) \in Nat
  OBVIOUS
<1> HIDE DEF t
<1>3. ASSUME NEW i \in 1..Len(t), t[i].of # 0
      PROVE  t[i].data /\ t[i].seq = t[i].of + 1
  BY <1>1, <1>3 DEF Answers
<1>4. ASSUME NEW i \in 1..Len(t), NEW j \in 1..Len(t), i < j, ~t[i].data,
             t[j].of # 0
      PROVE  t[i].seq < t[j].seq
  <2>1. i + 1 < j + 1
    BY <1>2, <1>4
  <2>2. /\ i + 1 \in 1..Len(h) /\ j + 1 \in 1..Len(h)
        /\ t[i] = h[i + 1] /\ t[j] = h[j + 1]
    BY <1>1
  <2> DEFINE x == i + 1
             y == j + 1
  <2>3. x < y /\ x \in 1..Len(h) /\ y \in 1..Len(h) /\ t[i] = h[x]
        /\ t[j] = h[y]
    BY <2>1, <2>2
  <2> HIDE DEF x, y
  <2> QED BY <1>4, <2>3 DEF Answers
<1>5. Answers(t)
  BY <1>3, <1>4 DEF Answers
<1> QED BY <1>5 DEF t

LEMMA TailTold ==
  ASSUME NEW h \in Seq(Message), h # << >>, NEW q, NEW rseq, Told(q, h, rseq)
  PROVE  Told(q, Tail(h), rseq)
<1> DEFINE t == Tail(h)
<1>1. \A i \in 1..Len(t) : i + 1 \in 1..Len(h) /\ t[i] = h[i + 1]
  BY TailOf
<1> HIDE DEF t
<1>2. Told(q, t, rseq)
  BY <1>1 DEF Told
<1> QED BY <1>2 DEF t

LEMMA InitNotes == Init => TimesInv /\ OrderInv
<1> SUFFICES ASSUME Init PROVE TimesInv /\ OrderInv
  OBVIOUS
<1>1. TimesInv
  BY DEF Init, TimesInv, Confirmed, SentOnce, FirstSeq
<1>2. OrderInv
  BY DEF Init, OrderInv, Answers, Told
<1> QED BY <1>1, <1>2

-----------------------------------------------------------------------------
(* A resend disturbs no time that counts.                                  *)
LEMMA ResendTimes ==
  ASSUME IInv, TimesInv, RetransmitNak \/ RetransmitTimeout
  PROVE  TimesInv'
<1>1. /\ UNCHANGED <<send_seq, receive_seq, last_receive_sent, sent_queue,
                     receive_queue, rtt_block>>
      /\ retransmit_seq' = send_seq /\ rtt_sample_seq' = 0
  BY DEF RetransmitNak, RetransmitTimeout, ResendAll, SampleAfterResend
<1>2. \A b \in Block \ Resent : SentOnce(b) => SentOnce(b)'
  <2>1. CASE RetransmitNak
    BY <2>1 DEF RetransmitNak, SentOnce
  <2>2. CASE RetransmitTimeout
    BY <2>2 DEF RetransmitTimeout, SentOnce
  <2> QED BY <2>1, <2>2
<1>3. /\ send_seq \in Nat /\ receive_seq \in Nat /\ retransmit_seq \in Nat
      /\ \A b \in Block : b \in Nat
  BY NoteTypes DEF IInv
<1>4. \A b \in Resent : b >= receive_seq /\ b < send_seq
  <2> TAKE b \in Resent
  <2>1. b \in Block /\ b >= receive_seq
    BY ResentAbove
  <2>2. PICK i \in 1..Len(sent_queue) : sent_queue[i] = b
    BY DEF Resent
  <2>3. /\ b = receive_seq + i - 1 /\ Len(sent_queue) = send_seq - receive_seq
        /\ i \in Nat /\ i <= Len(sent_queue)
    BY <2>2 DEF IInv, SentQueueExact, TypeOK
  <2> QED BY <1>3, <2>1, <2>3
<1>5. \A b \in Block : b < receive_seq /\ SentOnce(b) => SentOnce(b)'
  BY <1>2, <1>3, <1>4
<1>6. \A b \in Block : b >= send_seq => SentOnce(b)'
  <2> TAKE b \in Block
  <2>1. ASSUME b >= send_seq PROVE SentOnce(b)'
    <3>1. b \notin Resent
      BY <1>3, <1>4, <2>1
    <3>2. b >= retransmit_seq
      BY <1>3, <2>1 DEF TimesInv
    <3> QED BY <1>2, <3>1, <3>2 DEF TimesInv
  <2> QED BY <2>1
<1>7. Confirmed(rtt_block)'
  BY <1>1, <1>5 DEF TimesInv, Confirmed, SentOnce
<1>8. ASSUME NEW i \in 1..Len(receive_queue),
             receive_queue[i].kind = "response"
      PROVE  Confirmed(receive_queue[i].sent)'
  BY <1>1, <1>5, <1>8 DEF TimesInv, Confirmed, SentOnce
<1> QED BY <1>1, <1>3, <1>6, <1>7, <1>8 DEF TimesInv

LEMMA SendTimes ==
  ASSUME IInv, TimesInv, NEW notify \in Notify, SendBlock(notify)
  PROVE  TimesInv'
<1>1. /\ UNCHANGED <<receive_seq, retransmit_seq, last_receive_sent,
                     receive_queue, rtt_block, nak_resends, timed_out>>
      /\ rtt_sample_seq' = IF rtt_sample_seq = 0 THEN send_seq
                                                 ELSE rtt_sample_seq
      /\ sent_queue' = Append(sent_queue, send_seq)
      /\ send_seq' = send_seq + 1 /\ send_seq <= MaxBlock
  BY DEF SendBlock, histVars
<1>2. /\ send_seq \in Nat \ {0} /\ retransmit_seq \in Nat
      /\ sent_queue \in Seq(Nat)
  BY NoteTypes DEF IInv
<1>3. send_seq \in Block
  BY <1>1, <1>2 DEF Block
<1>4. \A i \in 1..Len(sent_queue') : sent_queue'[i] \in Block
  <2>1. \A i \in 1..Len(sent_queue') :
          \/ i \in 1..Len(sent_queue) /\ sent_queue'[i] = sent_queue[i]
          \/ sent_queue'[i] = send_seq
    BY <1>1, <1>2
  <2> QED BY <1>3, <2>1 DEF TimesInv
<1>5. /\ retransmit_seq' <= send_seq'
      /\ rtt_sample_seq' # 0 => rtt_sample_seq' >= retransmit_seq'
  BY <1>1, <1>2 DEF TimesInv
<1> QED BY <1>1, <1>4, <1>5 DEF TimesInv, Confirmed, SentOnce

(* What a message confirms was sent last before the count it carries.      *)
LEMMA UpdateTimes ==
  ASSUME IInv, TimesInv, NEW n \in Nat, receive_seq < n, UpdateReceiveSeq(n)
  PROVE  /\ receive_seq' = n /\ send_seq' >= send_seq /\ send_seq' \in Nat
         /\ \A i \in 1..Len(sent_queue') : sent_queue'[i] \in Block
         /\ rtt_sample_seq' \in {0, rtt_sample_seq}
         /\ last_receive_sent' # 0 => /\ last_receive_sent' = n - 1
                                      /\ last_receive_sent' \in Block
         /\ \/ rtt_block' = rtt_block
            \/ /\ rtt_block' = n - 1 /\ n - 1 \in Block
               /\ n - 1 >= retransmit_seq
<1> DEFINE d == n - receive_seq
<1>1. /\ send_seq \in Nat /\ receive_seq \in Nat \ {0} /\ retransmit_seq \in Nat
      /\ sent_queue \in Seq(Nat) /\ rtt_sample_seq \in Nat
      /\ Len(sent_queue) = send_seq - receive_seq
      /\ \A i \in 1..Len(sent_queue) : sent_queue[i] = receive_seq + i - 1
  BY NoteTypes DEF IInv, SentQueueExact
<1>2. d \in Nat \ {0} /\ d + receive_seq = n
  BY <1>1
<1>3. /\ sent_queue' = IF d <= Len(sent_queue) THEN StillUnacked(d) ELSE << >>
      /\ send_seq' = IF d <= Len(sent_queue) THEN send_seq ELSE n
      /\ last_receive_sent' = IF d <= Len(sent_queue) THEN sent_queue[d] ELSE 0
      /\ receive_seq' = n
      /\ rtt_sample_seq' \in {0, rtt_sample_seq}
      /\ \/ rtt_block' = rtt_block
         \/ /\ rtt_sample_seq # 0 /\ n > rtt_sample_seq
            /\ d <= Len(sent_queue) /\ rtt_block' = sent_queue[d]
  BY DEF UpdateReceiveSeq
<1> HIDE DEF d
<1>4. CASE d <= Len(sent_queue)
  <2>1. d \in 1..Len(sent_queue)
    BY <1>1, <1>2, <1>4
  <2>2. sent_queue[d] = n - 1 /\ n - 1 \in Block
    <3>1. sent_queue[d] = receive_seq + d - 1 /\ sent_queue[d] \in Block
      BY <1>1, <2>1 DEF TimesInv
    <3>2. receive_seq + d - 1 = n - 1
      BY <1>1, <1>2
    <3> QED BY <3>1, <3>2
  <2>3. \A i \in 1..Len(sent_queue') : sent_queue'[i] \in Block
    <3>1. sent_queue' = SubSeq(sent_queue, d + 1, Len(sent_queue))
      BY <1>3, <1>4 DEF StillUnacked
    <3>2. \A i \in 1..Len(sent_queue') : /\ d + i \in 1..Len(sent_queue)
                                         /\ sent_queue'[i] = sent_queue[d + i]
      BY <1>1, <2>1, <3>1
    <3> QED BY <3>2 DEF TimesInv
  <2>4. \/ rtt_block' = rtt_block
        \/ rtt_block' = n - 1 /\ n - 1 >= retransmit_seq
    <3>1. CASE rtt_sample_seq # 0 /\ n > rtt_sample_seq /\ rtt_block' = n - 1
      <4>1. rtt_sample_seq >= retransmit_seq
        BY <3>1 DEF TimesInv
      <4> QED BY <1>1, <3>1, <4>1
    <3> QED BY <1>3, <2>2, <3>1
  <2>5. last_receive_sent' = n - 1 /\ send_seq' = send_seq
    BY <1>3, <1>4, <2>2
  <2> QED BY <1>1, <1>3, <2>2, <2>3, <2>4, <2>5
<1>5. CASE ~(d <= Len(sent_queue))
  <2>1. /\ sent_queue' = << >> /\ send_seq' = n /\ last_receive_sent' = 0
        /\ rtt_block' = rtt_block
    BY <1>3, <1>5
  <2>2. send_seq' >= send_seq
    BY <1>1, <1>2, <1>5, <2>1
  <2> QED BY <1>3, <2>1, <2>2
<1> QED BY <1>4, <1>5

(* What a message adds to the receive queue: ends of blocks before the one *)
(* it confirms last, then a response.                                      *)
LEMMA QueueGrows ==
  ASSUME TypeOK, NEW m \in Message, NEW n \in Nat, AcceptMessage(m, n),
         NEW i \in 1..Len(receive_queue')
  PROVE  \/ /\ i \in 1..Len(receive_queue)
            /\ receive_queue'[i] = receive_queue[i]
         \/ /\ receive_queue'[i].kind = "notify"
            /\ \E j \in 1..Len(notify_queue) :
                 receive_queue'[i].block = notify_queue[j]
            /\ receive_queue'[i].block <= WakeSeq(m, n)
            /\ i > Len(receive_queue)
         \/ /\ m.data /\ i = Len(receive_queue')
            /\ i > Len(receive_queue)
            /\ receive_queue'[i].kind = "response"
            /\ receive_queue'[i].block = m.of
            /\ receive_queue'[i].sent = IF n > retransmit_seq
                                        THEN last_receive_sent' ELSE 0
<1> DEFINE s == last_receive_sent'
           e == [kind |-> "response", block |-> m.of,
                 sent |-> IF n > retransmit_seq THEN s ELSE 0]
           q == receive_queue
<1>1. PICK k \in 0..Len(notify_queue) :
        /\ CompleteNotifies(k, WakeSeq(m, n))
        /\ receive_queue' = q \o Woken(k, s) \o IF m.data THEN << e >> ELSE << >>
  BY DEF AcceptMessage
<1> DEFINE w == Woken(k, s)
<1>2. q \in Seq(Entry) /\ k \in Nat /\ m.data \in BOOLEAN
      /\ notify_queue \in Seq(Nat)
  BY NoteTypes DEF Message
<1>3. \A j \in 1..k : /\ w[j].kind = "notify" /\ w[j].block = notify_queue[j]
                       /\ notify_queue[j] <= WakeSeq(m, n)
                       /\ j \in 1..Len(notify_queue)
  <2> SUFFICES ASSUME NEW j \in 1..k
               PROVE  /\ w[j].kind = "notify" /\ w[j].block = notify_queue[j]
                      /\ notify_queue[j] <= WakeSeq(m, n)
                      /\ j \in 1..Len(notify_queue)
    OBVIOUS
  <2>1. w[j] = [kind |-> "notify", block |-> notify_queue[j], sent |-> s]
    BY DEF Woken
  <2>2. j \in 1..Len(notify_queue)
    BY <1>2
  <2>3. notify_queue[j] <= WakeSeq(m, n)
    BY <1>1 DEF CompleteNotifies
  <2> HIDE DEF w
  <2> QED BY <2>1, <2>2, <2>3
<1>4. w = [j \in 1..k |-> w[j]]
  BY DEF Woken
<1>5. /\ e.kind = "response" /\ e.block = m.of
      /\ e.sent = IF n > retransmit_seq THEN s ELSE 0
  OBVIOUS
<1>6. receive_queue' = (q \o w) \o (IF m.data THEN << e >> ELSE << >>)
  BY <1>1
<1> HIDE DEF w, e
<1> DEFINE S == Entry \union {w[j] : j \in 1..k} \union {e}
<1>7. q \in Seq(S) /\ w \in Seq(S) /\ Len(w) = k /\ e \in S
  <2>1. \A j \in 1..k : w[j] \in S
    OBVIOUS
  <2>2. e \in S
    OBVIOUS
  <2>3. q \in Seq(S)
    <3>1. Entry \subseteq S
      OBVIOUS
    <3> HIDE DEF S
    <3> QED BY <1>2, <3>1
  <2> HIDE DEF S
  <2> QED BY <1>2, <1>4, <2>1, <2>2, <2>3, FunctionIsSeq
<1> HIDE DEF S
<1> DEFINE a == q \o w
<1>8. /\ a \in Seq(S) /\ Len(a) = Len(q) + k
      /\ \A j \in 1..(Len(q) + k) :
           a[j] = IF j <= Len(q) THEN q[j] ELSE w[j - Len(q)]
  BY <1>7, JoinOf
<1>9. \/ receive_queue' = a \o << e >> /\ m.data
      \/ receive_queue' = a \o << >>
  BY <1>2, <1>6
<1>10. Len(q) \in Nat /\ Len(a) \in Nat
  BY <1>2, <1>8
<1> HIDE DEF a
<1>11. CASE receive_queue' = a \o << e >> /\ m.data
  <2>1. << e >> \in Seq(S) /\ Len(<< e >>) = 1 /\ << e >>[1] = e
    BY <1>7
  <2>2. /\ Len(receive_queue') = Len(a) + 1
        /\ receive_queue'[i] = IF i <= Len(a) THEN a[i] ELSE << e >>[i - Len(a)]
    BY <1>8, <1>11, <2>1, JoinOf
  <2>3. CASE i <= Len(q)
    <3>1. i \in 1..Len(q) /\ receive_queue'[i] = q[i]
      BY <1>2, <1>8, <1>10, <2>2, <2>3
    <3> QED BY <3>1
  <2>4. CASE i > Len(q) /\ i <= Len(a)
    <3>1. /\ i - Len(q) \in 1..k
          /\ receive_queue'[i] = w[i - Len(q)]
      BY <1>2, <1>8, <1>10, <2>2, <2>4
    <3> QED BY <1>3, <2>4, <3>1
  <2>5. CASE i > Len(a)
    <3>1. i = Len(a) + 1
      BY <1>10, <2>2, <2>5
    <3>2. receive_queue'[i] = e /\ i = Len(receive_queue') /\ i > Len(q)
      <4>1. i - Len(a) = 1
        BY <1>10, <3>1
      <4> QED BY <1>2, <1>8, <1>10, <2>1, <2>2, <2>5, <3>1, <4>1
    <3> QED BY <1>5, <1>11, <3>2
  <2> QED BY <1>2, <1>8, <1>10, <2>3, <2>4, <2>5
<1>12. CASE receive_queue' = a \o << >>
  <2>1. receive_queue' = a
    BY <1>8, <1>12
  <2>2. CASE i <= Len(q)
    <3>1. i \in 1..Len(q) /\ receive_queue'[i] = q[i]
      BY <1>2, <1>8, <1>10, <2>1, <2>2
    <3> QED BY <3>1
  <2>3. CASE i > Len(q)
    <3>1. /\ i - Len(q) \in 1..k
          /\ receive_queue'[i] = w[i - Len(q)]
      BY <1>2, <1>8, <1>10, <2>1, <2>3
    <3> QED BY <1>3, <2>3, <3>1
  <2> QED BY <1>10, <2>2, <2>3
<1> QED BY <1>9, <1>11, <1>12

LEMMA HandleTimes ==
  ASSUME IInv, TimesInv, HandleMessage
  PROVE  TimesInv'
<1> DEFINE m == Head(toHost)
           n == m.seq
<1>1. /\ UNCHANGED <<retransmit_seq, nak_resends, timed_out>>
      /\ AcceptMessage(m, n)
  BY AnswersDecode DEF HandleMessage, hostVars
<1>2. m \in Message /\ n \in Nat /\ receive_seq <= n
  <2>1. toHost # << >> /\ toHost \in Seq(Message)
    BY DEF HandleMessage, IInv, TypeOK
  <2>2. m \in Message /\ 1 \in 1..Len(toHost) /\ m = toHost[1]
    BY <2>1
  <2> QED BY <2>2 DEF IInv, Unambiguous, Message
<1> HIDE DEF m
<1>3. /\ send_seq \in Nat /\ receive_seq \in Nat /\ retransmit_seq \in Nat
      /\ rtt_sample_seq \in Nat /\ receive_queue \in Seq(Entry)
      /\ \A b \in Block : b \in Nat
  BY NoteTypes DEF IInv
<1>4. /\ receive_seq' = n /\ send_seq' >= send_seq /\ send_seq' \in Nat
      /\ \A i \in 1..Len(sent_queue') : sent_queue'[i] \in Block
      /\ rtt_sample_seq' \in {0, rtt_sample_seq}
      /\ last_receive_sent' # 0 => /\ last_receive_sent' = n - 1
                                   /\ last_receive_sent' \in Block
      /\ \/ rtt_block' = rtt_block
         \/ /\ rtt_block' = n - 1 /\ n - 1 \in Block
            /\ n - 1 >= retransmit_seq
  <2>1. CASE n = receive_seq
    <3>1. UNCHANGED <<sent_queue, send_seq, last_receive_sent, receive_seq,
                      rtt_sample_seq, rtt_block>>
      BY <1>1, <2>1 DEF AcceptMessage
    <3> QED BY <1>3, <2>1, <3>1 DEF TimesInv
  <2>2. CASE n # receive_seq
    <3>1. UpdateReceiveSeq(n) /\ receive_seq < n
      BY <1>1, <1>2, <1>3, <2>2 DEF AcceptMessage
    <3> QED BY <1>2, <3>1, UpdateTimes
  <2> QED BY <2>1, <2>2
<1>5. \A b \in Block : b >= retransmit_seq => SentOnce(b)
  BY DEF TimesInv
<1>6. Confirmed(rtt_block)'
  <2>1. CASE rtt_block' = rtt_block
    BY <1>1, <1>2, <1>3, <1>4, <2>1 DEF TimesInv, Confirmed, SentOnce
  <2>2. CASE /\ rtt_block' = n - 1 /\ n - 1 \in Block
             /\ n - 1 >= retransmit_seq
    <3>1. SentOnce(n - 1) /\ n - 1 < n
      BY <1>2, <1>5, <2>2
    <3> QED BY <1>1, <1>4, <2>2, <3>1 DEF Confirmed, SentOnce
  <2> QED BY <1>4, <2>1, <2>2
<1>7. ASSUME NEW i \in 1..Len(receive_queue'),
             receive_queue'[i].kind = "response"
      PROVE  Confirmed(receive_queue[i].sent)'
  <2>1. CASE i \in 1..Len(receive_queue) /\ receive_queue'[i] = receive_queue[i]
    BY <1>1, <1>2, <1>3, <1>4, <1>7, <2>1 DEF TimesInv, Confirmed, SentOnce
  <2>2. CASE receive_queue'[i].sent = IF n > retransmit_seq
                                      THEN last_receive_sent' ELSE 0
    <3>1. CASE receive_queue'[i].sent = 0
      BY <3>1 DEF Confirmed
    <3>2. CASE receive_queue'[i].sent # 0
      <4>1. /\ receive_queue'[i].sent = n - 1 /\ n - 1 \in Block
            /\ n > retransmit_seq
        BY <1>4, <2>2, <3>2
      <4>2. SentOnce(n - 1) /\ n - 1 < n
        BY <1>2, <1>3, <1>5, <4>1
      <4> QED BY <1>1, <1>4, <4>1, <4>2 DEF Confirmed, SentOnce
    <3> QED BY <3>1, <3>2
  <2>3. \/ i \in 1..Len(receive_queue) /\ receive_queue'[i] = receive_queue[i]
        \/ receive_queue'[i].kind = "notify"
        \/ receive_queue'[i].sent = IF n > retransmit_seq
                                    THEN last_receive_sent' ELSE 0
    BY <1>1, <1>2, QueueGrows DEF IInv
  <2> QED BY <1>7, <2>1, <2>2, <2>3
<1>8. retransmit_seq' <= send_seq'
  BY <1>1, <1>3, <1>4 DEF TimesInv
<1>9. rtt_sample_seq' # 0 => rtt_sample_seq' >= retransmit_seq'
  BY <1>1, <1>4 DEF TimesInv
<1>10. \A b \in Block : b >= retransmit_seq' => SentOnce(b)'
  BY <1>1, <1>5 DEF SentOnce
<1> QED BY <1>4, <1>6, <1>7, <1>8, <1>9, <1>10 DEF TimesInv

LEMMA NextTimes == IInv /\ TimesInv /\ [Next]_vars => TimesInv'
<1> SUFFICES ASSUME IInv, TimesInv, [Next]_vars PROVE TimesInv'
  OBVIOUS
<1>1. ASSUME NEW notify \in Notify, SendBlock(notify) PROVE TimesInv'
  BY <1>1, SendTimes
<1>2. CASE RetransmitNak \/ RetransmitTimeout
  BY <1>2, ResendTimes
<1>3. CASE HandleMessage
  BY <1>3, HandleTimes
<1>4. CASE Pull
  <2>1. /\ UNCHANGED <<send_seq, receive_seq, retransmit_seq, rtt_sample_seq,
                       last_receive_sent, sent_queue, histVars>>
        /\ receive_queue' = Tail(receive_queue) /\ receive_queue # << >>
    BY <1>4 DEF Pull
  <2>2. \A i \in 1..Len(receive_queue') :
          /\ i + 1 \in 1..Len(receive_queue)
          /\ receive_queue'[i] = receive_queue[i + 1]
    BY <2>1, TailOf, NoteTypes DEF IInv
  <2>3. ASSUME NEW i \in 1..Len(receive_queue'),
               receive_queue'[i].kind = "response"
        PROVE  Confirmed(receive_queue[i].sent)'
    BY <2>1, <2>2, <2>3 DEF TimesInv, Confirmed, SentOnce, histVars
  <2>4. Confirmed(rtt_block)'
    BY <2>1 DEF TimesInv, Confirmed, SentOnce, histVars
  <2> QED BY <2>1, <2>3, <2>4 DEF TimesInv, SentOnce, histVars
<1>5. CASE McuAccept \/ McuReject \/ McuReport \/ LoseBlock \/ LoseMessage
           \/ UNCHANGED vars
  <2>1. UNCHANGED <<hostVars, histVars>>
    BY <1>5 DEF McuAccept, McuReject, McuReport, LoseBlock, LoseMessage, vars
  <2> QED BY <2>1 DEF hostVars, histVars, TimesInv, Confirmed, SentOnce
<1> QED BY <1>1, <1>2, <1>3, <1>4, <1>5 DEF Next

-----------------------------------------------------------------------------
(* The controller answers in order: responses to a block carry the count   *)
(* after it and go out before the ack that does.                           *)
LEMMA PostAnswers ==
  ASSUME IInv, OrderInv, NEW ms \in Seq(Message), Post(ms), NEW n \in Nat,
         \A i \in 1..Len(ms) :
           /\ ms[i].seq = n
           /\ ms[i].of # 0 => /\ ms[i].data /\ ms[i].of = mcu_next
                              /\ n = mcu_next + 1,
         \A i, j \in 1..Len(ms) : (i < j /\ ~ms[i].data) => ms[j].of = 0,
         UNCHANGED <<receive_queue, receive_seq>>
  PROVE  Answers(toHost') /\ Told(receive_queue, toHost, receive_seq)'
<1>1. /\ toHost \in Seq(Message) /\ mcu_next \in Nat \ {0}
      /\ receive_seq \in Nat /\ receive_queue \in Seq(Entry)
      /\ receive_seq <= mcu_next
      /\ \A i \in 1..Len(toHost) : toHost[i].seq <= mcu_next
  BY NoteTypes DEF IInv, ConfirmedArrived, Unambiguous
<1>2. /\ toHost' \in Seq(Message)
      /\ \A i \in 1..Len(toHost') :
           toHost'[i] = IF i <= Len(toHost) THEN toHost[i]
                                            ELSE ms[i - Len(toHost)]
      /\ Len(toHost') <= Len(toHost) + Len(ms)
  BY <1>1, PostKeeps
<1>3. Len(toHost) \in Nat /\ Len(ms) \in Nat /\ Len(toHost') \in Nat
  BY <1>1, <1>2
<1>4. ASSUME NEW i \in 1..Len(toHost')
      PROVE  \/ i \in 1..Len(toHost) /\ toHost'[i] = toHost[i]
             \/ /\ i > Len(toHost) /\ i - Len(toHost) \in 1..Len(ms)
                /\ toHost'[i] = ms[i - Len(toHost)]
  BY <1>2, <1>3
<1>5. ASSUME NEW i \in 1..Len(toHost'), toHost'[i].of # 0
      PROVE  toHost'[i].data /\ toHost'[i].seq = toHost'[i].of + 1
  <2>1. CASE i \in 1..Len(toHost) /\ toHost'[i] = toHost[i]
    BY <1>5, <2>1 DEF OrderInv, Answers
  <2>2. CASE /\ i - Len(toHost) \in 1..Len(ms)
             /\ toHost'[i] = ms[i - Len(toHost)]
    BY <1>5, <2>2
  <2> QED BY <1>4, <2>1, <2>2
<1>6. ASSUME NEW i \in 1..Len(toHost'), NEW j \in 1..Len(toHost'), i < j,
             ~toHost'[i].data, toHost'[j].of # 0
      PROVE  toHost'[i].seq < toHost'[j].seq
  <2>1. CASE j \in 1..Len(toHost) /\ toHost'[j] = toHost[j]
    <3>1. i \in 1..Len(toHost) /\ toHost'[i] = toHost[i]
      BY <1>3, <1>4, <1>6, <2>1
    <3> QED BY <1>6, <2>1, <3>1 DEF OrderInv, Answers
  <2>2. CASE /\ j > Len(toHost) /\ j - Len(toHost) \in 1..Len(ms)
             /\ toHost'[j] = ms[j - Len(toHost)]
    <3>1. toHost'[j].seq = n /\ n = mcu_next + 1
      BY <1>6, <2>2
    <3>2. CASE i \in 1..Len(toHost) /\ toHost'[i] = toHost[i]
      <4>1. toHost[i].seq \in Nat /\ toHost[i].seq <= mcu_next
        BY <1>1, <3>2, MessageTypes
      <4> QED BY <1>1, <3>1, <3>2, <4>1
    <3>3. CASE /\ i > Len(toHost) /\ i - Len(toHost) \in 1..Len(ms)
               /\ toHost'[i] = ms[i - Len(toHost)]
      <4>1. i - Len(toHost) < j - Len(toHost)
        BY <1>3, <1>6
      <4> QED BY <1>6, <2>2, <3>3, <4>1
    <3> QED BY <1>4, <3>2, <3>3
  <2> QED BY <1>4, <2>1, <2>2
<1>7. ASSUME NEW i \in 1..Len(receive_queue),
             receive_queue[i].kind = "notify",
             NEW j \in 1..Len(toHost'), toHost'[j].of # 0
      PROVE  toHost'[j].of > receive_queue[i].block
  <2>1. CASE j \in 1..Len(toHost) /\ toHost'[j] = toHost[j]
    BY <1>7, <2>1 DEF OrderInv, Told
  <2>2. CASE /\ j - Len(toHost) \in 1..Len(ms)
             /\ toHost'[j] = ms[j - Len(toHost)]
    <3>1. toHost'[j].of = mcu_next
      BY <1>7, <2>2
    <3>2. receive_queue[i].block < receive_seq
      BY <1>7 DEF OrderInv, Told
    <3>3. receive_queue[i].block \in Nat
      BY <1>1, EntryTypes
    <3> QED BY <1>1, <3>1, <3>2, <3>3
  <2> QED BY <1>4, <2>1, <2>2
<1>8. Answers(toHost')
  BY <1>5, <1>6 DEF Answers
<1>9. Told(receive_queue, toHost, receive_seq)'
  <2>1. Told(receive_queue, toHost', receive_seq)
    BY <1>7 DEF OrderInv, Told
  <2> QED BY <2>1 DEF Told
<1> QED BY <1>8, <1>9

LEMMA McuOrder ==
  ASSUME IInv, OrderInv, McuAccept \/ McuReject \/ McuReport
  PROVE  OrderInv'
<1>1. UNCHANGED <<notify_queue, receive_queue, receive_seq>>
  BY DEF McuAccept, McuReject, McuReport, hostVars
<1>2. mcu_next \in Nat \ {0} /\ 0 \in Nat
  BY NoteTypes DEF IInv
<1>3. ASSUME Answers(toHost') /\ Told(receive_queue, toHost, receive_seq)'
      PROVE  OrderInv'
  BY <1>1, <1>3 DEF OrderInv, Answers
<1>4. CASE McuAccept
  <2>1. PICK r \in 0..MaxReplies :
          Post(Append([i \in 1..r |-> Response(mcu_next + 1, Head(toMcu))],
                      Ack(mcu_next + 1)))
    BY <1>4 DEF McuAccept
  <2>2. Head(toMcu) = mcu_next
    BY <1>4, AcceptExact
  <2> DEFINE n == mcu_next + 1
             a == Ack(n)
             p == Response(n, mcu_next)
             rs == [i \in 1..r |-> p]
             ms == Append(rs, a)
  <2>3. n \in Nat /\ n = mcu_next + 1 /\ r \in Nat
    BY <1>2
  <2>4. Post(ms)
    BY <2>1, <2>2
  <2>5. /\ a \in Message /\ a.seq = n /\ ~a.data /\ a.of = 0
        /\ p \in Message /\ p.seq = n /\ p.data /\ p.of = mcu_next
    BY <1>2, <2>3 DEF Ack, Response, Message
  <2> HIDE DEF n, a, p
  <2>6. rs \in Seq(Message) /\ Len(rs) = r /\ \A i \in 1..r : rs[i] = p
    BY <2>3, <2>5
  <2> HIDE DEF rs
  <2>7. /\ ms \in Seq(Message) /\ Len(ms) = r + 1
        /\ \A i \in 1..r : ms[i] = p
        /\ ms[r + 1] = a
    BY <2>3, <2>5, <2>6
  <2> HIDE DEF ms
  <2>8. \A i \in 1..Len(ms) : i \in 1..r \/ i = r + 1
    BY <2>3, <2>7
  <2>9. \A i \in 1..Len(ms) :
          /\ ms[i].seq = n
          /\ ms[i].of # 0 => /\ ms[i].data /\ ms[i].of = mcu_next
                             /\ n = mcu_next + 1
    BY <2>3, <2>5, <2>7, <2>8
  <2>10. \A i, j \in 1..Len(ms) : (i < j /\ ~ms[i].data) => ms[j].of = 0
    <3> SUFFICES ASSUME NEW i \in 1..Len(ms), NEW j \in 1..Len(ms), i < j,
                        ~ms[i].data
                 PROVE  FALSE
      OBVIOUS
    <3>1. i \in 1..r
      BY <2>3, <2>7
    <3> QED BY <2>5, <2>7, <3>1
  <2> QED BY <1>1, <1>3, <2>3, <2>4, <2>7, <2>9, <2>10, PostAnswers
<1>5. CASE McuReject \/ McuReport
  <2>1. \E d \in BOOLEAN :
          Post(<< IF d THEN Response(mcu_next, 0) ELSE Ack(mcu_next) >>)
    BY <1>5 DEF McuReject, McuReport
  <2>2. PICK d \in BOOLEAN :
          Post(<< IF d THEN Response(mcu_next, 0) ELSE Ack(mcu_next) >>)
    BY <2>1
  <2> DEFINE e == IF d THEN Response(mcu_next, 0) ELSE Ack(mcu_next)
             ms == << e >>
  <2>3. e \in Message /\ e.seq = mcu_next /\ e.of = 0
    BY <1>2 DEF Response, Ack, Message
  <2>4. Post(ms)
    BY <2>2
  <2> HIDE DEF e
  <2>5. ms \in Seq(Message) /\ Len(ms) = 1 /\ ms[1] = e
    BY <2>3
  <2> HIDE DEF ms
  <2>6. \A i \in 1..Len(ms) : ms[i] = e
    BY <2>5
  <2> QED BY <1>1, <1>2, <1>3, <2>3, <2>4, <2>5, <2>6, PostAnswers
<1> QED BY <1>4, <1>5

LEMMA HandleOrder ==
  ASSUME IInv, OrderInv, HandleMessage
  PROVE  OrderInv'
<1> DEFINE m == Head(toHost)
           n == m.seq
<1>1. /\ toHost # << >> /\ toHost' = Tail(toHost) /\ AcceptMessage(m, n)
  BY AnswersDecode DEF HandleMessage
<1>2. /\ toHost \in Seq(Message) /\ notify_queue \in Seq(Nat)
      /\ receive_queue \in Seq(Entry) /\ receive_seq \in Nat
      /\ Len(receive_queue) \in Nat
  BY NoteTypes DEF IInv
<1>3. m = toHost[1] /\ 1 \in 1..Len(toHost) /\ m \in Message
  BY <1>1, <1>2
<1>4. m.of \in Nat /\ n \in Nat /\ m.data \in BOOLEAN /\ receive_seq <= n
  BY <1>3 DEF IInv, Unambiguous, Message
<1>5. \A j \in 1..Len(toHost') : j + 1 \in 1..Len(toHost) /\ 1 < j + 1
                                 /\ toHost'[j] = toHost[j + 1]
  BY <1>1, <1>2, TailOf
<1>6. receive_seq' = n
  BY <1>1 DEF AcceptMessage, UpdateReceiveSeq
\* The ends of blocks that the message tells come before what is on the wire.
<1>7. ASSUME NEW b \in Nat, b <= WakeSeq(m, n)
      PROVE  /\ b < n
             /\ m.data /\ m.of # 0 => m.of > b
             /\ \A j \in 1..Len(toHost') :
                  toHost'[j].of # 0 => toHost'[j].of > b
  <2>1. b < n /\ (m.data => b + 1 < n)
    BY <1>4, <1>7 DEF WakeSeq
  <2>2. m.data /\ m.of # 0 => m.of > b
    <3>1. m.of # 0 => n = m.of + 1
      BY <1>3 DEF OrderInv, Answers
    <3> QED BY <1>4, <2>1, <3>1
  <2>3. ASSUME NEW j \in 1..Len(toHost'), toHost'[j].of # 0
        PROVE  toHost'[j].of > b
    <3> DEFINE h == toHost[j + 1]
    <3>1. /\ j + 1 \in 1..Len(toHost) /\ 1 < j + 1 /\ toHost'[j] = h
      BY <1>5
    <3>2. h.seq = h.of + 1 /\ n <= h.seq /\ (~m.data => n < h.seq)
      BY <1>3, <2>3, <3>1 DEF OrderInv, Answers, IInv, Unambiguous
    <3>3. h.seq \in Nat /\ h.of \in Nat
      BY <1>2, <3>1, MessageTypes
    <3> HIDE DEF h
    <3> QED BY <1>4, <2>1, <3>1, <3>2, <3>3
  <2> QED BY <2>1, <2>2, <2>3
<1> HIDE DEF m
\* What is in the receive queue.
<1>8. ASSUME NEW i \in 1..Len(receive_queue')
      PROVE  \/ /\ i \in 1..Len(receive_queue)
                /\ receive_queue'[i] = receive_queue[i]
             \/ /\ receive_queue'[i].kind = "notify"
                /\ \E j \in 1..Len(notify_queue) :
                     receive_queue'[i].block = notify_queue[j]
                /\ receive_queue'[i].block <= WakeSeq(m, n)
                /\ i > Len(receive_queue)
             \/ /\ m.data /\ i = Len(receive_queue') /\ i > Len(receive_queue)
                /\ receive_queue'[i].kind = "response"
                /\ receive_queue'[i].block = m.of
  BY <1>1, <1>3, <1>4, QueueGrows DEF IInv
<1>9. ASSUME NEW i \in 1..Len(receive_queue'),
             receive_queue'[i].kind = "notify"
      PROVE  /\ receive_queue'[i].block # 0 /\ receive_queue'[i].block < n
             /\ \A j \in 1..Len(toHost') :
                  toHost'[j].of # 0 => toHost'[j].of > receive_queue'[i].block
             /\ \A j \in 1..Len(receive_queue') :
                  (j > i /\ receive_queue'[j].kind = "response")
                    => receive_queue'[j].block # receive_queue'[i].block
  <2>1. CASE i \in 1..Len(receive_queue) /\ receive_queue'[i] = receive_queue[i]
    <3> DEFINE b == receive_queue[i].block
    <3>1. /\ b # 0 /\ b < receive_seq
          /\ \A j \in 1..Len(toHost) : toHost[j].of # 0 => toHost[j].of > b
          /\ \A j \in 1..Len(receive_queue) :
               (j > i /\ receive_queue[j].kind = "response")
                 => receive_queue[j].block # b
      BY <1>9, <2>1 DEF OrderInv, Told
    <3>2. b \in Nat
      BY <1>2, <2>1, EntryTypes
    <3>3. receive_queue'[i].block = b
      BY <2>1
    <3> HIDE DEF b
    <3>4. b < n
      BY <1>2, <1>4, <3>1, <3>2
    <3>5. m.of # b
      BY <1>3, <1>4, <3>1, <3>2
    <3>6. ASSUME NEW j \in 1..Len(receive_queue'), j > i,
                 receive_queue'[j].kind = "response"
          PROVE  receive_queue'[j].block # b
      BY <1>8, <3>1, <3>5, <3>6
    <3> QED BY <1>5, <3>1, <3>3, <3>4, <3>6
  <2>2. CASE /\ \E j \in 1..Len(notify_queue) :
                  receive_queue'[i].block = notify_queue[j]
             /\ receive_queue'[i].block <= WakeSeq(m, n)
             /\ i > Len(receive_queue)
    <3> DEFINE b == receive_queue'[i].block
    <3>1. b \in Nat /\ b # 0 /\ b <= WakeSeq(m, n)
      BY <1>2, <2>2 DEF OrderInv
    <3> HIDE DEF b
    <3>2. /\ b < n
          /\ m.data /\ m.of # 0 => m.of > b
          /\ \A j \in 1..Len(toHost') : toHost'[j].of # 0 => toHost'[j].of > b
      BY <1>7, <3>1
    <3>3. ASSUME NEW j \in 1..Len(receive_queue'), j > i,
                 receive_queue'[j].kind = "response"
          PROVE  receive_queue'[j].block # b
      <4>1. m.data /\ receive_queue'[j].block = m.of
        BY SMTT(30), <1>2, <1>8, <2>2, <3>3
      <4> QED BY <1>4, <3>1, <3>2, <4>1
    <3> QED BY <3>1, <3>2, <3>3 DEF b
  <2> QED BY <1>8, <1>9, <2>1, <2>2
<1>10. Told(receive_queue, toHost, receive_seq)'
  BY <1>6, <1>9 DEF Told
<1>11. Answers(toHost)'
  <2>1. Answers(toHost')
    BY <1>1, <1>2, TailAnswers DEF OrderInv
  <2> QED BY <2>1 DEF Answers
<1>12. \A i \in 1..Len(notify_queue') : notify_queue'[i] # 0
  <2>1. PICK k \in 0..Len(notify_queue) :
          notify_queue' = SubSeq(notify_queue, k + 1, Len(notify_queue))
    BY <1>1 DEF AcceptMessage, CompleteNotifies
  <2>2. \A i \in 1..Len(notify_queue') :
          /\ k + i \in 1..Len(notify_queue)
          /\ notify_queue'[i] = notify_queue[k + i]
    BY <1>2, <2>1, RestOf
  <2> QED BY <2>2 DEF OrderInv
<1> QED BY <1>10, <1>11, <1>12 DEF OrderInv

LEMMA NextOrder == IInv /\ OrderInv /\ [Next]_vars => OrderInv'
<1> SUFFICES ASSUME IInv, OrderInv, [Next]_vars PROVE OrderInv'
  OBVIOUS
<1>t. /\ send_seq \in Nat \ {0} /\ notify_queue \in Seq(Nat)
      /\ toHost \in Seq(Message) /\ receive_queue \in Seq(Entry)
  BY NoteTypes DEF IInv
<1>1. ASSUME NEW notify \in Notify, SendBlock(notify) PROVE OrderInv'
  <2>1. /\ UNCHANGED <<toHost, receive_queue, receive_seq>>
        /\ notify_queue' = IF notify THEN Append(notify_queue, send_seq)
                                     ELSE notify_queue
    BY <1>1 DEF SendBlock
  <2>2. \A i \in 1..Len(notify_queue') : notify_queue'[i] # 0
    BY <1>t, <2>1 DEF OrderInv
  <2>3. Told(receive_queue, toHost, receive_seq)' /\ Answers(toHost)'
    BY <2>1 DEF OrderInv, Answers, Told
  <2> QED BY <2>2, <2>3 DEF OrderInv
<1>2. CASE RetransmitNak \/ RetransmitTimeout
  BY <1>2 DEF RetransmitNak, RetransmitTimeout, ResendAll, OrderInv, Answers,
              Told
<1>3. CASE HandleMessage
  BY <1>3, HandleOrder
<1>4. CASE Pull
  <2>1. /\ UNCHANGED <<notify_queue, toHost, receive_seq>>
        /\ receive_queue' = Tail(receive_queue) /\ receive_queue # << >>
    BY <1>4 DEF Pull
  <2>2. \A i \in 1..Len(receive_queue') :
          /\ i + 1 \in 1..Len(receive_queue)
          /\ receive_queue'[i] = receive_queue[i + 1]
    BY <1>t, <2>1, TailOf
  <2>3. Told(receive_queue', toHost, receive_seq)
    <3> DEFINE q == receive_queue'
    <3>1. \A i \in 1..Len(q) : /\ i + 1 \in 1..Len(receive_queue)
                               /\ q[i] = receive_queue[i + 1]
      BY <2>2
    <3>2. Len(q) \in Nat
      BY <1>t, <2>1
    <3> HIDE DEF q
    <3>3. ASSUME NEW i \in 1..Len(q), q[i].kind = "notify"
          PROVE  /\ q[i].block # 0 /\ q[i].block < receive_seq
                 /\ \A j \in 1..Len(toHost) :
                      toHost[j].of # 0 => toHost[j].of > q[i].block
      BY <3>1, <3>3 DEF OrderInv, Told
    <3>4. ASSUME NEW i \in 1..Len(q), q[i].kind = "notify",
                 NEW j \in 1..Len(q), j > i, q[j].kind = "response"
          PROVE  q[j].block # q[i].block
      <4> DEFINE x == i + 1
                 y == j + 1
      <4>1. y > x
        BY <3>2, <3>4
      <4>2. /\ x \in 1..Len(receive_queue) /\ y \in 1..Len(receive_queue)
            /\ q[i] = receive_queue[x] /\ q[j] = receive_queue[y]
        BY <3>1
      <4> HIDE DEF x, y
      <4> QED BY <3>4, <4>1, <4>2 DEF OrderInv, Told
    <3>5. Told(q, toHost, receive_seq)
      BY <3>3, <3>4 DEF Told
    <3> QED BY <3>5 DEF q
  <2> QED BY <2>1, <2>3 DEF OrderInv, Answers, Told
<1>5. CASE McuAccept \/ McuReject \/ McuReport
  BY <1>5, McuOrder
<1>6. CASE LoseMessage
  <2>1. /\ UNCHANGED <<notify_queue, receive_queue, receive_seq>>
        /\ toHost' = Tail(toHost) /\ toHost # << >>
    BY <1>6 DEF LoseMessage, hostVars
  <2>2. Answers(toHost') /\ Told(receive_queue, toHost', receive_seq)
    BY <1>t, <2>1, TailAnswers, TailTold DEF OrderInv
  <2> QED BY <2>1, <2>2 DEF OrderInv, Answers, Told
<1>7. CASE LoseBlock \/ UNCHANGED vars
  BY <1>7 DEF LoseBlock, vars, hostVars, OrderInv, Answers, Told
<1> QED BY <1>1, <1>2, <1>3, <1>4, <1>5, <1>6, <1>7 DEF Next

(* Round trips and send times never stem from a block that was sent twice  *)
(* (serialqueue.c:187-206, 251, 268, 435), and the python thread takes the *)
(* responses to a block before it is told that it is done (244-259).       *)
THEOREM NotesAreSound == Spec => []NotesSound
<1>1. IInv /\ TimesInv => TimesUnambiguous
  BY DEF TimesInv, TimesUnambiguous, Confirmed
<1>2. IInv /\ OrderInv => ResponseBeforeNotify
  <2> SUFFICES ASSUME IInv, OrderInv, NEW i \in 1..Len(receive_queue),
                      receive_queue[i].kind = "notify"
               PROVE  LET b == receive_queue[i].block IN
                      /\ \A j \in 1..Len(receive_queue) :
                           (j > i /\ receive_queue[j].kind = "response")
                              => receive_queue[j].block # b
                      /\ \A j \in 1..Len(toHost) : toHost[j].of # b
    BY DEF ResponseBeforeNotify
  <2> DEFINE b == receive_queue[i].block
  <2>1. /\ b # 0
        /\ \A j \in 1..Len(toHost) : toHost[j].of # 0 => toHost[j].of > b
        /\ \A j \in 1..Len(receive_queue) :
             (j > i /\ receive_queue[j].kind = "response")
               => receive_queue[j].block # b
    BY DEF OrderInv, Told
  <2>2. b \in Nat
    BY NoteTypes, EntryTypes DEF IInv
  <2> HIDE DEF b
  <2>3. \A j \in 1..Len(toHost) : toHost[j].of # b
    BY <2>1, <2>2
  <2> QED BY <2>1, <2>3 DEF b
<1>3. TimesUnambiguous /\ ResponseBeforeNotify => NotesSound
  BY DEF NotesSound
<1>4. Spec => [](TimesInv /\ OrderInv)
  BY InitNotes, NextTimes, NextOrder, Invariance, PTL DEF Spec
<1> QED BY <1>1, <1>2, <1>3, <1>4, Invariance, PTL

-----------------------------------------------------------------------------
(* The transport implements ReliableLink: each step is one of its steps or *)
(* leaves its variables alone.                                             *)

LEMMA InitLink == Init => Link!Init
  BY DEF Init, Link!Init, FirstSeq

LEMMA HandleLink ==
  ASSUME IInv, HandleMessage
  PROVE  [Link!Next]_(Link!linkVars)
<1> DEFINE m == Head(toHost)
           n == m.seq
<1>1. AcceptMessage(m, n) /\ UNCHANGED <<mcu_next, mcu_first, delivered>>
  BY AnswersDecode DEF HandleMessage, mcuVars
<1>2. toHost \in Seq(Message) /\ toHost # << >>
  BY DEF IInv, TypeOK, HandleMessage
<1>3. m = toHost[1] /\ 1 \in 1..Len(toHost) /\ m \in Message
  BY <1>2
<1>4. /\ receive_seq <= n /\ mcu_first <= n /\ n <= mcu_next
      /\ mcu_next <= send_seq \/ (mcu_next = mcu_first /\ receive_seq = 1)
  BY <1>3 DEF IInv, Unambiguous
<1>5. /\ send_seq \in Nat /\ receive_seq \in Nat /\ mcu_next \in Nat /\ n \in Nat
      /\ mcu_first \in Nat /\ sent_queue \in Seq(Nat)
      /\ Len(sent_queue) = send_seq - receive_seq
  BY <1>3 DEF IInv, TypeOK, SentQueueExact, Message
<1> HIDE DEF m
<1>6. CASE n = receive_seq
  <2>1. UNCHANGED <<send_seq, receive_seq>>
    BY <1>1, <1>6 DEF AcceptMessage
  <2> QED BY <1>1, <2>1 DEF Link!linkVars
<1>7. CASE n # receive_seq
  <2>1. UpdateReceiveSeq(n)
    BY <1>1, <1>7 DEF AcceptMessage
  <2>2. CASE n - receive_seq <= Len(sent_queue)
    <3>1. send_seq' = send_seq /\ receive_seq' = n /\ n <= send_seq
      BY <1>5, <2>1, <2>2 DEF UpdateReceiveSeq
    <3>2. n \in (receive_seq + 1)..mcu_next
      BY <1>4, <1>5, <1>7
    <3>3. Link!Confirm
      BY <1>1, <3>1, <3>2 DEF Link!Confirm
    <3> QED BY <3>3 DEF Link!Next
  <2>3. CASE ~(n - receive_seq <= Len(sent_queue))
    <3>1. send_seq' = n /\ receive_seq' = n
      BY <2>1, <2>3 DEF UpdateReceiveSeq
    <3>2. send_seq < n
      BY <1>5, <2>3
    <3>3. n = mcu_first /\ mcu_next = mcu_first /\ receive_seq = 1
      BY <1>4, <1>5, <3>2
    <3>4. Link!Resync
      BY <1>1, <3>1, <3>2, <3>3 DEF Link!Resync
    <3> QED BY <3>4 DEF Link!Next
  <2> QED BY <2>2, <2>3
<1> QED BY <1>6, <1>7

LEMMA NextLink == IInv /\ [Next]_vars => [Link!Next]_(Link!linkVars)
<1> SUFFICES ASSUME IInv, [Next]_vars PROVE [Link!Next]_(Link!linkVars)
  OBVIOUS
<1>1. ASSUME NEW notify \in Notify, SendBlock(notify) PROVE Link!Issue
  <2>1. send_seq \in Nat /\ receive_seq \in Nat
    BY DEF IInv, TypeOK
  <2>2. send_seq - receive_seq < MaxPending /\ send_seq' = send_seq + 1
        /\ UNCHANGED <<receive_seq, mcu_next, mcu_first, delivered>>
    BY <1>1 DEF SendBlock, WindowOpen, mcuVars
  <2> QED BY <2>1, <2>2 DEF Link!Issue
<1>2. CASE RetransmitNak \/ RetransmitTimeout
  BY <1>2 DEF RetransmitNak, RetransmitTimeout, ResendAll, mcuVars, Link!linkVars
<1>3. CASE HandleMessage
  BY <1>3, HandleLink
<1>4. CASE Pull
  BY <1>4 DEF Pull, mcuVars, Link!linkVars
<1>5. CASE McuAccept
  <2>1. Head(toMcu) = mcu_next /\ mcu_next < send_seq
    BY <1>5, AcceptExact
  <2>2. Link!Arrive
    BY <1>5, <2>1 DEF McuAccept, hostVars, Link!Arrive
  <2> QED BY <2>2 DEF Link!Next
<1>6. CASE McuReject \/ McuReport \/ LoseBlock \/ LoseMessage \/ UNCHANGED vars
  BY <1>6 DEF McuReject, McuReport, LoseBlock, LoseMessage, vars, hostVars,
              mcuVars, Link!linkVars
<1> QED BY <1>1, <1>2, <1>3, <1>4, <1>5, <1>6 DEF Next, Link!Next

(* Everything the link promises in ReliableLink, the code keeps.           *)
THEOREM ImplementsLink == Spec => LinkSpec
  BY InitLink, NextLink, Invariance, PTL DEF Spec, LinkSpec, Link!Spec
=============================================================================
