---------------------------- MODULE MessageBlocks ----------------------------
(***************************************************************************)
(* chelper/msgblock.c, and input_event of serialqueue.c that calls it:     *)
(* finding the blocks in the bytes from a controller, some of which are    *)
(* damaged or lost, and the variable-length integers in them; msgproto.py  *)
(* writes the same integers.                                               *)
(*                                                                         *)
(* The CRC is consumed to be perfect: it accepts the bytes of one block of    *)
(* the controller, unchanged and in their places, and nothing else.        *)
(***************************************************************************)
EXTENDS Integers, Sequences

CONSTANTS
  Contents,     \* integers sent in blocks
  Damages,      \* values a damaged byte may take
  MaxBlocksSent,
  MaxDamages    \* bounds for TLC

MESSAGE_MIN == 5
MESSAGE_MAX == 64
MESSAGE_HEADER_SIZE == 2
MESSAGE_TRAILER_SIZE == 3
MESSAGE_SYNC == 126

-----------------------------------------------------------------------------
(* Variable-length integers.                                               *)

\* The bytes encode_int writes for v: 3L<<5 and -(1L<<5), and so on.
Length(v) ==
  CHOOSE n \in 1..5 :
    /\ n < 5 => v < 3 * 2^(7 * n - 2) /\ v >= -(2^(7 * n - 2))
    /\ \A m \in 1..n - 1 : v >= 3 * 2^(7 * m - 2) \/ v < -(2^(7 * m - 2))

\* Seven bits of v each, the highest first; of 32 bits four are left for the
\* fifth byte.
EncodeInt(v) ==
  LET n == Length(v) IN
  [i \in 1..n |-> ((v \div 2^(7 * (n - i))) % (IF n - i = 4 THEN 16 ELSE 128))
                  + (IF i < n THEN 128 ELSE 0)]

\* PT_uint32.encode: numbers have no width, so there is a sign in the fifth.
PyEncode(v) ==
  LET n == IF v >= 201326592 \/ v < -67108864 THEN 5
           ELSE IF v >= 1572864 \/ v < -524288 THEN 4
           ELSE IF v >= 12288 \/ v < -4096 THEN 3
           ELSE IF v >= 96 \/ v < -32 THEN 2 ELSE 1
  IN [i \in 1..n |-> ((v \div 2^(7 * (n - i))) % 128)
                     + (IF i < n THEN 128 ELSE 0)]

\* v<<7 of 32 bits, as a signed number
Shift(v) == (((v + 2^24) % 2^25) - 2^24) * 128

\* parse_int
ParseInt(bytes) ==
  LET first == bytes[1] % 128
      v[i \in 1..Len(bytes)] ==
        IF i = 1 THEN IF (bytes[1] \div 32) % 4 = 3 THEN first - 128 ELSE first
        ELSE Shift(v[i - 1]) + (bytes[i] % 128)
  IN v[Len(bytes)]

-----------------------------------------------------------------------------
VARIABLES
  incoming,    \* bytes [value, block, place] on their way, block 0: damaged
  input_buf, need_sync,
  contents,    \* history: the numbers of the blocks the controller sent
  whole,       \* history: the blocks that arrive as they were sent
  synced,      \* history: those whose last SYNC does
  received,    \* numbers of the blocks handed to handle_message
  consumed,       \* history: the last block a byte of which was consumed
  damages

messageVars == <<incoming, input_buf, need_sync, contents, whole, synced,
                 received, consumed, damages>>

MessageInit ==
  /\ incoming = <<>> /\ input_buf = <<>> /\ need_sync = FALSE
  /\ contents = <<>> /\ whole = {} /\ synced = {} /\ received = <<>>
  /\ consumed = 0 /\ damages = 0

\* The bytes of a block: length, sequence, contents, CRC and SYNC.
BlockBytes(k, v) ==
  LET payload == EncodeInt(v)
      bytes == <<MESSAGE_MIN + Len(payload), 16>> \o payload
               \o <<MESSAGE_SYNC, 0, MESSAGE_SYNC>>
  IN [i \in DOMAIN bytes |-> [value |-> bytes[i], block |-> k, place |-> i]]

\* What is left of it: all, all with one byte changed, all but one.
Arrivals(bytes) ==
  {[bytes EXCEPT ![i] = [value |-> d, block |-> 0, place |-> 0]] :
     i \in DOMAIN bytes, d \in Damages} \union
  {SubSeq(bytes, 1, i - 1) \o SubSeq(bytes, i + 1, Len(bytes)) :
     i \in DOMAIN bytes}

\* The controller sends a block.
SendMessageBlock ==
  LET k == Len(contents) + 1 IN
  /\ k <= MaxBlocksSent
  /\ \E v \in Contents :
       /\ contents' = Append(contents, v)
       /\ \/ /\ incoming' = incoming \o BlockBytes(k, v)
             /\ whole' = whole \union {k} /\ synced' = synced \union {k}
             /\ UNCHANGED damages
          \/ /\ damages < MaxDamages /\ damages' = damages + 1
             /\ \E bytes \in Arrivals(BlockBytes(k, v)) :
                  /\ incoming' = incoming \o bytes
                  /\ synced' = IF bytes[Len(bytes)].place = Len(BlockBytes(k, v))
                               THEN synced \union {k} ELSE synced
                  /\ UNCHANGED whole
  /\ UNCHANGED <<input_buf, need_sync, received, consumed>>

Size == input_buf[1].value

CrcGood ==
  \E k \in DOMAIN contents : \A i \in 1..Size :
    input_buf[i].block = k /\ input_buf[i].place = i

LengthBad == Size \notin MESSAGE_MIN..MESSAGE_MAX

\* goto error, once enough bytes are there
Bad ==
  \/ need_sync \/ LengthBad \/ input_buf[2].value \notin 16..31
  \/ Size \in MESSAGE_MIN..Len(input_buf)
     /\ (input_buf[Size].value # MESSAGE_SYNC \/ ~CrcGood)

\* msgblock_check returns 0.
NeedMore ==
  IF Len(input_buf) < MESSAGE_MIN THEN TRUE
  ELSE ~Bad /\ Len(input_buf) < Size

\* read of one or more bytes; the loop over those before has ended.
InputEvent ==
  /\ incoming # <<>> /\ NeedMore
  /\ \E n \in 1..Len(incoming) :
       /\ n \in {1, 5, Len(incoming)}
       /\ input_buf' = input_buf \o SubSeq(incoming, 1, n)
       /\ incoming' = SubSeq(incoming, n + 1, Len(incoming))
  /\ UNCHANGED <<need_sync, contents, whole, synced, received, consumed,
                 damages>>

\* The buffer after n bytes of it
Consume(n) ==
  /\ input_buf' = SubSeq(input_buf, n + 1, Len(input_buf))
  /\ LET seen == {input_buf[i].block : i \in 1..n} IN
     consumed' = IF \E k \in seen : k > consumed
              THEN CHOOSE k \in seen : \A j \in seen : j <= k ELSE consumed

\* A valid block: handle_message
TakeBlock ==
  /\ ~NeedMore /\ ~Bad
  /\ received' = Append(received,
       <<input_buf[1].block,
         ParseInt([i \in 1..Size - MESSAGE_MIN |->
                     input_buf[i + MESSAGE_HEADER_SIZE].value])>>)
  /\ Consume(Size)
  /\ UNCHANGED <<incoming, need_sync, contents, whole, synced, damages>>

\* Mutant: nothing is looked for in what is there.
SyncsSeen_None == {}

SyncsSeen == {i \in DOMAIN input_buf : input_buf[i].value = MESSAGE_SYNC}

\* Discard bytes until next SYNC found.
Discard ==
  /\ ~NeedMore /\ Bad
  /\ IF SyncsSeen = {}
     THEN need_sync' = TRUE /\ Consume(Len(input_buf))
     ELSE need_sync' = FALSE
          /\ Consume(CHOOSE i \in SyncsSeen : \A j \in SyncsSeen : i <= j)
  /\ UNCHANGED <<incoming, contents, whole, synced, received, damages>>

MessageNext == SendMessageBlock \/ InputEvent \/ TakeBlock \/ Discard

MessageSpec == MessageInit /\ [][MessageNext]_messageVars

-----------------------------------------------------------------------------
(* Properties.                                                             *)

\* Numbers at the limits of the encodings.
Numbers ==
  {limit + d : limit \in {0} \union {3 * 2^k : k \in {5, 12, 19, 26}}
                             \union {-(2^k) : k \in {5, 12, 19, 26, 30}},
               d \in -1..1}

\* However the bytes come in and wherever one is damaged or lost, each block
\* that is whole and follows a whole SYNC is handed on once and in order, and
\* nothing else is; and a number is the same at the other end, whichever
\* program wrote it (msgblock.c:33-108, serialqueue.c:327-346,
\* msgproto.py:45-68).
MessagesSound ==
  /\ \A i, j \in DOMAIN received : i < j => received[i][1] < received[j][1]
  /\ \A i \in DOMAIN received : received[i][2] = contents[received[i][1]]
  /\ \A k \in whole :
       k < consumed /\ (k = 1 \/ k - 1 \in synced) =>
         \E i \in DOMAIN received : received[i][1] = k
  /\ received # <<>> =>
       \A v \in Numbers :
         ParseInt(EncodeInt(v)) = v /\ ParseInt(PyEncode(v)) = v
=============================================================================
