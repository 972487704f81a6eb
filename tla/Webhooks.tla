------------------------------- MODULE Webhooks -------------------------------
(***************************************************************************)
(* webhooks.py: clients of the API socket.  QueryStatusHelper answers      *)
(* queries at the next turn of its timer; a subscriber gets the whole      *)
(* status first and then, every 0.25 s, only what differs from the last    *)
(* query, which all clients share.  ClientConnection keeps what the socket *)
(* does not take and gives up clients that do not read.                    *)
(*                                                                         *)
(* A printer object has one status item; a message is the part of the      *)
(* status it carries.  The socket is a stream, so it does not matter where *)
(* in a message a send ends.  A waiter that was completed runs before the  *)
(* next turn of the timer: they are 0.25 s apart.                          *)
(***************************************************************************)
EXTENDS Integers, Sequences

CONSTANTS
  Watchers,     \* client connections
  Objs,         \* printer objects with a status
  Statuses,     \* values of a status
  Room,         \* messages the socket takes
  Unread,       \* 5 in the code: calls of stats before a client is given up
  MaxQueries,   \* bound of the requests underway, for TLC
  MaxBuffer     \* bound of the messages kept, for TLC

ASSUME WebAssumption == Statuses # {} /\ Room \in Nat

VARIABLES
  status_now,       \* what get_status returns
  last_query,
  pending_queries,  \* requests [watcher, objs, subscribe]
  completed,        \* requests whose waiter is about to run, with the answer
  query_timer,      \* the timer is registered
  subscribed,       \* clients: watcher -> objects
  open, is_blocking, blocking_count, send_buffer,
  socket,           \* messages the client has not read
  view              \* what the client has read, the newest of each object

webVars == <<status_now, last_query, pending_queries, completed, query_timer,
             subscribed, open, is_blocking, blocking_count, send_buffer,
             socket, view>>

NoNews == [o \in {} |-> o]

\* The status after a message.
Merge(old, message) ==
  [o \in DOMAIN old \union DOMAIN message |->
     IF o \in DOMAIN message THEN message[o] ELSE old[o]]

WebInit ==
  /\ status_now = [o \in Objs |-> CHOOSE s \in Statuses : TRUE]
  /\ last_query = NoNews
  /\ pending_queries = <<>> /\ completed = <<>>
  /\ query_timer = FALSE /\ subscribed = NoNews
  /\ open = Watchers
  /\ is_blocking = [w \in Watchers |-> FALSE]
  /\ blocking_count = [w \in Watchers |-> 0]
  /\ send_buffer = [w \in Watchers |-> <<>>]
  /\ socket = [w \in Watchers |-> <<>>]
  /\ view = [w \in Watchers |-> NoNews]

-----------------------------------------------------------------------------
(* Connections.                                                            *)

Smaller(a, b) == IF a < b THEN a ELSE b

\* Mutant: what was not sent is dropped.
Unsent_None(buffer, sent) == <<>>

Unsent(buffer, sent) == SubSeq(buffer, sent + 1, Len(buffer))

\* _do_send of the connections ws, whose buffers are given
DoSend(ws, buffer) ==
  LET able == {w \in ws : w \in open}
      sent == [w \in Watchers |->
                 IF w \in able
                 THEN Smaller(Len(buffer[w]), Room - Len(socket[w]))
                 ELSE 0]
      stuck(w) == sent[w] < Len(buffer[w])
  IN
  /\ socket' = [w \in Watchers |-> socket[w] \o SubSeq(buffer[w], 1, sent[w])]
  /\ send_buffer' = [w \in Watchers |->
                       IF w \in able THEN Unsent(buffer[w], sent[w])
                       ELSE buffer[w]]
  /\ is_blocking' = [w \in Watchers |->
                       IF w \in able THEN stuck(w) ELSE is_blocking[w]]
  /\ blocking_count' = [w \in Watchers |->
                          IF w \in able /\ stuck(w) /\ ~is_blocking[w]
                          THEN Unread ELSE blocking_count[w]]

\* send of a message to each of the connections ws
Send(ws, message) ==
  LET buffer == [w \in Watchers |->
                   IF w \in ws \intersect open
                   THEN Append(send_buffer[w], message[w])
                   ELSE send_buffer[w]]
  IN /\ \A w \in Watchers : Len(buffer[w]) <= MaxBuffer
     /\ DoSend({w \in ws : ~is_blocking[w]}, buffer)

\* The socket of a connection takes data again.
Writable(w) ==
  /\ w \in open /\ is_blocking[w] /\ Len(socket[w]) < Room
  /\ DoSend({w}, send_buffer)
  /\ UNCHANGED <<status_now, last_query, pending_queries, completed,
                 query_timer, subscribed, open, view>>

\* close; nobody looks at what is left in a closed connection.
Close(w) ==
  /\ open' = open \ {w}
  /\ is_blocking' = [is_blocking EXCEPT ![w] = FALSE]
  /\ blocking_count' = [blocking_count EXCEPT ![w] = 0]
  /\ send_buffer' = [send_buffer EXCEPT ![w] = <<>>]
  /\ socket' = [socket EXCEPT ![w] = <<>>]
  /\ view' = [view EXCEPT ![w] = NoNews]
  /\ UNCHANGED <<status_now, last_query, pending_queries, completed,
                 query_timer, subscribed>>

\* process_received or _do_send finds that the client has gone.
ClientGone(w) == w \in open /\ Close(w)

\* stats, once a second
Stats(w) ==
  /\ w \in open /\ is_blocking[w]
  /\ IF blocking_count[w] = 0 THEN Close(w)
     ELSE /\ blocking_count' = [blocking_count EXCEPT ![w] = @ - 1]
          /\ UNCHANGED <<status_now, last_query, pending_queries, completed,
                         query_timer, subscribed, open, is_blocking,
                         send_buffer, socket, view>>

\* A client reads one message.
ClientReads(w) ==
  /\ w \in open /\ socket[w] # <<>>
  /\ view' = [view EXCEPT ![w] = Merge(@, Head(socket[w]))]
  /\ socket' = [socket EXCEPT ![w] = Tail(@)]
  /\ UNCHANGED <<status_now, last_query, pending_queries, completed,
                 query_timer, subscribed, open, is_blocking, blocking_count,
                 send_buffer>>

-----------------------------------------------------------------------------
(* Queries.                                                                *)

Without(f, w) == [x \in DOMAIN f \ {w} |-> f[x]]

\* _handle_query and _handle_subscribe up to the wait; a request that was read
\* runs even when its connection blocks or is closed meanwhile.
HandleQuery(w, objs, subscribe) ==
  /\ w \in open /\ Len(pending_queries \o completed) < MaxQueries
  /\ pending_queries' =
       Append(pending_queries, [watcher |-> w, objs |-> objs,
                                subscribe |-> subscribe])
  /\ subscribed' = IF subscribe THEN Without(subscribed, w) ELSE subscribed
  /\ query_timer' = TRUE
  /\ UNCHANGED <<status_now, last_query, completed, open, is_blocking,
                 blocking_count, send_buffer, socket, view>>

Status(objs) == [o \in objs |-> status_now[o]]

\* rd != lres.get(ri)
Changed(o) == o \notin DOMAIN last_query \/ last_query[o] # status_now[o]

\* Mutant: the timer goes on for the subscribers of the moment only.
QueriesEnd_Subscribers(asked) == subscribed = NoNews

\* not query
QueriesEnd(asked) == asked = {}

\* _do_query
DoQuery ==
  LET live == [w \in DOMAIN subscribed \intersect open |-> subscribed[w]]
      asked == UNION ({live[w] : w \in DOMAIN live} \union
                      {pending_queries[i].objs : i \in DOMAIN pending_queries})
      news == [w \in Watchers |->
                 IF w \in DOMAIN live
                 THEN Status({o \in live[w] : Changed(o)}) ELSE NoNews]
  IN
  /\ query_timer /\ completed = <<>>
  /\ completed' = [i \in DOMAIN pending_queries |->
                     [request |-> pending_queries[i],
                      answer |-> Status(pending_queries[i].objs)]]
  /\ pending_queries' = <<>>
  /\ last_query' = Status(asked)
  /\ subscribed' = live
  /\ Send({w \in DOMAIN live : news[w] # NoNews}, news)
  /\ query_timer' = ~QueriesEnd(asked)
  /\ UNCHANGED <<status_now, open, view>>

\* The waiter of _handle_query goes on.
AnswerQuery ==
  /\ completed # <<>>
  /\ LET r == Head(completed).request
         answer == Head(completed).answer
     IN /\ Send({r.watcher}, [w \in {r.watcher} |-> answer])
        /\ subscribed' = IF r.subscribe
                         THEN Merge(subscribed, [w \in {r.watcher} |-> r.objs])
                         ELSE subscribed
  /\ completed' = Tail(completed)
  /\ UNCHANGED <<status_now, last_query, pending_queries, query_timer, open,
                 view>>

StatusChanges ==
  /\ \E o \in Objs : \E s \in Statuses \ {status_now[o]} :
       status_now' = [status_now EXCEPT ![o] = s]
  /\ UNCHANGED <<last_query, pending_queries, completed, query_timer,
                 subscribed, open, is_blocking, blocking_count, send_buffer,
                 socket, view>>

WebNext ==
  \/ \E w \in Watchers :
       Writable(w) \/ ClientGone(w) \/ Stats(w) \/ ClientReads(w)
  \/ \E w \in Watchers, objs \in (SUBSET Objs) \ {{}}, subscribe \in BOOLEAN :
       HandleQuery(w, objs, subscribe)
  \/ DoQuery \/ AnswerQuery \/ StatusChanges

WebSpec == WebInit /\ [][WebNext]_webVars

-----------------------------------------------------------------------------
(* Properties.                                                             *)

\* What a client hears of the status, the newest last: what it has read and
\* the messages that wait for it in two places.
Heard(w) == <<view[w]>> \o socket[w] \o send_buffer[w]

\* The last of the messages that has object o says that it is s.
Newest(messages, o, s) ==
  \E i \in DOMAIN messages :
    /\ o \in DOMAIN messages[i] /\ messages[i][o] = s
    /\ \A j \in DOMAIN messages : j > i => o \notin DOMAIN messages[j]

\* A subscriber that reads gets to know the status of its objects at the last
\* query, although it is only sent differences to a query it shares with the
\* others, may subscribe anew at any time, and its messages wait in two
\* places; and the queries go on (webhooks.py:433-500).
ViewsCurrent ==
  \A w \in open \intersect DOMAIN subscribed :
    /\ \A o \in subscribed[w] :
         o \in DOMAIN last_query /\ Newest(Heard(w), o, last_query[o])
    /\ subscribed[w] # {} => query_timer
=============================================================================
