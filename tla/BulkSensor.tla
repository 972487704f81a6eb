------------------------------ MODULE BulkSensor ------------------------------
(***************************************************************************)
(* Measurements in bulk (bulk_sensor.py), with the accelerometer           *)
(* adxl345.py as the sensor.  The first client starts the sensor and the   *)
(* last one that leaves stops it; both take several messages, and clients  *)
(* come while they wait.  A timer pulls what has arrived, and numbers the  *)
(* messages, which carry sixteen bits of their sequence, with the answer   *)
(* to a query that it sends first.                                         *)
(*                                                                         *)
(* Messages of the micro-controller arrive in order; measurements may be   *)
(* lost, answers are asked for again.  Times and the decoding of samples   *)
(* are left out.  Registers are set by a round trip that may fail.         *)
(***************************************************************************)
EXTENDS Extension, Sequences

CONSTANTS
  Clients,
  SeqTurn,      \* 2^16
  MaxSent,      \* bound: messages of measurements since a start
  MaxLink,      \* bound: messages on their way
  MaxSessions   \* bound: starts

ASSUME BulkAssumption == SeqTurn \in Nat \ {0}

VARIABLES
  \* the controller
  session,      \* starts so far
  sensor_on, sent,
  queried,        \* whether a request is on its way to it
  link,         \* its messages on their way: measurements and answers
  \* the host
  phase,        \* where the start, the batch or the stop under way waits
  reply,        \* the answer it waits for: << >>, or one value
  is_started, batch_timer, client_cbs,
  last_sequence, raw_samples,
  pulled        \* last_sequence at the last pull, or 0: for Measure's bound

bulkVars == <<session, sensor_on, sent, queried, link, phase, reply,
              is_started, batch_timer, client_cbs, last_sequence, raw_samples, pulled>>
sensorVars == <<session, sensor_on, sent>>

BulkInit ==
  /\ session = 0 /\ sensor_on = FALSE /\ sent = 0 /\ queried = FALSE
  /\ link = << >> /\ phase = "idle" /\ reply = << >>
  /\ is_started = FALSE /\ batch_timer = FALSE /\ client_cbs = {}
  /\ last_sequence = 0 /\ raw_samples = << >> /\ pulled = 0

-----------------------------------------------------------------------------
(* The controller, and the thread that reads from it.                      *)

\* Batches are pulled before half a turn of the sequence has been sent.
Measure ==
  /\ sensor_on /\ sent < MaxSent /\ Len(link) < MaxLink
  /\ is_started => sent < pulled + SeqTurn \div 2
  /\ link' = Append(link, [data |-> TRUE, n |-> sent, session |-> session])
  /\ sent' = sent + 1
  /\ UNCHANGED <<session, sensor_on, queried, phase, reply, is_started,
                 batch_timer, client_cbs, last_sequence, raw_samples, pulled>>

\* The answer to a query of the status, or of a register.
McuReplies ==
  /\ queried /\ queried' = FALSE
  /\ link' = Append(link, [data |-> FALSE, n |-> sent, session |-> session])
  /\ UNCHANGED <<sensorVars, phase, reply, is_started, batch_timer, client_cbs,
                 last_sequence, raw_samples, pulled>>

\* BulkDataQueue._handle_data, and the completion of an answer; measurements
\* may be lost instead.
ReceiveBulk ==
  /\ link # << >> /\ link' = Tail(link)
  /\ IF Head(link).data
     THEN /\ raw_samples' \in {Append(raw_samples, Head(link)), raw_samples}
          /\ UNCHANGED reply
     ELSE reply' = <<Head(link).n>> /\ UNCHANGED raw_samples
  /\ UNCHANGED <<sensorVars, queried, phase, is_started, batch_timer,
                 client_cbs, last_sequence, pulled>>

-----------------------------------------------------------------------------
(* Starting.                                                               *)

\* The greenlet that starts, stops or pulls goes on to its next wait.
WaitAt(p) == phase' = p /\ reply' = << >>

\* add_client, and _start up to the first wait of the start callback
AddClient ==
  /\ \E c \in Clients \ client_cbs : client_cbs' = client_cbs \cup {c}
  /\ IF is_started THEN UNCHANGED <<is_started, phase, reply>>
     ELSE is_started' = TRUE /\ WaitAt("id")
  /\ UNCHANGED <<sensorVars, queried, link, batch_timer, last_sequence,
                 raw_samples, pulled>>

\* A register cannot be read or set, before the sensor runs or after, or the
\* query fails.
StartFails ==
  /\ phase = "id" \/ (phase \in {"power", "clock"} /\ reply # << >>)
  /\ is_started' = FALSE /\ client_cbs' = {} /\ WaitAt("idle")
  /\ UNCHANGED <<sensorVars, queried, link, batch_timer, last_sequence,
                 raw_samples, pulled>>

\* The sensor counts from 0 again; then a register is set.
SendStart ==
  /\ phase = "id" /\ session < MaxSessions
  /\ session' = session + 1 /\ sensor_on' = TRUE /\ sent' = 0 /\ pulled' = 0
  /\ queried' = TRUE /\ WaitAt("power")
  /\ UNCHANGED <<link, is_started, batch_timer, client_cbs, last_sequence,
                 raw_samples>>

\* FixedFreqReader.note_start, up to the query
NoteStart ==
  /\ phase = "power" /\ reply # << >>
  /\ last_sequence' = 0 /\ raw_samples' = << >>
  /\ queried' = TRUE /\ WaitAt("clock")
  /\ UNCHANGED <<sensorVars, link, is_started, batch_timer, client_cbs, pulled>>

\* _update_clock
Updated(n) == ExtendForward(last_sequence, n % SeqTurn, SeqTurn)

\* The end of _start
StartDone ==
  /\ phase = "clock" /\ reply # << >>
  /\ last_sequence' = Updated(reply[1])
  /\ batch_timer' = TRUE /\ WaitAt("idle")
  /\ UNCHANGED <<sensorVars, queried, link, is_started, client_cbs, raw_samples,
                 pulled>>

\* pull_samples: the number of a message, from the answer n of the query
Number(m, n) == ExtendNearest(Updated(n), m.n % SeqTurn, SeqTurn)

-----------------------------------------------------------------------------
(* Batches.                                                                *)

\* _proc_batch: pull_samples, up to the query
ProcBatch ==
  /\ batch_timer /\ phase = "idle" /\ queried' = TRUE /\ WaitAt("batch")
  /\ UNCHANGED <<sensorVars, link, is_started, batch_timer, client_cbs,
                 last_sequence, raw_samples, pulled>>

\* The rest of pull_samples and of _proc_batch: clients may leave, and the
\* last one stops the sensor.
PullSamples ==
  /\ phase = "batch" /\ reply # << >>
  /\ last_sequence' = Updated(reply[1]) /\ pulled' = last_sequence'
  /\ raw_samples' = << >>
  /\ client_cbs' \in IF raw_samples = << >> THEN {client_cbs}
                     ELSE SUBSET client_cbs
  /\ batch_timer' = (client_cbs' # {})
  /\ WaitAt(IF client_cbs' = {} THEN "off" ELSE "idle")
  /\ UNCHANGED <<sensorVars, queried, link, is_started>>

\* The query fails: everybody is dropped.
BatchFails ==
  /\ phase = "batch" /\ reply # << >>
  /\ client_cbs' = {} /\ batch_timer' = FALSE /\ WaitAt("off")
  /\ UNCHANGED <<sensorVars, queried, link, is_started, last_sequence,
                 raw_samples, pulled>>

-----------------------------------------------------------------------------
(* _stop                                                                   *)

\* The register is set, and the command to stop waits for its acknowledgement.
SendStop ==
  /\ phase = "off" /\ sensor_on' = FALSE /\ queried' = TRUE /\ WaitAt("ack")
  /\ UNCHANGED <<session, sent, link, is_started, batch_timer, client_cbs,
                 last_sequence, raw_samples, pulled>>

\* It cannot be set: the sensor goes on, and new clients are dropped.
StopFails ==
  /\ phase = "off" /\ client_cbs' = {} /\ is_started' = FALSE /\ WaitAt("idle")
  /\ UNCHANGED <<sensorVars, queried, link, batch_timer, last_sequence,
                 raw_samples, pulled>>

\* Mutant: who came while the sensor was being stopped is not looked for.
Restarts_Never == FALSE

Restarts == client_cbs # {}

\* note_end, and a new start for clients that came meanwhile
StopDone ==
  /\ phase = "ack" /\ reply # << >> /\ raw_samples' = << >>
  /\ is_started' = Restarts /\ WaitAt(IF Restarts THEN "id" ELSE "idle")
  /\ UNCHANGED <<sensorVars, queried, link, batch_timer, client_cbs,
                 last_sequence, pulled>>

BulkNext ==
  \/ Measure \/ McuReplies \/ ReceiveBulk
  \/ AddClient \/ StartFails \/ SendStart \/ NoteStart \/ StartDone
  \/ ProcBatch \/ PullSamples \/ BatchFails
  \/ SendStop \/ StopFails \/ StopDone

BulkSpec == BulkInit /\ [][BulkNext]_bulkVars

-----------------------------------------------------------------------------
(* Properties.                                                             *)

\* Clients that are registered have a sensor that runs and a timer that serves
\* them, or a start or stop under way that will see them; without clients
\* nothing is pulled.
Served ==
  /\ client_cbs # {} => is_started
  /\ (is_started /\ phase = "idle") =>
       (client_cbs # {} /\ batch_timer /\ sensor_on)

\* Every message that is pulled is of this start and gets its true number.
Numbered ==
  (phase = "batch" /\ reply # << >>) =>
    \A i \in DOMAIN raw_samples :
      /\ raw_samples[i].session = session
      /\ Number(raw_samples[i], reply[1]) = raw_samples[i].n

\* Whoever comes while the sensor is being started or stopped is served, and
\* what is pulled is numbered as it was sent although starts, losses and
\* restarts of the sequence lie between (bulk_sensor.py:40-91, 205-297).
BatchesSound == Served /\ Numbered
=============================================================================
