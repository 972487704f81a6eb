------------------------------- MODULE MCLink -------------------------------
(***************************************************************************)
(* What the host and the controllers tell each other, for TLC: delivery of *)
(* blocks, the queues before it, blocks in a stream of bytes, clocks,      *)
(* counts of buttons and of bulk messages, and the reactor that waits. No  *)
(* part shares state with another in these models: a behaviour picks one   *)
(* and runs it, while the variables of the others keep their first values. *)
(* The reachable states are those of the parts, one after the other, and   *)
(* never a product of two of them.                                         *)
(***************************************************************************)
EXTENDS SerialQueue, CommandQueue, MessageBlocks, ClockSync, Buttons,
        BulkSensor, Reactor

Seqs == INSTANCE SequencesExt

VARIABLE part   \* the part a behaviour runs

Parts == {"delivery", "commands", "messages", "clock", "buttons", "bulk",
          "reactor"}

\* Parts that begin in several ways begin in one of them when another is run.
TransportInit ==
  /\ part \in Parts
  /\ Init /\ CommandInit /\ MessageInit /\ ClockInit /\ ButtonInit /\
     BulkInit /\ ReactorInit
  /\ part # "delivery" => mcu_first = 1
  /\ part # "reactor" =>
       /\ current = CHOOSE g \in Greenlets : TRUE
       /\ registered = CHOOSE order \in Seqs!SetToSeqs(Timers) : TRUE

\* The other parts rest.
OthersRest ==
  /\ UNCHANGED part
  /\ part # "delivery" => UNCHANGED vars
  /\ part # "commands" => UNCHANGED cqVars
  /\ part # "messages" => UNCHANGED messageVars
  /\ part # "clock" => UNCHANGED clockVars
  /\ part # "buttons" => UNCHANGED buttonVars
  /\ part # "bulk" => UNCHANGED bulkVars
  /\ part # "reactor" => UNCHANGED reactorVars

TransportNext ==
  \/ part = "delivery" /\ Next /\ OthersRest
  \/ part = "commands" /\ CommandNext /\ OthersRest
  \/ part = "messages" /\ MessageNext /\ OthersRest
  \/ part = "clock" /\ ClockNext /\ OthersRest
  \/ part = "buttons" /\ ButtonNext /\ OthersRest
  \/ part = "bulk" /\ BulkNext /\ OthersRest
  \/ part = "reactor" /\ ReactorNext /\ OthersRest

TransportVars ==
  <<part, vars, cqVars, messageVars, clockVars, buttonVars, bulkVars,
    reactorVars>>

TransportSpec == TransportInit /\ [][TransportNext]_TransportVars

-----------------------------------------------------------------------------
(* Properties of parts that belong together.                               *)

\* What comes out of a stream is what was put into it: blocks out of damaged
\* bytes, and the samples of a bulk sensor whatever its messages' counts do.
StreamsSound == MessagesSound /\ BatchesSound
=============================================================================
