------------------------------ MODULE GCodeInput ------------------------------
(***************************************************************************)
(* How gcode.py (GCodeIO) takes commands from the terminal.  _process_data *)
(* is called again by the reactor while the commands of an earlier call    *)
(* wait for the g-code mutex, or run: it then only adds its lines to       *)
(* pending_commands, which the first call takes up when it is through, and *)
(* stops reading at a limit.                                               *)
(*                                                                         *)
(* A line is its number, and some lines are M112.  Data arrives in pieces  *)
(* that may end in the middle of a line, and of a character: a piece that  *)
(* does not decode was read and is dropped, and what partial_input held    *)
(* before is put in front of the piece after it.  A line that is put       *)
(* together so, or misses its beginning, is Mangled.  A read that fails    *)
(* (os.error) takes nothing and changes nothing.  Input from a file        *)
(* (is_fileinput) is left out.                                             *)
(***************************************************************************)
EXTENDS Integers, Sequences

CONSTANTS
  MaxPending,   \* pending commands that stop the reading (20)
  MaxPiece,     \* bound: lines a piece of data ends
  M112s,        \* lines that are M112
  LastLine      \* bound: the last line sent

ASSUME InputAssumption == MaxPiece \in Nat /\ LastLine \in Nat

VARIABLES
  bytes_read,       \* lines whose end was read, dropped ones too
  partial_input,    \* what it holds of the line after them: "none", its
                    \* "begin", text that does not go on with what comes
                    \* ("torn"), or nothing though it has begun ("cut")
  pending_commands, \* self.pending_commands
  batch,            \* the loop's own pending_commands
  is_processing_data, fd_handle,
  gcode_mutex,      \* who holds it: nobody, the loop, or another client
  gcode_shutdown,   \* whether M112 has shut the printer down
  executed,         \* history: the lines that were run, in their order
  spoiled           \* history: lines that a dropped piece had a part of, or
                    \* that are put behind the beginning of another

inputVars == <<bytes_read, partial_input, pending_commands, batch,
               is_processing_data, fd_handle, gcode_mutex, gcode_shutdown,
               executed, spoiled>>
readVars == <<bytes_read, partial_input, spoiled>>

Mangled == 0   \* a line that is none of those sent

InputInit ==
  /\ bytes_read = 0 /\ partial_input = "none" /\ spoiled = {}
  /\ pending_commands = << >> /\ batch = << >>
  /\ is_processing_data = FALSE /\ fd_handle = TRUE
  /\ gcode_mutex = "free" /\ gcode_shutdown = FALSE /\ executed = << >>

\* The next n lines, of which the first goes on with what partial_input holds.
NextLines(n) ==
  [i \in 1..n |-> IF i = 1 /\ partial_input \in {"torn", "cut"} THEN Mangled
                  ELSE bytes_read + i]

\* partial_input after n ends of lines, and perhaps a beginning behind them.
PartialAfter(n, partial) ==
  CASE n > 0 -> IF partial THEN "begin" ELSE "none"
    [] n = 0 -> IF partial_input \in {"none", "begin"} THEN "begin" ELSE "torn"

\* Whether there is M112 among some lines; a mangled one may look like it.
HasM112(lines) ==
  LET ls == {lines[i] : i \in DOMAIN lines}
  IN  IF ls \cap M112s # {} THEN {TRUE}
      ELSE IF Mangled \in ls THEN BOOLEAN ELSE {FALSE}

\* Mutant: what came in while the lines were run is dropped with them.
StillPending_None == << >>

\* pending_commands = self.pending_commands
StillPending == pending_commands

\* _process_data: lines that are pending, and M112 among them out of order.
ProcessData ==
  \E n \in 0..MaxPiece, partial \in BOOLEAN :
    LET lines   == NextLines(n)
        pending == pending_commands \o lines
        early   == (is_processing_data \/ Len(pending) > 1) /\ Len(pending) < MaxPending
    IN
    /\ fd_handle /\ bytes_read + n <= LastLine
    /\ n > 0 \/ partial
    /\ bytes_read' = bytes_read + n /\ partial_input' = PartialAfter(n, partial)
    /\ \E m112 \in HasM112(lines) :
         gcode_shutdown' = (gcode_shutdown \/ (early /\ m112))
    /\ IF is_processing_data
       THEN /\ pending_commands' = pending
            /\ fd_handle' = (Len(pending) < MaxPending)
            /\ UNCHANGED <<batch, is_processing_data>>
       ELSE /\ batch' = pending /\ is_processing_data' = (pending # << >>)
            /\ pending_commands' = << >> /\ UNCHANGED fd_handle
    /\ UNCHANGED <<gcode_mutex, executed, spoiled>>

\* UnicodeDecodeError: the piece is gone, and partial_input is as before.
PieceDropped ==
  \E n \in 0..MaxPiece, partial \in BOOLEAN :
    LET held == partial_input \in {"begin", "torn"}
        last == bytes_read + n + (IF held \/ partial THEN 1 ELSE 0)
    IN
    /\ fd_handle /\ bytes_read + n <= LastLine
    /\ n > 0 \/ partial
    /\ bytes_read' = bytes_read + n
    /\ partial_input' = IF held THEN "torn" ELSE IF partial THEN "cut" ELSE "none"
    /\ spoiled' = spoiled \cup ((bytes_read + 1)..last)
    /\ UNCHANGED <<pending_commands, batch, is_processing_data, fd_handle,
                   gcode_mutex, gcode_shutdown, executed>>

\* The loop waits for the mutex, which other clients hold at times.
OtherLocks ==
  /\ gcode_mutex = "free" /\ gcode_mutex' = "other"
  /\ UNCHANGED <<readVars, pending_commands, batch,
                 is_processing_data, fd_handle, gcode_shutdown, executed>>

OtherUnlocks ==
  /\ gcode_mutex = "other" /\ gcode_mutex' = "free"
  /\ UNCHANGED <<readVars, pending_commands, batch,
                 is_processing_data, fd_handle, gcode_shutdown, executed>>

LoopLocks ==
  /\ is_processing_data /\ gcode_mutex = "free" /\ gcode_mutex' = "loop"
  /\ UNCHANGED <<readVars, pending_commands, batch,
                 is_processing_data, fd_handle, gcode_shutdown, executed>>

\* A command ends, well or with an error; _process_commands goes on.
CommandDone ==
  /\ gcode_mutex = "loop" /\ batch # << >>
  /\ batch' = Tail(batch) /\ executed' = Append(executed, Head(batch))
  /\ \E m112 \in HasM112(<<Head(batch)>>) :
       gcode_shutdown' = (gcode_shutdown \/ m112)
  /\ UNCHANGED <<readVars, pending_commands,
                 is_processing_data, fd_handle, gcode_mutex>>

\* The end of the loop's body, and of the loop when nothing is pending.
LoopUnlocks ==
  /\ gcode_mutex = "loop" /\ batch = << >> /\ gcode_mutex' = "free"
  /\ batch' = StillPending /\ pending_commands' = << >>
  /\ is_processing_data' = (StillPending # << >>)
  /\ fd_handle' = (fd_handle \/ StillPending = << >>)
  /\ UNCHANGED <<readVars, gcode_shutdown, executed>>

InputNext == ProcessData \/ PieceDropped \/ OtherLocks \/ OtherUnlocks \/ LoopLocks
             \/ CommandDone \/ LoopUnlocks

InputSpec == InputInit /\ [][InputNext]_inputVars

-----------------------------------------------------------------------------
(* Properties.                                                             *)

\* The types of the variables.
InputTypes ==
  /\ bytes_read \in 0..LastLine
  /\ partial_input \in {"none", "begin", "torn", "cut"}
  /\ spoiled \subseteq 1..(LastLine + 1)
  /\ is_processing_data \in BOOLEAN /\ fd_handle \in BOOLEAN
  /\ gcode_mutex \in {"free", "loop", "other"} /\ gcode_shutdown \in BOOLEAN
  /\ pending_commands \in Seq(Nat) /\ batch \in Seq(Nat) /\ executed \in Seq(Nat)

\* The lines that were run or are to be run.
AllLines == executed \o batch \o pending_commands

InOrder(lines) ==
  \A i, j \in DOMAIN lines :
    i < j /\ lines[i] # Mangled /\ lines[j] # Mangled => lines[i] < lines[j]

\* Every line that was sent and that no dropped piece spoiled is run once, as
\* it was sent and in order, or is still to be run by a loop that is under
\* way, however _process_data is called again while the loop waits; and while
\* nothing is read a loop is there to read again (gcode.py:410-455).  A piece
\* that does not decode (412-416) spoils the lines it has a part of, and the
\* line after it that is put behind a beginning held from before it: what is
\* run of those is Mangled or nothing.
EachLineOnce ==
  /\ InOrder(AllLines)
  /\ {AllLines[i] : i \in DOMAIN AllLines} \ {Mangled} = (1..bytes_read) \ spoiled
  /\ is_processing_data \/ (fd_handle /\ pending_commands = << >>)
=============================================================================
