----------------------------- MODULE MCPrintJob -----------------------------
(* Small instances of PrintJob for TLC.                                    *)
EXTENDS PrintJob, TLC

\* A file that ends with a change of filament, one that waits for filament
\* in the middle, one whose lines pause, fail and cancel the print, and one
\* of moves.
FullFile     == << "move", "fail", "jump", "pause", "T1" >>
FilamentFile == << "move", "T1", "move" >>
ControlFile  == << "T1", "pause", "fail", "cancel" >>
PlainFile    == << "move", "move" >>

\* Clients differ in nothing but their names.
Symmetry == Permutations(Clients)
=============================================================================
