------------------------------ MODULE SaveConfig ------------------------------
(***************************************************************************)
(* The configuration file and SAVE_CONFIG (configfile.py).  The file has a *)
(* regular part, which the user writes, and an autosave part behind a      *)
(* header.  Calibration commands set options of the autosave part in       *)
(* memory; SAVE_CONFIG writes both to a new file, puts it in the place of  *)
(* the old one, which becomes a backup, and restarts.                      *)
(*                                                                         *)
(* An option stands for a section with one option; 0 is an option that is  *)
(* not there.  A file is [regular, autosave, safe], where safe tells       *)
(* whether its data are on the disk: a failure of the power tears it if    *)
(* not. The user edits the regular part only.                              *)
(***************************************************************************)
EXTENDS Integers

CONSTANTS
  Options,
  Included,    \* those that an included file defines
  Values,      \* positive numbers
  MaxSaves     \* SAVE_CONFIGs TLC considers

NoFile == [regular |-> << >>, autosave |-> << >>, safe |-> FALSE]
NoOptions == [o \in Options |-> 0]

VARIABLES
  cfg_file, temp_file, \* printer.cfg and printer_autosave.cfg
  backups,     \* the files printer-<date>.cfg
  saving,      \* where SAVE_CONFIG is: "no", "written", "renamed"
  printer,     \* "down", "failed" to read its configuration, or "ready"
  autosave,    \* PrinterConfig.autosave
  effective,   \* the options the printer was started with
  saved,       \* history: the options last saved, those the user wrote that
  written,     \*   were not saved since, and the last file known to be on
  flushed,     \*   the disk
  saves        \* SAVE_CONFIGs so far

configVars == <<cfg_file, temp_file, backups, saving, printer, autosave,
                effective, saved, written, flushed, saves>>
memory  == <<autosave, effective>>

\* The program ends, and its memory with it.
GoesDown == /\ printer' = "down"
            /\ autosave' = NoOptions /\ effective' = NoOptions

history == <<saved, written, flushed>>

IncludedValue == 99

\* What a parsed file defines, those it includes among it
Defined(r) == [o \in Options |-> IF r[o] # 0 THEN r[o]
                                 ELSE IF o \in Included THEN IncludedValue
                                 ELSE 0]

ConfigInit ==
  /\ \E r \in [Options -> {0} \cup Values] :
       /\ cfg_file = [regular |-> r, autosave |-> NoOptions, safe |-> TRUE]
       /\ written = Defined(r)
  /\ temp_file = NoFile /\ backups = {} /\ saving = "no" /\ printer = "down"
  /\ autosave = NoOptions /\ effective = NoOptions /\ saved = NoOptions
  /\ flushed = cfg_file /\ saves = 0

-----------------------------------------------------------------------------
(* Reading.                                                                *)

\* Mutant: duplicates are left in the part that is written.
StripDuplicates_None(part, config) == part

\* _strip_duplicates: options of a part that config defines are commented out.
StripDuplicates(part, config) ==
  [o \in Options |-> IF config[o] # 0 THEN 0 ELSE part[o]]

\* read_main_config
ReadMainConfig ==
  /\ printer = "down" /\ saving = "no"
  /\ IF cfg_file = NoFile
     THEN printer' = "failed" /\ UNCHANGED memory
     ELSE LET regular == Defined(cfg_file.regular)
              auto    == StripDuplicates(cfg_file.autosave, regular)
          IN /\ printer' = "ready" /\ autosave' = auto
             /\ effective' = [o \in Options |-> IF auto[o] # 0 THEN auto[o]
                                                ELSE regular[o]]
  /\ UNCHANGED <<cfg_file, temp_file, backups, saving, history, saves>>

-----------------------------------------------------------------------------
(* Setting and saving.                                                     *)

\* set, from a calibration, and remove_section
SetOption ==
  /\ printer = "ready" /\ saving = "no"
  /\ \E o \in Options, v \in {0} \cup Values :
       autosave' = [autosave EXCEPT ![o] = v]
  /\ UNCHANGED <<cfg_file, temp_file, backups, saving, printer, effective,
                 history, saves>>

\* What is written: the regular part as it is now, and the autosave part
NewRegular == StripDuplicates(cfg_file.regular, autosave)
Conflict   == \E o \in Options : autosave[o] # 0 /\ Defined(NewRegular)[o] # 0

\* Mutant: the file itself is written.
WriteTemp_InPlace(f) == cfg_file' = f /\ UNCHANGED temp_file

\* f.write and f.close, which leaves the data to the kernel
WriteTemp(f) == temp_file' = f /\ UNCHANGED cfg_file

\* cmd_SAVE_CONFIG up to the file it writes: without autosave options it does
\* nothing, and includes that define one of them refuse it.
SaveStarts ==
  /\ printer = "ready" /\ saving = "no" /\ saves < MaxSaves
  /\ autosave # NoOptions /\ cfg_file # NoFile /\ ~Conflict
  /\ WriteTemp([regular |-> NewRegular, autosave |-> autosave, safe |-> FALSE])
  /\ saving' = "written" /\ saves' = saves + 1
  /\ UNCHANGED <<backups, printer, memory, history>>

RenameOld ==
  /\ saving = "written" /\ saving' = "renamed"
  /\ backups' = backups \cup {cfg_file} /\ cfg_file' = NoFile
  /\ UNCHANGED <<temp_file, printer, memory, history, saves>>

\* The second rename, and the restart
RenameNew ==
  /\ saving = "renamed" /\ saving' = "no" /\ GoesDown
  /\ cfg_file' = temp_file /\ temp_file' = NoFile
  /\ saved' = autosave
  /\ written' = [o \in Options |-> IF autosave[o] # 0 THEN 0 ELSE written[o]]
  /\ UNCHANGED <<backups, flushed, saves>>

-----------------------------------------------------------------------------
(* The user, the kernel, the power.                                        *)

\* The user edits the regular part, and restarts.
EditFile ==
  /\ saving = "no" /\ printer \in {"failed", "ready"} /\ GoesDown
  /\ cfg_file # NoFile
  /\ \E o \in Options, v \in {0} \cup Values :
       cfg_file' = [cfg_file EXCEPT !.regular[o] = v, !.safe = TRUE]
  /\ flushed' = cfg_file' /\ written' = Defined(cfg_file'.regular)
  /\ UNCHANGED <<temp_file, backups, saving, saved, saves>>

\* A file that is gone or torn is made from a backup.
Restore ==
  /\ printer = "failed" /\ printer' = "down"
  /\ \E b \in backups :
       /\ b.safe /\ cfg_file' = b /\ flushed' = b
       /\ written' = Defined(b.regular) /\ saved' = b.autosave
  /\ UNCHANGED <<temp_file, backups, saving, memory, saves>>

\* The kernel writes what it has.
Safe(f) == IF f = NoFile THEN f ELSE [f EXCEPT !.safe = TRUE]

KernelFlushes ==
  /\ cfg_file' = Safe(cfg_file) /\ temp_file' = Safe(temp_file)
  /\ backups' = {Safe(b) : b \in backups}
  /\ flushed' = IF cfg_file = NoFile THEN flushed ELSE cfg_file'
  /\ UNCHANGED <<saving, printer, memory, saved, written, saves>>

\* Whatever is not safe is torn, which is no better than no file.
AfterFailure(f) == IF f.safe THEN f ELSE NoFile

PowerFailure ==
  /\ cfg_file' = AfterFailure(cfg_file) /\ temp_file' = AfterFailure(temp_file)
  /\ backups' = {AfterFailure(b) : b \in backups} \ {NoFile}
  /\ saving' = "no" /\ GoesDown
  /\ UNCHANGED <<history, saves>>

ConfigNext ==
  \/ ReadMainConfig \/ SetOption \/ SaveStarts \/ RenameOld \/ RenameNew
  \/ EditFile \/ Restore \/ KernelFlushes \/ PowerFailure

ConfigSpec == ConfigInit /\ [][ConfigNext]_configVars

-----------------------------------------------------------------------------
(* Properties.                                                             *)

\* What SAVE_CONFIG has saved is what the printer is started with next, in
\* spite of what the regular part said of it; what the user writes after that
\* holds again, and SAVE_CONFIG keeps all it does not save itself
\* (configfile.py:285-294, 389-427).
SavedIsEffective ==
  printer = "ready" =>
    effective = [o \in Options |-> IF written[o] # 0 THEN written[o]
                                   ELSE saved[o]]

\* SAVE_CONFIG never puts the settings at risk: wherever the power fails, the
\* last file that was on the disk is there, in its place or as a backup
\* (configfile.py:418-427).
SettingsKept ==
  \E f \in backups \cup {cfg_file} : f.safe /\ f = flushed

SettingsSound == SavedIsEffective /\ SettingsKept
=============================================================================
