----------------------------- MODULE MCHostProofs -----------------------------
(***************************************************************************)
(* What is proved of the host's files, which outlive the program: wherever *)
(* the power fails, saved settings are kept, and the images and packages   *)
(* that were put in their places are whole, but for named exceptions;      *)
(* and that the loop of handle_trsync_state is right for every number of   *)
(* controllers and every report.                                           *)
(***************************************************************************)
EXTENDS MCHost, FiniteSetTheorems

-----------------------------------------------------------------------------
(* The configuration file.                                                 *)

\* The regular part of what SAVE_CONFIG writes defines what the user wrote and
\* autosave does not.
Leaves(regular) ==
  [opt \in Options |-> IF autosave[opt] # 0 THEN 0 ELSE written[opt]]
    = Defined(regular)

\* The file says what was saved and written; one that is on its way to its
\* place says what will be.
FileSays ==
  cfg_file # NoFile =>
    cfg_file.autosave = saved /\ Defined(cfg_file.regular) = written

TempSays ==
  saving # "no" =>
    /\ printer = "ready" /\ temp_file.autosave = autosave
    /\ Leaves(temp_file.regular)
    /\ saving = "renamed" => cfg_file = NoFile

Option == {0, IncludedValue} \cup Values
Settings == [Options -> Option]
File == [regular : Settings, autosave : Settings, safe : BOOLEAN]

ConfigTypes ==
  /\ printer \in {"down", "failed", "ready"}
  /\ saving \in {"no", "written", "renamed"}
  /\ autosave \in Settings /\ saved \in Settings /\ written \in Settings
  /\ \A f \in backups \cup {cfg_file, temp_file} : f \in File \/ f = NoFile

ConfigInv == ConfigTypes /\ FileSays /\ TempSays /\ SettingsSound

LEMMA DefinedIs ==
  ASSUME NEW r \in Settings
  PROVE  /\ Defined(r) \in Settings
         /\ \A opt \in Options :
              Defined(r)[opt] = IF r[opt] # 0 THEN r[opt]
                                ELSE IF opt \in Included THEN IncludedValue ELSE 0
BY DEF Defined, Settings, Option

LEMMA StripIs ==
  ASSUME NEW r \in Settings, NEW c \in Settings
  PROVE  /\ StripDuplicates(r, c) \in Settings
         /\ \A opt \in Options :
              StripDuplicates(r, c)[opt] = IF c[opt] # 0 THEN 0 ELSE r[opt]
BY DEF StripDuplicates, Settings, Option

LEMMA SafeIs ==
  ASSUME NEW f, f \in File \/ f = NoFile
  PROVE  /\ Safe(f) \in File \/ Safe(f) = NoFile
         /\ Safe(f).regular = f.regular /\ Safe(f).autosave = f.autosave
         /\ f.safe => Safe(f) = f
         /\ Safe(f) # NoFile => f # NoFile /\ Safe(f).safe
         /\ f = NoFile => Safe(f) = NoFile
<1>1. CASE f = NoFile
  BY <1>1 DEF Safe, NoFile
<1>2. CASE f # NoFile
  <2>1. f \in File /\ Safe(f) = [f EXCEPT !.safe = TRUE]
    BY <1>2 DEF Safe
  <2> QED  BY <2>1, <1>2 DEF File
<1> QED  BY <1>1, <1>2

LEMMA ConfigInvInit == ConfigInit => ConfigInv
<1> SUFFICES ASSUME ConfigInit PROVE ConfigInv
  OBVIOUS
<1>1. PICK r \in [Options -> {0} \cup Values] :
        /\ cfg_file = [regular |-> r, autosave |-> NoOptions, safe |-> TRUE]
        /\ written = Defined(r)
  BY DEF ConfigInit
<1>2. r \in Settings /\ NoOptions \in Settings
  BY DEF Settings, Option, NoOptions
<1>3. written \in Settings
  BY <1>1, <1>2, DefinedIs
<1>4. cfg_file \in File
  BY <1>1, <1>2 DEF File
<1>5. ConfigTypes
  BY <1>2, <1>3, <1>4 DEF ConfigInit, ConfigTypes
<1>6. FileSays /\ TempSays
  BY <1>1 DEF ConfigInit, FileSays, TempSays
<1>7. SettingsSound
  BY <1>1 DEF ConfigInit, SettingsSound, SavedIsEffective, SettingsKept
<1> QED  BY <1>5, <1>6, <1>7 DEF ConfigInv

LEMMA ReadMainConfigInv == ConfigInv /\ ReadMainConfig => ConfigInv'
<1> SUFFICES ASSUME ConfigInv, ReadMainConfig PROVE ConfigInv'
  OBVIOUS
<1>1. UNCHANGED <<cfg_file, temp_file, backups, saving, saved, written, flushed>>
      /\ saving = "no" /\ printer = "down"
  BY DEF ReadMainConfig, history
<1>2. SettingsKept'
  BY <1>1 DEF ConfigInv, SettingsSound, SettingsKept
<1>3. FileSays' /\ TempSays'
  BY <1>1 DEF ConfigInv, FileSays, TempSays
<1>4. CASE cfg_file = NoFile
  <2>1. printer' = "failed" /\ autosave' = autosave
    BY <1>4 DEF ReadMainConfig, memory
  <2>2. ConfigTypes' /\ SavedIsEffective'
    BY <2>1, <1>1 DEF ConfigInv, ConfigTypes, SavedIsEffective
  <2> QED  BY <2>2, <1>2, <1>3 DEF ConfigInv, SettingsSound
<1>5. CASE cfg_file # NoFile
  <2> DEFINE regular == Defined(cfg_file.regular)
             auto == StripDuplicates(cfg_file.autosave, regular)
  <2>1. /\ printer' = "ready" /\ autosave' = auto
        /\ effective' = [opt \in Options |-> IF auto[opt] # 0 THEN auto[opt]
                                             ELSE regular[opt]]
    BY <1>5 DEF ReadMainConfig
  <2>2. cfg_file.autosave \in Settings /\ cfg_file.regular \in Settings
    BY <1>5 DEF ConfigInv, ConfigTypes, File
  <2>3. regular \in Settings /\ regular = written /\ cfg_file.autosave = saved
    BY <1>5, <2>2, DefinedIs DEF ConfigInv, FileSays
  <2> HIDE DEF regular
  <2>4. auto \in Settings
        /\ \A opt \in Options : auto[opt] = IF regular[opt] # 0 THEN 0
                                            ELSE cfg_file.autosave[opt]
    BY <2>2, <2>3, StripIs
  <2> HIDE DEF auto
  <2>5. ConfigTypes'
    BY <2>1, <2>4, <1>1 DEF ConfigInv, ConfigTypes
  <2>6. effective' = [opt \in Options |-> IF written[opt] # 0 THEN written[opt]
                                          ELSE saved[opt]]
    BY <2>1, <2>3, <2>4
  <2>7. SavedIsEffective'
    BY <2>6, <1>1 DEF SavedIsEffective
  <2> QED  BY <2>5, <2>7, <1>2, <1>3 DEF ConfigInv, SettingsSound
<1> QED  BY <1>4, <1>5

LEMMA SetOptionInv == ConfigInv /\ SetOption => ConfigInv'
<1> SUFFICES ASSUME ConfigInv, SetOption PROVE ConfigInv'
  OBVIOUS
<1>1. /\ UNCHANGED <<cfg_file, temp_file, backups, saving, printer, effective,
                    saved, written, flushed>>
      /\ saving = "no"
  BY DEF SetOption, history
<1>2. autosave' \in Settings
  BY DEF SetOption, ConfigInv, ConfigTypes, Settings, Option
<1>3. ConfigTypes'
  BY <1>1, <1>2 DEF ConfigInv, ConfigTypes
<1> QED  BY <1>1, <1>3 DEF ConfigInv, FileSays, TempSays, SettingsSound,
                           SavedIsEffective, SettingsKept

LEMMA SaveStartsInv == ConfigInv /\ SaveStarts => ConfigInv'
<1> SUFFICES ASSUME ConfigInv, SaveStarts PROVE ConfigInv'
  OBVIOUS
<1>1. /\ UNCHANGED <<cfg_file, backups, printer, autosave, effective,
                    saved, written, flushed>>
      /\ printer = "ready" /\ saving' = "written" /\ cfg_file # NoFile /\ ~Conflict
      /\ temp_file' = [regular |-> NewRegular, autosave |-> autosave, safe |-> FALSE]
  BY DEF SaveStarts, WriteTemp, history, memory
<1>2. /\ cfg_file.regular \in Settings /\ autosave \in Settings /\ written \in Settings
      /\ Defined(cfg_file.regular) = written
  BY <1>1 DEF ConfigInv, ConfigTypes, File, FileSays
<1>3. /\ NewRegular \in Settings
      /\ \A opt \in Options : NewRegular[opt] = IF autosave[opt] # 0 THEN 0
                                                ELSE cfg_file.regular[opt]
  BY <1>2, StripIs DEF NewRegular
<1>4. \A opt \in Options :
        Defined(NewRegular)[opt] = IF autosave[opt] # 0 THEN 0 ELSE written[opt]
  <2> TAKE opt \in Options
  <2>1. CASE autosave[opt] # 0
    BY <2>1, <1>1 DEF Conflict
  <2>2. CASE autosave[opt] = 0
    <3>1. NewRegular[opt] = cfg_file.regular[opt]
      BY <2>2, <1>3
    <3>2. Defined(NewRegular)[opt] = Defined(cfg_file.regular)[opt]
      BY <3>1, <1>2, <1>3, DefinedIs
    <3> QED  BY <3>2, <2>2, <1>2
  <2> QED  BY <2>1, <2>2
<1>5. Leaves(NewRegular)'
  <2>1. Defined(NewRegular) \in Settings
    BY <1>3, DefinedIs
  <2>2. Defined(NewRegular) = [opt \in Options |-> IF autosave[opt] # 0 THEN 0
                                                   ELSE written[opt]]
    BY <2>1, <1>4 DEF Settings
  <2>3. NewRegular' = NewRegular
    BY <1>1 DEF NewRegular
  <2> QED  BY <2>2, <2>3, <1>1 DEF Leaves, Defined
<1>6. temp_file' \in File
  BY <1>1, <1>2, <1>3 DEF File
<1>7. ConfigTypes'
  BY <1>1, <1>6 DEF ConfigInv, ConfigTypes
<1>8. TempSays'
  <2>1. temp_file'.autosave = autosave /\ temp_file'.regular = NewRegular
    BY <1>1
  <2>2. NewRegular' = NewRegular
    BY <1>1 DEF NewRegular
  <2> QED  BY <2>1, <2>2, <1>1, <1>5 DEF TempSays, Leaves, Defined
<1>9. FileSays' /\ SettingsSound'
  BY <1>1 DEF ConfigInv, FileSays, SettingsSound, SavedIsEffective, SettingsKept
<1> QED  BY <1>7, <1>8, <1>9 DEF ConfigInv

LEMMA RenamesInv == ConfigInv /\ (RenameOld \/ RenameNew) => ConfigInv'
<1>1. ASSUME ConfigInv, RenameOld PROVE ConfigInv'
  <2>1. /\ UNCHANGED <<temp_file, printer, autosave, effective, saved, written, flushed>>
        /\ saving = "written" /\ saving' = "renamed"
        /\ backups' = backups \cup {cfg_file} /\ cfg_file' = NoFile
    BY <1>1 DEF RenameOld, memory, history
  <2>2. ConfigTypes' /\ FileSays'
    BY <1>1, <2>1 DEF ConfigInv, ConfigTypes, FileSays
  <2>3. TempSays'
    BY <1>1, <2>1 DEF ConfigInv, TempSays, Leaves
  <2>4. SettingsSound'
    BY <1>1, <2>1 DEF ConfigInv, SettingsSound, SavedIsEffective, SettingsKept
  <2> QED  BY <2>2, <2>3, <2>4 DEF ConfigInv
<1>2. ASSUME ConfigInv, RenameNew PROVE ConfigInv'
  <2>1. /\ UNCHANGED <<backups, flushed>>
        /\ saving = "renamed" /\ saving' = "no" /\ printer' = "down"
        /\ autosave' = NoOptions /\ saved' = autosave
        /\ cfg_file' = temp_file /\ temp_file' = NoFile
        /\ written' = [opt \in Options |-> IF autosave[opt] # 0 THEN 0 ELSE written[opt]]
    BY <1>2 DEF RenameNew, GoesDown
  <2>2. /\ temp_file.autosave = autosave /\ cfg_file = NoFile
        /\ written' = Defined(temp_file.regular)
    BY <1>2, <2>1 DEF ConfigInv, TempSays, Leaves
  <2>3. NoOptions \in Settings /\ written' \in Settings
    BY <1>2, <2>1 DEF ConfigInv, ConfigTypes, Settings, NoOptions, Option
  <2>4. ConfigTypes' /\ TempSays'
    BY <1>2, <2>1, <2>3 DEF ConfigInv, ConfigTypes, TempSays
  <2>5. FileSays'
    BY <2>1, <2>2 DEF FileSays, Defined
  <2>6. SettingsSound'
    BY <1>2, <2>1, <2>2 DEF ConfigInv, SettingsSound, SavedIsEffective, SettingsKept, NoFile
  <2> QED  BY <2>4, <2>5, <2>6 DEF ConfigInv
<1> QED  BY <1>1, <1>2

LEMMA UserInv == ConfigInv /\ (EditFile \/ Restore) => ConfigInv'
<1>0. NoOptions \in Settings
  BY DEF NoOptions, Settings, Option
<1>1. ASSUME ConfigInv, EditFile PROVE ConfigInv'
  <2>1. PICK opt \in Options, v \in {0} \cup Values :
          cfg_file' = [cfg_file EXCEPT !.regular[opt] = v, !.safe = TRUE]
    BY <1>1 DEF EditFile
  <2>2. /\ UNCHANGED <<temp_file, backups, saving, saved>> /\ saving = "no"
        /\ printer' = "down" /\ autosave' = NoOptions /\ cfg_file # NoFile
        /\ flushed' = cfg_file' /\ written' = Defined(cfg_file'.regular)
    BY <1>1 DEF EditFile, GoesDown
  <2>3. /\ cfg_file' \in File /\ cfg_file'.safe
        /\ cfg_file'.autosave = cfg_file.autosave
    <3>1. cfg_file \in File
      BY <1>1, <2>2 DEF ConfigInv, ConfigTypes
    <3>2. [cfg_file.regular EXCEPT ![opt] = v] \in Settings
      BY <3>1 DEF File, Settings, Option
    <3>3. cfg_file' = [regular |-> [cfg_file.regular EXCEPT ![opt] = v],
                       autosave |-> cfg_file.autosave, safe |-> TRUE]
      BY <3>1, <2>1 DEF File
    <3> QED  BY <3>1, <3>2, <3>3 DEF File
  <2>4. written' \in Settings
    <3>1. cfg_file'.regular \in Settings
      BY <2>3 DEF File
    <3> QED  BY <3>1, <2>2, DefinedIs
  <2>5. ConfigTypes' /\ TempSays'
    BY <1>0, <1>1, <2>2, <2>3, <2>4 DEF ConfigInv, ConfigTypes, TempSays
  <2>6. FileSays'
    BY <1>1, <2>2, <2>3 DEF ConfigInv, FileSays, Defined
  <2>7. SettingsSound'
    BY <2>2, <2>3 DEF SettingsSound, SavedIsEffective, SettingsKept
  <2> QED  BY <2>5, <2>6, <2>7 DEF ConfigInv
<1>2. ASSUME ConfigInv, Restore PROVE ConfigInv'
  <2>1. PICK b \in backups :
          /\ b.safe /\ cfg_file' = b /\ flushed' = b
          /\ written' = Defined(b.regular) /\ saved' = b.autosave
    BY <1>2 DEF Restore
  <2>2. UNCHANGED <<temp_file, backups, saving, autosave>> /\ printer = "failed"
        /\ printer' = "down"
    BY <1>2 DEF Restore, memory
  <2>3. b \in File
    BY <1>2, <2>1 DEF ConfigInv, ConfigTypes, NoFile
  <2>4. written' \in Settings /\ saved' \in Settings
    <3>1. b.regular \in Settings /\ b.autosave \in Settings
      BY <2>3 DEF File
    <3> QED  BY <3>1, <2>1, DefinedIs
  <2>5. saving = "no"
    BY <1>2, <2>2 DEF ConfigInv, TempSays
  <2>6. ConfigTypes' /\ TempSays'
    BY <1>2, <2>1, <2>2, <2>3, <2>4, <2>5 DEF ConfigInv, ConfigTypes, TempSays
  <2>7. FileSays'
    BY <2>1 DEF FileSays, Defined
  <2>8. SettingsSound'
    BY <2>1, <2>2 DEF SettingsSound, SavedIsEffective, SettingsKept
  <2> QED  BY <2>6, <2>7, <2>8 DEF ConfigInv
<1> QED  BY <1>1, <1>2

LEMMA DiskInv == ConfigInv /\ (KernelFlushes \/ PowerFailure) => ConfigInv'
<1>0. NoOptions \in Settings
  BY DEF NoOptions, Settings, Option
<1>1. ASSUME ConfigInv, KernelFlushes PROVE ConfigInv'
  <2>1. /\ UNCHANGED <<saving, printer, autosave, effective, saved, written>>
        /\ cfg_file' = Safe(cfg_file) /\ temp_file' = Safe(temp_file)
        /\ backups' = {Safe(b) : b \in backups}
        /\ flushed' = IF cfg_file = NoFile THEN flushed ELSE cfg_file'
    BY <1>1 DEF KernelFlushes, memory
  <2>2. \A f \in backups \cup {cfg_file, temp_file} :
          /\ Safe(f) \in File \/ Safe(f) = NoFile
          /\ Safe(f).regular = f.regular /\ Safe(f).autosave = f.autosave
          /\ f.safe => Safe(f) = f
          /\ Safe(f) # NoFile => f # NoFile /\ Safe(f).safe
          /\ f = NoFile => Safe(f) = NoFile
    BY <1>1, SafeIs DEF ConfigInv, ConfigTypes
  <2>3. ConfigTypes'
    BY <1>1, <2>1, <2>2 DEF ConfigInv, ConfigTypes
  <2>4. FileSays'
    BY <1>1, <2>1, <2>2 DEF ConfigInv, FileSays, Defined
  <2>5. TempSays'
    BY <1>1, <2>1, <2>2 DEF ConfigInv, TempSays, Leaves, Defined
  <2>6. SavedIsEffective'
    BY <1>1, <2>1 DEF ConfigInv, SettingsSound, SavedIsEffective
  <2>7. SettingsKept'
    <3>1. PICK f \in backups \cup {cfg_file} : f.safe /\ f = flushed
      BY <1>1 DEF ConfigInv, SettingsSound, SettingsKept
    <3>2. CASE cfg_file = NoFile
      <4>1. f \in backups /\ Safe(f) = f /\ flushed' = f
        BY <3>1, <3>2, <2>1, <2>2 DEF NoFile
      <4> QED  BY <4>1, <3>1, <2>1 DEF SettingsKept
    <3>3. CASE cfg_file # NoFile
      <4>1. Safe(cfg_file).safe
        BY <3>3, <1>1 DEF ConfigInv, ConfigTypes, Safe, File
      <4> QED  BY <4>1, <3>3, <2>1 DEF SettingsKept
    <3> QED  BY <3>2, <3>3
  <2> QED  BY <2>3, <2>4, <2>5, <2>6, <2>7 DEF ConfigInv, SettingsSound
<1>2. ASSUME ConfigInv, PowerFailure PROVE ConfigInv'
  <2>1. /\ UNCHANGED <<saved, written, flushed>>
        /\ saving' = "no" /\ printer' = "down" /\ autosave' = NoOptions
        /\ cfg_file' = AfterFailure(cfg_file) /\ temp_file' = AfterFailure(temp_file)
        /\ backups' = {AfterFailure(b) : b \in backups} \ {NoFile}
    BY <1>2 DEF PowerFailure, GoesDown, history
  <2>2. ConfigTypes'
    BY <1>0, <1>2, <2>1 DEF ConfigInv, ConfigTypes, AfterFailure
  <2>3. FileSays' /\ TempSays'
    BY <1>2, <2>1 DEF ConfigInv, FileSays, TempSays, AfterFailure, Defined
  <2>4. SettingsSound'
    <3>1. PICK f \in backups \cup {cfg_file} : f.safe /\ f = flushed
      BY <1>2 DEF ConfigInv, SettingsSound, SettingsKept
    <3>2. AfterFailure(f) = f /\ f # NoFile
      BY <3>1 DEF AfterFailure, NoFile
    <3>3. f \in backups' \cup {cfg_file'}
      BY <3>1, <3>2, <2>1
    <3> QED  BY <3>1, <3>3, <2>1 DEF SettingsSound, SavedIsEffective, SettingsKept
  <2> QED  BY <2>2, <2>3, <2>4 DEF ConfigInv
<1> QED  BY <1>1, <1>2

LEMMA ConfigInvStep == ConfigInv /\ [ConfigNext]_configVars => ConfigInv'
<1> SUFFICES ASSUME ConfigInv, [ConfigNext]_configVars PROVE ConfigInv'
  OBVIOUS
<1>1. CASE UNCHANGED configVars
  BY <1>1 DEF configVars, ConfigInv, ConfigTypes, FileSays, TempSays, Leaves, Defined,
              SettingsSound, SavedIsEffective, SettingsKept
<1> QED  BY <1>1, ReadMainConfigInv, SetOptionInv, SaveStartsInv, RenamesInv, UserInv,
            DiskInv DEF ConfigNext

-----------------------------------------------------------------------------
(* The kernel's partitions.                                                *)

Img == [type : {""} \cup ImgTypes \cup {"other"}, name : Nat, size : Nat, md5 : Nat]

OtaTypes ==
  /\ ota_stage \in {"off", "parse", "next", "get", "wait", "last", "finish", "ended"}
  /\ section \in Nat /\ img \in Img /\ ota \in [ImgTypes -> Img]
  /\ piece \in Nat /\ at_img \in {""} \cup ImgTypes /\ types_wanted \subseteq ImgTypes
  /\ slot \in [ImgTypes -> [written : Nat, whole : BOOLEAN]]

\* The values of the section at hand carry its number.
FieldsOf ==
  /\ \A k \in ImgKeys : img[k] \in {0, section}
  /\ img.type = "" => \A k \in ImgKeys : img[k] = 0

\* The pieces in /tmp/ota are checked ones, and those that the script or the
\* writer is at.
PiecesAt ==
  /\ \A n \in DOMAIN tmp : tmp[n] = "whole"
  /\ ota_stage \in {"off", "parse", "next", "finish"} => DOMAIN tmp = {}
  /\ ota_stage = "get" => DOMAIN tmp = {n \in {piece - 1} : piece > 0}
  /\ ota_stage = "wait" => DOMAIN tmp = {piece - 1, piece}
  /\ ota_stage = "last" => DOMAIN tmp = {piece}
  /\ \E a, b : DOMAIN tmp \subseteq {a, b}

\* What the marks in /tmp/ota say.
MarksTell ==
  /\ files # {} \/ writer = "runs" => at_img \in ImgTypes
  /\ \A n : <<"done", n>> \in files => n \in Nat /\ n < slot[at_img].written
  /\ \A n \in Nat : <<"ok", n>> \in files /\ slot[at_img].written <= n => n \in DOMAIN tmp
  /\ <<"image ok", 0>> \in files => writer = "none" /\ slot[at_img].written = Pieces
  /\ ota_stage \in {"off", "parse", "next"} => writer = "none"
  /\ ota_stage \in {"off", "parse"} => files = {}

\* The images that are done with are whole, and nobody writes to them any more.
ImagesDone ==
  /\ \A t \in ImgTypes : slot[t].whole = TRUE
  /\ ota_stage \in {"next", "get", "wait", "last", "finish"} =>
       /\ next_boot = "old" /\ types_wanted = {t \in ImgTypes : ota[t] # NoImg}
       /\ \A t \in types_wanted \ After(at_img) :
            slot[t].written = Pieces \/ (t = at_img /\ ota_stage # "next")
  /\ ota_stage = "parse" => next_boot = "old"
  /\ ota_stage \in {"get", "wait", "last", "finish"} => at_img \in ImgTypes
  /\ next_boot \in {"old", "new"}
  /\ next_boot = "new" => writer = "none"
  /\ writer = "runs" => at_img \in begun

OtaInv ==
  OtaTypes /\ FieldsOf /\ PiecesAt /\ MarksTell /\ ImagesDone /\ BootsWhole /\ OwnSection

LEMMA NoImgIs ==
  NoImg \in Img /\ NoImg.type = "" /\ NoImg.name = 0 /\ NoImg.size = 0 /\ NoImg.md5 = 0
BY DEF NoImg, Img

LEMMA OtaInvInit == OtaInit => OtaInv
<1> SUFFICES ASSUME OtaInit PROVE OtaInv
  OBVIOUS
<1> USE DEF OtaInit
<1>1. OtaTypes /\ FieldsOf /\ OwnSection
  BY NoImgIs DEF OtaTypes, FieldsOf, OwnSection, ImgKeys, Untouched
<1>e. DOMAIN tmp = {} /\ \A n \in DOMAIN tmp : FALSE
  <2> HIDE DEF OtaInit
  <2>1. tmp = << >>
    BY DEF OtaInit
  <2> QED  BY <2>1
<1>p. PiecesAt
  <2> HIDE DEF OtaInit
  <2>1. ota_stage = "off"
    BY DEF OtaInit
  <2> QED  BY <1>e, <2>1 DEF PiecesAt
<1>2. MarksTell
  BY DEF MarksTell
<1>3. ImagesDone /\ BootsWhole
  BY DEF ImagesDone, BootsWhole, Untouched
<1> HIDE DEF OtaInit
<1> QED  BY <1>1, <1>2, <1>p, <1>3 DEF OtaInv

LEMMA GiveUpInv == OtaInv /\ GiveUp => OtaInv'
<1> SUFFICES ASSUME OtaInv, GiveUp PROVE OtaInv'
  OBVIOUS
<1>1. ota_stage' = "ended"
      /\ UNCHANGED <<img, ota, section, at_img, piece, tmp, files, writer, slot,
                     next_boot, begun, types_wanted>>
  BY DEF GiveUp, parseState, copyState, diskState
<1> QED  BY <1>1 DEF OtaInv, OtaTypes, FieldsOf, PiecesAt, MarksTell, ImagesDone,
                     BootsWhole, Untouched, Complete, OwnSection

\* Steps of the script that reads the file.
LEMMA ParseKeeps ==
  ASSUME OtaInv, ota_stage = "parse", ota_stage' = "parse",
         UNCHANGED <<at_img, piece, tmp, files, writer, slot, next_boot, begun, types_wanted>>,
         section' \in Nat, img' \in Img, ota' \in [ImgTypes -> Img],
         FieldsOf', OwnSection'
  PROVE  OtaInv'
<1>1. OtaTypes'
  BY DEF OtaInv, OtaTypes
<1>2. PiecesAt' /\ MarksTell'
  BY DEF OtaInv, PiecesAt, MarksTell
<1>3. ImagesDone' /\ BootsWhole'
  BY DEF OtaInv, ImagesDone, BootsWhole, Untouched, Complete
<1> QED  BY <1>1, <1>2, <1>3 DEF OtaInv

\* A section that is saved is one section.
LEMMA SavedSection ==
  ASSUME OtaInv, Saves
  PROVE  /\ img.name = img.size /\ img.size = img.md5 /\ img.type \in ImgTypes
         /\ [ota EXCEPT ![img.type] = img] \in [ImgTypes -> Img]
         /\ \A t \in ImgTypes : LET o == [ota EXCEPT ![img.type] = img][t]
                               IN o.name = o.size /\ o.size = o.md5
<1>1. img.name = section /\ img.size = section /\ img.md5 = section
  BY DEF OtaInv, FieldsOf, Saves, ImgKeys
<1>2. img.type \in ImgTypes /\ ota \in [ImgTypes -> Img] /\ img \in Img
  BY DEF Saves, OtaInv, OtaTypes
<1> QED  BY <1>1, <1>2 DEF OtaInv, OwnSection

LEMMA BeginInv == OtaInv /\ Begin => OtaInv'
<1> SUFFICES ASSUME OtaInv, Begin PROVE OtaInv'
  OBVIOUS
<1>1. /\ ota_stage = "off" /\ next_boot = "old" /\ ota_stage' = "parse" /\ img' = NoImg
      /\ ota' = [t \in ImgTypes |-> NoImg] /\ section' = 0 /\ tmp' = << >> /\ files' = {}
      /\ UNCHANGED <<at_img, piece, writer, slot, next_boot, begun, types_wanted>>
  BY DEF Begin, diskState
<1>2. OtaTypes' /\ FieldsOf' /\ OwnSection'
  BY <1>1, NoImgIs DEF OtaInv, OtaTypes, FieldsOf, OwnSection, ImgKeys
<1>p. PiecesAt'
  <2>1. DOMAIN tmp' = {} /\ \A n \in DOMAIN tmp' : FALSE
    BY <1>1
  <2> QED  BY <1>1, <2>1 DEF PiecesAt
<1>3. MarksTell'
  BY <1>1 DEF OtaInv, MarksTell
<1>4. ImagesDone' /\ BootsWhole'
  BY <1>1 DEF OtaInv, ImagesDone, BootsWhole, Untouched, Complete
<1> QED  BY <1>2, <1>p, <1>3, <1>4 DEF OtaInv

LEMMA ParseTypeInv == OtaInv /\ ParseType => OtaInv'
<1> SUFFICES ASSUME OtaInv, ParseType, ~GiveUp PROVE OtaInv'
  BY GiveUpInv
<1>1. PICK t \in ImgTypes \cup {"other"} :
        /\ img.type = "" \/ Saves
        /\ img' = [(IF img.type = "" THEN img ELSE Cleared) EXCEPT !.type = t]
        /\ ota' = IF img.type = "" THEN ota ELSE [ota EXCEPT ![img.type] = img]
        /\ section' = section + 1
        /\ UNCHANGED <<ota_stage, copyState, writer, diskState, types_wanted>>
  BY DEF ParseType
<1>2. /\ UNCHANGED <<ota_stage, at_img, piece, tmp, files, writer, slot, next_boot, begun,
                     types_wanted>>
      /\ ota_stage = "parse"
  BY <1>1 DEF ParseType, copyState, diskState
<1>3. img \in Img /\ section \in Nat
  BY DEF OtaInv, OtaTypes
<1>4. img'.name = 0 /\ img'.size = 0 /\ img'.md5 = 0 /\ img'.type = t /\ img' \in Img
  <2>1. CASE img.type = ""
    <3>1. img.name = 0 /\ img.size = 0 /\ img.md5 = 0
      BY <2>1 DEF OtaInv, FieldsOf, ImgKeys
    <3>2. img' = [img EXCEPT !.type = t]
      BY <2>1, <1>1
    <3> QED  BY <3>1, <3>2, <1>3 DEF Img
  <2>2. CASE img.type # ""
    BY <2>2, <1>1, NoImgIs DEF Cleared, Img
  <2> QED  BY <2>1, <2>2
<1>5. FieldsOf'
  <2>1. t # ""
    BY DEF ImgTypes
  <2> QED  BY <2>1, <1>4 DEF FieldsOf, ImgKeys
<1>6. OwnSection' /\ ota' \in [ImgTypes -> Img]
  <2>1. CASE img.type = ""
    BY <2>1, <1>1 DEF OtaInv, OtaTypes, OwnSection
  <2>2. CASE img.type # ""
    BY <2>2, <1>1, SavedSection DEF OwnSection
  <2> QED  BY <2>1, <2>2
<1>7. section' \in Nat
  <2>1. section' = section + 1
    BY <1>1
  <2> QED  BY <2>1, <1>3
<1> QED  BY <1>2, <1>4, <1>5, <1>6, <1>7, ParseKeeps

LEMMA ParseFieldInv == OtaInv /\ ParseField => OtaInv'
<1> SUFFICES ASSUME OtaInv, ParseField, ~GiveUp PROVE OtaInv'
  BY GiveUpInv
<1>1. PICK k \in ImgKeys :
        /\ img.type # "" /\ img' = [img EXCEPT ![k] = section]
        /\ UNCHANGED <<ota_stage, ota, section, copyState, writer, diskState, types_wanted>>
  BY DEF ParseField
<1>2. /\ UNCHANGED <<ota_stage, ota, section, at_img, piece, tmp, files, writer, slot,
                     next_boot, begun, types_wanted>>
      /\ ota_stage = "parse"
  BY <1>1 DEF ParseField, copyState, diskState
<1>3. img \in Img /\ section \in Nat /\ ota \in [ImgTypes -> Img]
  BY DEF OtaInv, OtaTypes
<1>4. img' \in Img /\ img'.type = img.type
      /\ \A j \in ImgKeys : img'[j] \in {img[j], section}
  BY <1>1, <1>3 DEF Img, ImgKeys
<1>5. FieldsOf' /\ OwnSection'
  BY <1>1, <1>2, <1>4 DEF OtaInv, FieldsOf, OwnSection
<1> QED  BY <1>2, <1>3, <1>4, <1>5, ParseKeeps

LEMMA ParseEndInv == OtaInv /\ ParseEnd => OtaInv'
<1> SUFFICES ASSUME OtaInv, ParseEnd, ~GiveUp PROVE OtaInv'
  BY GiveUpInv
<1>1. /\ ota_stage = "parse"
      /\ ota' = IF img.type = "" THEN ota ELSE [ota EXCEPT ![img.type] = img]
      /\ img' = NoImg
      /\ types_wanted' = {t \in ImgTypes : ota'[t] # NoImg}
      /\ ota_stage' = "next" /\ at_img' = ""
      /\ UNCHANGED <<section, piece, tmp, files, writer, slot, next_boot, begun>>
  BY DEF ParseEnd, diskState
<1>p. ota_stage = "parse" /\ (img.type # "" => Saves)
  BY DEF ParseEnd
<1>2. OwnSection' /\ ota' \in [ImgTypes -> Img]
  <2>1. CASE img.type = ""
    BY <2>1, <1>1 DEF OtaInv, OtaTypes, OwnSection
  <2>2. CASE img.type # ""
    BY <2>2, <1>1, <1>p, SavedSection DEF OwnSection
  <2> QED  BY <2>1, <2>2
<1>3. OtaTypes' /\ FieldsOf'
  BY <1>1, <1>2, NoImgIs DEF OtaInv, OtaTypes, FieldsOf, ImgKeys
<1>4. PiecesAt'
  BY <1>1, <1>p DEF OtaInv, PiecesAt
<1>5. files = {}
  BY <1>p DEF OtaInv, MarksTell
<1>6. MarksTell'
  BY <1>1, <1>p, <1>5 DEF OtaInv, MarksTell
<1>7. ImagesDone' /\ BootsWhole'
  <2>1. types_wanted' \ After("") = {}
    BY <1>1 DEF After, ImgTypes
  <2>2. writer = "none" /\ next_boot = "old"
    BY <1>p DEF OtaInv, MarksTell, ImagesDone
  <2>3. ImagesDone'
    BY <2>1, <2>2, <1>1 DEF OtaInv, ImagesDone
  <2>4. BootsWhole'
    BY <2>2, <1>1 DEF OtaInv, BootsWhole, Untouched, Complete
  <2> QED  BY <2>3, <2>4
<1> QED  BY <1>2, <1>3, <1>4, <1>6, <1>7 DEF OtaInv

LEMMA StartImageInv == OtaInv /\ StartImage => OtaInv'
<1> SUFFICES ASSUME OtaInv, StartImage PROVE OtaInv'
  OBVIOUS
<1>1. PICK t \in Remaining :
        /\ \A u \in Remaining : u = t \/ u \in After(t)
        /\ at_img' = t
        /\ slot' = [slot EXCEPT ![t] = [written |-> 0, whole |-> TRUE]]
        /\ begun' = begun \cup {t}
  BY DEF StartImage, Untouched
<1>2. /\ ota_stage = "next" /\ ota_stage' = "get" /\ piece' = 0 /\ files' = {}
      /\ writer' = "runs"
      /\ UNCHANGED <<img, ota, section, tmp, next_boot, types_wanted>>
  BY DEF StartImage, parseState
<1>3. t \in ImgTypes
  BY <1>1 DEF Remaining, After, ImgTypes
<1>4. OtaTypes' /\ FieldsOf' /\ OwnSection'
  BY <1>1, <1>2, <1>3 DEF OtaInv, OtaTypes, FieldsOf, OwnSection
<1>5. PiecesAt'
  <2>1. DOMAIN tmp = {} /\ DOMAIN tmp' = {}
    BY <1>2 DEF OtaInv, PiecesAt
  <2>2. {n \in {piece' - 1} : piece' > 0} = {}
    BY <1>2
  <2> QED  BY <2>1, <2>2, <1>2 DEF PiecesAt
<1>6. MarksTell'
  BY <1>1, <1>2, <1>3 DEF MarksTell
<1>7. slot \in [ImgTypes -> [written : Nat, whole : BOOLEAN]] /\ slot'[t].whole = TRUE
      /\ \A u \in ImgTypes \ {t} : slot'[u] = slot[u]
  BY <1>1, <1>3 DEF OtaInv, OtaTypes
<1>8. ImagesDone'
  <2>1. \A u \in types_wanted \ After(t) : u = t \/ slot[u].written = Pieces
    <3> SUFFICES ASSUME NEW u \in types_wanted \ After(t), u # t
                 PROVE  slot[u].written = Pieces
      OBVIOUS
    <3>1. u \notin Remaining
      BY <1>1
    <3>2. types_wanted = {x \in ImgTypes : ota[x] # NoImg}
      BY <1>2 DEF OtaInv, ImagesDone
    <3>3. u \notin After(at_img)
      BY <3>1, <3>2 DEF Remaining
    <3> QED  BY <3>3, <1>2 DEF OtaInv, ImagesDone
  <2>2. \A u \in types_wanted' \ After(at_img') :
          slot'[u].written = Pieces \/ (u = at_img' /\ ota_stage' # "next")
    <3>1. types_wanted \subseteq ImgTypes
      BY DEF OtaInv, OtaTypes
    <3> QED  BY <2>1, <3>1, <1>1, <1>2, <1>7
  <2>3. \A u \in ImgTypes : slot'[u].whole = TRUE
    BY <1>7 DEF OtaInv, ImagesDone
  <2>4. next_boot = "old" /\ types_wanted = {x \in ImgTypes : ota[x] # NoImg}
    BY <1>2 DEF OtaInv, ImagesDone
  <2> QED  BY <2>2, <2>3, <2>4, <1>1, <1>2, <1>3 DEF ImagesDone
<1>9. BootsWhole'
  <2>1. next_boot' # "new"
    BY <1>2 DEF OtaInv, ImagesDone
  <2>2. \A u \in ImgTypes \ begun' : slot'[u] \in {Untouched, Complete}
    BY <1>1, <1>7 DEF OtaInv, BootsWhole
  <2> QED  BY <2>1, <2>2 DEF BootsWhole, Untouched, Complete
<1> QED  BY <1>4, <1>5, <1>6, <1>8, <1>9 DEF OtaInv

\* Steps of the script that touch neither the file nor the partitions.
LEMMA CopyKeeps ==
  ASSUME OtaInv, ota_stage \in {"get", "wait", "last", "finish"},
         ota_stage' \in {"get", "wait", "last", "finish", "ended"},
         UNCHANGED <<img, ota, section, at_img, writer, slot, next_boot, begun, types_wanted>>,
         piece' \in Nat, PiecesAt', MarksTell'
  PROVE  OtaInv'
<1>1. OtaTypes' /\ FieldsOf' /\ OwnSection'
  BY DEF OtaInv, OtaTypes, FieldsOf, OwnSection
<1>2. ImagesDone' /\ BootsWhole'
  BY DEF OtaInv, ImagesDone, BootsWhole, Untouched, Complete
<1> QED  BY <1>1, <1>2 DEF OtaInv

LEMMA QuitsInv ==
  ASSUME OtaInv, Quits, ota_stage \in {"get", "wait", "last"} PROVE OtaInv'
<1>1. /\ ota_stage' = "ended" /\ files' = files \cup {<<"quit", 0>>}
      /\ UNCHANGED <<img, ota, section, at_img, piece, tmp, writer, slot, next_boot, begun,
                     types_wanted>>
  BY DEF Quits, parseState, diskState
<1>2. piece' \in Nat /\ PiecesAt'
  BY <1>1 DEF OtaInv, OtaTypes, PiecesAt
<1>3. MarksTell'
  BY <1>1 DEF OtaInv, MarksTell, ImagesDone
<1> QED  BY <1>1, <1>2, <1>3, CopyKeeps

LEMMA GetPieceInv == OtaInv /\ GetPiece => OtaInv'
<1> SUFFICES ASSUME OtaInv, GetPiece PROVE OtaInv'
  OBVIOUS
<1>0. ota_stage = "get"
  BY DEF GetPiece
<1>1. CASE Quits
  BY <1>0, <1>1, QuitsInv
<1>2. CASE ~Quits
  <2>1. /\ tmp' = [n \in DOMAIN tmp \cup {piece} |-> IF n = piece THEN "whole" ELSE tmp[n]]
        /\ files' = files \cup {<<"ok", piece>>}
        /\ ota_stage' = IF piece > 0 THEN "wait"
                        ELSE IF Pieces = 1 THEN "last" ELSE "get"
        /\ piece' = IF ota_stage' = "get" THEN piece + 1 ELSE piece
        /\ UNCHANGED <<img, ota, section, at_img, writer, slot, next_boot, begun, types_wanted>>
    BY <1>2 DEF GetPiece, PieceGood, parseState, diskState
  <2>2. piece \in Nat /\ DOMAIN tmp = {n \in {piece - 1} : piece > 0}
        /\ \A n \in DOMAIN tmp : tmp[n] = "whole"
    BY <1>0 DEF OtaInv, OtaTypes, PiecesAt
  <2>3. DOMAIN tmp' = DOMAIN tmp \cup {piece} /\ \A n \in DOMAIN tmp' : tmp'[n] = "whole"
    BY <2>1, <2>2
  <2>4. MarksTell'
    <3>1. files' # {} \/ writer' = "runs" => at_img' \in ImgTypes
      BY <1>0, <2>1 DEF OtaInv, ImagesDone
    <3>2. \A n : <<"done", n>> \in files' => n \in Nat /\ n < slot'[at_img'].written
      BY <2>1 DEF OtaInv, MarksTell
    <3>3. \A n \in Nat : <<"ok", n>> \in files' /\ slot'[at_img'].written <= n
                           => n \in DOMAIN tmp'
      BY <2>1, <2>3 DEF OtaInv, MarksTell
    <3>4. <<"image ok", 0>> \in files' => writer' = "none" /\ slot'[at_img'].written = Pieces
      BY <2>1 DEF OtaInv, MarksTell
    <3> QED  BY <3>1, <3>2, <3>3, <3>4, <2>1 DEF MarksTell
  <2>5. piece' \in Nat /\ PiecesAt'
    <3>1. CASE piece > 0
      <4>1. ota_stage' = "wait" /\ piece' = piece /\ DOMAIN tmp' = {piece - 1, piece}
        BY <3>1, <2>1, <2>2, <2>3
      <4> QED  BY <4>1, <2>2, <2>3 DEF PiecesAt
    <3>2. CASE piece = 0
      <4>1. DOMAIN tmp' = {0}
        BY <3>2, <2>2, <2>3
      <4>2. CASE Pieces = 1
        <5>1. ota_stage' = "last" /\ piece' = 0
          BY <3>2, <4>2, <2>1
        <5> QED  BY <5>1, <4>1, <2>3 DEF PiecesAt
      <4>3. CASE Pieces # 1
        <5>1. ota_stage' = "get" /\ piece' = 1 /\ {n \in {piece' - 1} : piece' > 0} = {0}
          BY <3>2, <4>3, <2>1
        <5> QED  BY <5>1, <4>1, <2>3 DEF PiecesAt
      <4> QED  BY <4>2, <4>3
    <3> QED  BY <3>1, <3>2, <2>2
  <2>6. ota_stage' \in {"get", "wait", "last", "finish", "ended"}
    BY <2>1
  <2> QED  BY <1>0, <2>1, <2>4, <2>5, <2>6, CopyKeeps
<1> QED  BY <1>1, <1>2

LEMMA PieceDoneInv == OtaInv /\ PieceDone => OtaInv'
<1> SUFFICES ASSUME OtaInv, PieceDone PROVE OtaInv'
  OBVIOUS
<1>0. ota_stage \in {"wait", "last"}
  BY DEF PieceDone
<1>1. CASE Quits
  BY <1>0, <1>1, QuitsInv
<1>2. CASE ~Quits
  <2>1. /\ <<"done", Awaited>> \in files
        /\ tmp' = [n \in DOMAIN tmp \ {Awaited} |-> tmp[n]]
        /\ ota_stage' = IF ota_stage = "last" THEN "finish"
                        ELSE IF piece + 1 = Pieces THEN "last" ELSE "get"
        /\ piece' = IF ota_stage' = "get" THEN piece + 1 ELSE piece
        /\ UNCHANGED <<img, ota, section, at_img, files, writer, slot, next_boot, begun,
                       types_wanted>>
    BY <1>2 DEF PieceDone, parseState, diskState
  <2>2. piece \in Nat /\ \A n \in DOMAIN tmp : tmp[n] = "whole"
    BY DEF OtaInv, OtaTypes, PiecesAt
  <2>3. DOMAIN tmp' = DOMAIN tmp \ {Awaited} /\ \A n \in DOMAIN tmp' : tmp'[n] = "whole"
    BY <2>1, <2>2
  <2>4. MarksTell'
    <3>1. Awaited < slot[at_img].written /\ slot[at_img].written \in Nat
      BY <2>1 DEF OtaInv, MarksTell, OtaTypes
    <3>2. Awaited \in Int
      BY <2>2 DEF Awaited
    <3>3. \A n \in Nat : <<"ok", n>> \in files /\ slot[at_img].written <= n
                           => n \in DOMAIN tmp /\ n # Awaited
      <4> DEFINE w == slot[at_img].written
      <4>1. \A n \in Nat : <<"ok", n>> \in files /\ w <= n => n \in DOMAIN tmp
        BY DEF OtaInv, MarksTell
      <4>2. \A n \in Nat : w <= n => n # Awaited
        <5> HIDE DEF Awaited, w
        <5> QED  BY <3>1, <3>2 DEF w
      <4> QED  BY <4>1, <4>2
    <3>4. \A n \in Nat : <<"ok", n>> \in files' /\ slot'[at_img'].written <= n
                           => n \in DOMAIN tmp'
      BY <3>3, <2>1, <2>3
    <3>5. ota_stage' \notin {"off", "parse", "next"}
      BY <1>0, <2>1
    <3> HIDE DEF Awaited
    <3> QED  BY <3>4, <3>5, <2>1 DEF OtaInv, MarksTell
  <2>5. piece' \in Nat /\ PiecesAt'
    <3>1. CASE ota_stage = "last"
      <4>0. ota_stage' = "finish"
        BY <3>1, <2>1
      <4>1. ota_stage' = "finish" /\ piece' = piece /\ Awaited = piece
        BY <3>1, <4>0, <2>1 DEF Awaited
      <4>2. DOMAIN tmp' = {}
        BY <3>1, <4>1, <2>3 DEF OtaInv, PiecesAt
      <4> QED  BY <4>1, <4>2, <2>2 DEF PiecesAt
    <3>2. CASE ota_stage = "wait"
      <4>1. Awaited = piece - 1 /\ DOMAIN tmp = {piece - 1, piece}
        BY <3>2 DEF Awaited, OtaInv, PiecesAt
      <4>2. DOMAIN tmp' = {piece}
        BY <4>1, <2>2, <2>3
      <4>3. CASE piece + 1 = Pieces
        <5>1. ota_stage' = "last" /\ piece' = piece
          BY <3>2, <4>3, <2>1
        <5> QED  BY <5>1, <4>2, <2>2, <2>3 DEF PiecesAt
      <4>4. CASE piece + 1 # Pieces
        <5>1. ota_stage' = "get" /\ piece' = piece + 1
          BY <3>2, <4>4, <2>1
        <5>2. piece' \in Nat /\ {n \in {piece' - 1} : piece' > 0} = {piece}
          BY <5>1, <2>2
        <5> QED  BY <5>1, <5>2, <4>2, <2>3 DEF PiecesAt
      <4> QED  BY <4>3, <4>4
    <3> QED  BY <3>1, <3>2, <1>0
  <2>6. ota_stage' \in {"get", "wait", "last", "finish", "ended"}
    BY <1>0, <2>1
  <2> QED  BY <1>0, <2>1, <2>4, <2>5, <2>6, CopyKeeps
<1> QED  BY <1>1, <1>2

LEMMA ImageDoneInv == OtaInv /\ ImageDone => OtaInv'
<1> SUFFICES ASSUME OtaInv, ImageDone, ~GiveUp PROVE OtaInv'
  BY GiveUpInv
<1>1. /\ ota_stage = "finish" /\ <<"image ok", 0>> \in files /\ ota_stage' = "next"
      /\ UNCHANGED <<img, ota, section, at_img, piece, tmp, files, writer, slot,
                     next_boot, types_wanted>>
      /\ begun' = begun \ {at_img}
  BY DEF ImageDone, parseState, copyState, diskState
<1>2. OtaTypes' /\ FieldsOf' /\ OwnSection'
  BY <1>1 DEF OtaInv, OtaTypes, FieldsOf, OwnSection
<1>3. PiecesAt' /\ MarksTell'
  BY <1>1 DEF OtaInv, PiecesAt, MarksTell
<1>4. slot[at_img].written = Pieces
  BY <1>1 DEF OtaInv, MarksTell
<1>5. ImagesDone'
  <2>1. writer = "none"
    BY <1>1 DEF OtaInv, MarksTell
  <2> QED  BY <2>1, <1>1, <1>4 DEF OtaInv, ImagesDone, After
<1>6. BootsWhole'
  <2>1. at_img \in ImgTypes => slot[at_img] = Complete
    <3>1. at_img \in ImgTypes => slot[at_img].whole = TRUE
      BY DEF OtaInv, ImagesDone
    <3> QED  BY <3>1, <1>4 DEF OtaInv, OtaTypes, Complete
  <2>2. \A t \in ImgTypes \ begun' : slot'[t] \in {Untouched, Complete}
    BY <2>1, <1>1 DEF OtaInv, BootsWhole
  <2>3. next_boot' # "new"
    BY <1>1 DEF OtaInv, ImagesDone
  <2> QED  BY <2>2, <2>3 DEF BootsWhole, Untouched, Complete
<1> QED  BY <1>2, <1>3, <1>5, <1>6 DEF OtaInv

LEMMA SuccessInv == OtaInv /\ Success => OtaInv'
<1> SUFFICES ASSUME OtaInv, Success PROVE OtaInv'
  OBVIOUS
<1>1. /\ ota_stage = "next" /\ Remaining = {} /\ ota_stage' = "ended"
      /\ next_boot' \in {next_boot, "new"}
      /\ UNCHANGED <<img, ota, section, at_img, piece, tmp, files, writer, slot,
                     begun, types_wanted>>
  BY DEF Success, parseState, copyState
<1>2. OtaTypes' /\ FieldsOf' /\ OwnSection'
  BY <1>1 DEF OtaInv, OtaTypes, FieldsOf, OwnSection
<1>3. PiecesAt' /\ MarksTell'
  BY <1>1 DEF OtaInv, PiecesAt, MarksTell
<1>4. ImagesDone'
  BY <1>1 DEF OtaInv, ImagesDone, MarksTell
<1>5. BootsWhole'
  <2>1. types_wanted = {x \in ImgTypes : ota[x] # NoImg}
    BY <1>1 DEF OtaInv, ImagesDone
  <2>2. \A t \in types_wanted : t \notin After(at_img)
    BY <2>1, <1>1 DEF Remaining
  <2>3. \A t \in types_wanted : slot[t].written = Pieces /\ slot[t].whole = TRUE
                                /\ t \in ImgTypes
    BY <2>1, <2>2, <1>1 DEF OtaInv, ImagesDone
  <2>4. \A t \in types_wanted : slot[t] = Complete
    BY <2>3 DEF OtaInv, OtaTypes, Complete
  <2> QED  BY <2>4, <1>1 DEF OtaInv, BootsWhole, Untouched, Complete
<1> QED  BY <1>2, <1>3, <1>4, <1>5 DEF OtaInv

LEMMA WriterWritesInv == OtaInv /\ WriterWrites => OtaInv'
<1> SUFFICES ASSUME OtaInv, WriterWrites PROVE OtaInv'
  OBVIOUS
<1> DEFINE w == slot[at_img].written
<1>1. /\ writer = "runs"
      /\ UNCHANGED <<ota_stage, img, ota, section, at_img, piece, tmp, next_boot, begun,
                     types_wanted>>
  BY DEF WriterWrites, parseState
<1>2. /\ at_img \in ImgTypes /\ w \in Nat
      /\ slot \in [ImgTypes -> [written : Nat, whole : BOOLEAN]]
      /\ ota_stage \notin {"off", "parse", "next"} /\ next_boot = "old"
      /\ at_img \in begun
  BY <1>1 DEF OtaInv, OtaTypes, MarksTell, ImagesDone
<1>3. FieldsOf' /\ OwnSection' /\ PiecesAt'
  BY <1>1, <1>2 DEF OtaInv, FieldsOf, OwnSection, PiecesAt
<1>b. ASSUME \A t \in ImgTypes \ {at_img} : slot'[t] = slot[t] PROVE BootsWhole'
  <2>1. \A t \in ImgTypes \ begun' : slot'[t] \in {Untouched, Complete}
    BY <1>b, <1>1, <1>2 DEF OtaInv, BootsWhole
  <2> QED  BY <2>1, <1>1, <1>2 DEF BootsWhole, Untouched, Complete
<1>4. CASE UNCHANGED slot /\ writer' = "none"
           /\ (files' = files \/ files' = files \cup {<<"failed", 0>>}
               \/ (w = Pieces /\ files' = files \cup {<<"image ok", 0>>}))
  <2>1. OtaTypes' /\ ImagesDone'
    BY <1>1, <1>2, <1>4 DEF OtaInv, OtaTypes, ImagesDone
  <2>2. MarksTell'
    BY <1>1, <1>2, <1>4 DEF OtaInv, MarksTell
  <2> QED  BY <1>3, <1>4, <1>b, <2>1, <2>2 DEF OtaInv
<1>5. CASE /\ <<"ok", w>> \in files /\ w \in DOMAIN tmp
           /\ slot' = [slot EXCEPT ![at_img] =
                         [written |-> w + 1, whole |-> @.whole /\ tmp[w] = "whole"]]
           /\ files' = files \cup {<<"done", w>>} /\ UNCHANGED writer
  <2>1. slot'[at_img] = [written |-> w + 1, whole |-> TRUE]
        /\ \A t \in ImgTypes \ {at_img} : slot'[t] = slot[t]
    <3>1. slot[at_img].whole = TRUE /\ tmp[w] = "whole"
      BY <1>2, <1>5 DEF OtaInv, PiecesAt, ImagesDone
    <3>2. (slot[at_img].whole /\ tmp[w] = "whole") = TRUE
      BY <3>1
    <3> QED  BY <3>2, <1>2, <1>5
  <2>2. slot' \in [ImgTypes -> [written : Nat, whole : BOOLEAN]]
    <3>1. [written |-> w + 1, whole |-> TRUE] \in [written : Nat, whole : BOOLEAN]
      BY <1>2
    <3>2. slot' = [slot EXCEPT ![at_img] = slot'[at_img]]
      BY <1>2, <1>5
    <3> QED  BY <3>1, <3>2, <2>1, <1>2
  <2>3. OtaTypes'
    BY <1>1, <2>2 DEF OtaInv, OtaTypes
  <2>4. <<"image ok", 0>> \notin files
    BY <1>1 DEF OtaInv, MarksTell
  <2> HIDE DEF w
  <2>5. slot'[at_img'].written = w + 1
    BY <2>1, <1>1
  <2>6. MarksTell'
    <3>1. \A n : <<"done", n>> \in files' => n \in Nat /\ n < slot'[at_img'].written
      <4>1. \A n : <<"done", n>> \in files => n \in Nat /\ n < w
        BY DEF OtaInv, MarksTell, w
      <4>2. ASSUME NEW n, <<"done", n>> \in files' PROVE n \in Nat /\ n < w + 1
        <5>1. CASE n = w
          BY <5>1, <1>2
        <5>2. CASE n # w
          <6>1. <<"done", n>> \in files
            BY <5>2, <4>2, <1>5
          <6>2. n \in Nat /\ n < w
            BY <6>1, <4>1
          <6> QED  BY <6>2, <1>2
        <5> QED  BY <5>1, <5>2
      <4> QED  BY <4>2, <2>5
    <3>2. \A n \in Nat : <<"ok", n>> \in files' /\ slot'[at_img'].written <= n
                           => n \in DOMAIN tmp'
      <4>1. \A n \in Nat : <<"ok", n>> \in files /\ w <= n => n \in DOMAIN tmp
        BY DEF OtaInv, MarksTell, w
      <4>2. \A n \in Nat : w + 1 <= n => w <= n
        BY <1>2
      <4> QED  BY <4>1, <4>2, <2>5, <1>1, <1>5
    <3>3. <<"image ok", 0>> \notin files'
      BY <2>4, <1>5
    <3> QED  BY <3>1, <3>2, <3>3, <1>1, <1>2 DEF MarksTell
  <2>7. ImagesDone'
    <3>1. \A t \in ImgTypes : slot'[t].whole = TRUE
      BY <2>1 DEF OtaInv, ImagesDone
    <3>2. \A t \in types_wanted : t \in ImgTypes
      BY DEF OtaInv, OtaTypes
    <3>3. next_boot' # "new"
      BY <1>1, <1>2
    <3> QED  BY <3>1, <3>2, <3>3, <2>1, <1>1, <1>2 DEF OtaInv, ImagesDone
  <2> QED  BY <1>3, <1>b, <2>1, <2>3, <2>6, <2>7 DEF OtaInv
<1>6. \/ /\ <<"ok", w>> \in files /\ w \in DOMAIN tmp
         /\ slot' = [slot EXCEPT ![at_img] =
                         [written |-> w + 1, whole |-> @.whole /\ tmp[w] = "whole"]]
         /\ files' = files \cup {<<"done", w>>} /\ UNCHANGED writer
      \/ /\ UNCHANGED slot /\ writer' = "none"
         /\ (files' = files \/ files' = files \cup {<<"failed", 0>>}
             \/ (w = Pieces /\ files' = files \cup {<<"image ok", 0>>}))
  BY DEF WriterWrites
<1> QED  BY <1>4, <1>5, <1>6

LEMMA OtaPowerFailsInv == OtaInv /\ OtaPowerFails => OtaInv'
<1> SUFFICES ASSUME OtaInv, OtaPowerFails PROVE OtaInv'
  OBVIOUS
<1>1. /\ ota_stage' = "off" /\ writer' = "none" /\ tmp' = << >> /\ files' = {}
      /\ img' = NoImg /\ section' = 0 /\ ota' = [t \in ImgTypes |-> NoImg]
      /\ at_img' = "" /\ piece' = 0
      /\ UNCHANGED <<slot, next_boot, begun, types_wanted>>
  BY DEF OtaPowerFails, diskState
<1>2. OtaTypes' /\ FieldsOf' /\ OwnSection'
  BY <1>1, NoImgIs DEF OtaInv, OtaTypes, FieldsOf, OwnSection, ImgKeys
<1>3. PiecesAt'
  <2>0. tmp' = << >>
    BY <1>1
  <2>1. DOMAIN tmp' = {} /\ \A n \in DOMAIN tmp' : FALSE
    BY ONLY <2>0
  <2> QED  BY <1>1, <2>1 DEF PiecesAt
<1>4. MarksTell'
  BY <1>1 DEF OtaInv, MarksTell
<1>5. ImagesDone' /\ BootsWhole'
  BY <1>1 DEF OtaInv, ImagesDone, BootsWhole, Untouched, Complete
<1> QED  BY <1>2, <1>3, <1>4, <1>5 DEF OtaInv

LEMMA OtaInvStep == OtaInv /\ [OtaNext]_otaVars => OtaInv'
<1> SUFFICES ASSUME OtaInv, [OtaNext]_otaVars PROVE OtaInv'
  OBVIOUS
<1>1. CASE UNCHANGED otaVars
  <2>1. OtaTypes' /\ FieldsOf' /\ OwnSection'
    BY <1>1 DEF otaVars, OtaInv, OtaTypes, FieldsOf, OwnSection
  <2>2. PiecesAt'
    BY <1>1 DEF otaVars, OtaInv, PiecesAt
  <2>3. MarksTell'
    BY <1>1 DEF otaVars, OtaInv, MarksTell
  <2>4. ImagesDone' /\ BootsWhole'
    BY <1>1 DEF otaVars, OtaInv, ImagesDone, BootsWhole, After, Untouched, Complete
  <2> QED  BY <2>1, <2>2, <2>3, <2>4 DEF OtaInv
<1> QED  BY <1>1, BeginInv, ParseTypeInv, ParseFieldInv, ParseEndInv, StartImageInv,
            GetPieceInv, PieceDoneInv, ImageDoneInv, SuccessInv, WriterWritesInv,
            OtaPowerFailsInv DEF OtaNext

LEMMA OtaInvSound == OtaInv => UpdateSound
<1> SUFFICES ASSUME OtaInv PROVE TwoPieces
  BY DEF OtaInv, UpdateSound
<1>1. PICK a, b : DOMAIN tmp \subseteq {a, b}
  BY DEF OtaInv, PiecesAt
<1>2. Cardinality(DOMAIN tmp) <= 2
  <2>1. /\ IsFiniteSet({}) /\ Cardinality({}) = 0
    BY FS_EmptySet
  <2>2. /\ IsFiniteSet({a}) /\ Cardinality({a}) <= 1
    BY FS_Singleton
  <2>3. IsFiniteSet({a} \cup {b}) /\ Cardinality({a} \cup {b}) <= Cardinality({a}) + 1
    <3>1. Cardinality({a}) \in Nat
      BY <2>2, FS_CardinalityType
    <3>2. /\ IsFiniteSet({a} \cup {b})
          /\ Cardinality({a} \cup {b}) = Cardinality({a}) \/ Cardinality({a} \cup {b}) = Cardinality({a}) + 1
      BY <2>2, FS_AddElement
    <3> QED  BY <3>1, <3>2
  <2>4. {a} \cup {b} = {a, b}
    OBVIOUS
  <2>5. /\ IsFiniteSet(DOMAIN tmp) /\ Cardinality(DOMAIN tmp) <= Cardinality({a, b})
    BY <1>1, <2>3, <2>4, FS_Subset
  <2>6. Cardinality({a, b}) \in Nat /\ Cardinality({a}) \in Nat
        /\ Cardinality(DOMAIN tmp) \in Nat
    BY <2>2, <2>3, <2>4, <2>5, FS_CardinalityType
  <2> QED  BY <2>2, <2>3, <2>4, <2>5, <2>6
<1>3. writer = "runs" /\ <<"ok", slot[at_img].written>> \in files =>
        slot[at_img].written \in DOMAIN tmp
  <2> SUFFICES ASSUME writer = "runs", <<"ok", slot[at_img].written>> \in files
               PROVE  slot[at_img].written \in DOMAIN tmp
    OBVIOUS
  <2>1. slot[at_img].written \in Nat
    BY DEF OtaInv, OtaTypes, MarksTell
  <2>2. slot[at_img].written <= slot[at_img].written
    BY <2>1
  <2> QED  BY <2>1, <2>2 DEF OtaInv, MarksTell
<1> QED  BY <1>2, <1>3 DEF TwoPieces

-----------------------------------------------------------------------------
(* The packages.                                                           *)

Directory == [ver : {"old", "new"}, files : {Whole, Torn}, update : BOOLEAN]
Steps == {"other", "clear", "check", "remove", "move", "run"}

InstallTypes ==
  /\ boot \in {"off", "install", "installed", "check", "burn", "start", "up"}
  /\ pkg \in 1..Len(Packages) /\ update \in Steps
  /\ temp \in {Whole, Torn, Missing} /\ versions \in [PackageSet -> SUBSET Directory]
  /\ exe \in {"old", "new", Torn, Missing} /\ mcu \in {"old", "new", Torn}

\* The package whose versions were removed and whose new one is still temp
Removed(p) == boot = "install" /\ update = "move" /\ thisPackage = p

\* What the script has checked it puts in place, unless the power fails.
TempChecked == boot = "install" /\ update \in {"remove", "move"} => temp = Whole

OneVersion ==
  \A p \in PackageSet \ cut : versions[p] # {} \/ Removed(p)

\* Controllers that were not burnt to the end are burnt again.
BurntAgain ==
  "control" \notin cut =>
    /\ mcu = Torn => \/ Removed("control")
                     \/ \E d \in versions["control"] : d.update = TRUE
    /\ boot \in {"start", "up"} => mcu \in {"old", "new"}

InstallInv ==
  /\ InstallTypes /\ TempChecked /\ OneVersion /\ BurntAgain
  /\ NewIsVerified /\ RunsWhole

LEMMA PackagesAre ==
  /\ DOMAIN Packages = 1..Len(Packages) /\ Len(Packages) \in Nat /\ Len(Packages) >= 1
  /\ \A n \in 1..Len(Packages) : Packages[n] \in PackageSet
  /\ "control" \in PackageSet /\ "software" \in PackageSet
<1>1. Packages \in Seq(PackageSet) /\ "control" \in PackageSet /\ "software" \in PackageSet
  BY InstallAssumption
<1>2. DOMAIN Packages = 1..Len(Packages) /\ Len(Packages) \in Nat
  BY <1>1
<1>3. \E n \in 1..Len(Packages) : Packages[n] = "control"
  BY <1>1, <1>2 DEF PackageSet
<1> QED  BY <1>1, <1>2, <1>3 DEF PackageSet

LEMMA ThisIs == InstallTypes => thisPackage \in PackageSet
BY PackagesAre DEF InstallTypes, thisPackage

LEMMA VersionIs ==
  ASSUME NEW v \in {"old", "new"}
  PROVE  /\ Version(v) \in Directory
         /\ Version(v).ver = v /\ Version(v).files = Whole /\ Version(v).update = TRUE
         /\ [Version(v) EXCEPT !.files = Whole] = Version(v)
<1>1. /\ Version(v) \in Directory
      /\ Version(v).ver = v /\ Version(v).files = Whole /\ Version(v).update = TRUE
  BY DEF Version, Directory
<1>2. \A d \in Directory : d.files = Whole => [d EXCEPT !.files = Whole] = d
  BY DEF Directory
<1> QED  BY <1>1, <1>2

LEMMA InstallInvInit == InstallInit => InstallInv
<1> SUFFICES ASSUME InstallInit PROVE InstallInv
  OBVIOUS
<1> DEFINE d0 == [Version("old") EXCEPT !.update = FALSE]
<1>1. d0 \in Directory /\ d0.files = Whole
  BY DEF Version, Directory
<1>2. boot = "off" /\ pkg = 1 /\ update = "clear" /\ temp = Missing
      /\ versions = [p \in PackageSet |-> {d0}] /\ exe = "old" /\ mcu = "old" /\ cut = {}
  BY DEF InstallInit
<1> HIDE DEF d0
<1>3. versions \in [PackageSet -> SUBSET Directory]
  BY <1>1, <1>2
<1>4. InstallTypes
  BY <1>2, <1>3, PackagesAre DEF InstallTypes, Steps
<1>5. TempChecked /\ OneVersion /\ NewIsVerified /\ RunsWhole
  BY <1>1, <1>2 DEF TempChecked, OneVersion, NewIsVerified, RunsWhole
<1>6. BurntAgain
  BY <1>2, InstallAssumption DEF BurntAgain
<1> QED  BY <1>4, <1>5, <1>6 DEF InstallInv

LEMMA NextPackageIs ==
  ASSUME InstallTypes, boot = "install", NextPackage
  PROVE  /\ update' = "clear" /\ boot' \in {"install", "installed"}
         /\ pkg' \in 1..Len(Packages)
<1>1. CASE pkg = Len(Packages)
  BY <1>1 DEF NextPackage, InstallTypes
<1>2. CASE pkg # Len(Packages)
  <2>1. pkg' = pkg + 1 /\ boot' = boot /\ update' = "clear"
    BY <1>2 DEF NextPackage
  <2>2. pkg \in 1..Len(Packages) /\ Len(Packages) \in Nat
    BY PackagesAre DEF InstallTypes
  <2>3. pkg + 1 \in 1..Len(Packages)
    BY <1>2, <2>2
  <2> QED  BY <2>1, <2>3
<1> QED  BY <1>1, <1>2

\* Steps that leave versions and controllers alone.
LEMMA VersionsKept ==
  ASSUME InstallInv, UNCHANGED <<versions, mcu, cut>>,
         boot' \in {"off", "install", "installed", "check", "burn"},
         pkg' \in 1..Len(Packages), update' \in Steps,
         temp' \in {Whole, Torn, Missing}, exe' \in {"old", "new", Torn, Missing},
         TempChecked', \A p \in PackageSet : ~Removed(p)
  PROVE  InstallInv'
<1>1. InstallTypes'
  BY DEF InstallInv, InstallTypes
<1>2. OneVersion' /\ BurntAgain' /\ NewIsVerified' /\ RunsWhole'
  BY PackagesAre DEF InstallInv, OneVersion, BurntAgain, NewIsVerified, RunsWhole
<1> QED  BY <1>1, <1>2 DEF InstallInv

LEMMA UpdateOtherInv == InstallInv /\ UpdateOther => InstallInv'
<1> SUFFICES ASSUME InstallInv, UpdateOther PROVE InstallInv'
  OBVIOUS
<1>1. /\ InstallTypes /\ boot = "install" /\ update = "other" /\ update' = "clear"
      /\ UNCHANGED <<boot, pkg, temp, versions, exe, mcu, cut>>
  BY DEF InstallInv, UpdateOther
<1> QED  BY <1>1, VersionsKept DEF TempChecked, Removed, InstallTypes, Steps

LEMMA UnpackInv == InstallInv /\ Unpack => InstallInv'
<1> SUFFICES ASSUME InstallInv, Unpack PROVE InstallInv'
  OBVIOUS
<1>0. InstallTypes /\ boot = "install" /\ update = "clear"
      /\ UNCHANGED <<versions, exe, mcu, cut>>
  BY DEF InstallInv, Unpack
<1>1. /\ boot' \in {"install", "installed"} /\ pkg' \in 1..Len(Packages)
      /\ update' \in {"clear", "check"} /\ temp' \in {Whole, Torn, Missing}
  <2>1. CASE temp' \in {Whole, Torn} /\ update' = "check" /\ UNCHANGED <<boot, pkg>>
    BY <2>1, <1>0 DEF InstallTypes
  <2>2. CASE NextPackage /\ UNCHANGED temp
    BY <2>2, <1>0, NextPackageIs DEF InstallTypes
  <2> QED  BY <2>1, <2>2 DEF Unpack
<1> QED  BY <1>0, <1>1, VersionsKept DEF TempChecked, Removed, InstallTypes, Steps

LEMMA CheckSumsInv == InstallInv /\ CheckSums => InstallInv'
<1> SUFFICES ASSUME InstallInv, CheckSums PROVE InstallInv'
  OBVIOUS
<1>0. InstallTypes /\ boot = "install" /\ update = "check"
      /\ UNCHANGED <<versions, exe, mcu, cut>>
  BY DEF InstallInv, CheckSums
<1>1. CASE SumsMatch
  BY <1>0, <1>1, VersionsKept
     DEF CheckSums, SumsMatch, TempChecked, Removed, InstallTypes, Steps
<1>2. CASE ~SumsMatch
  <2>1. temp' = Missing /\ NextPackage
    BY <1>2 DEF CheckSums
  <2> QED  BY <1>0, <2>1, NextPackageIs, VersionsKept
           DEF TempChecked, Removed, InstallTypes, Steps
<1> QED  BY <1>1, <1>2

LEMMA RemoveOthersInv == InstallInv /\ RemoveOthers => InstallInv'
<1> SUFFICES ASSUME InstallInv, RemoveOthers PROVE InstallInv'
  OBVIOUS
<1>0. /\ InstallTypes /\ boot = "install" /\ update = "remove" /\ update' = "move"
      /\ versions' = [versions EXCEPT ![thisPackage] = {}]
      /\ exe' \in {exe, Missing} /\ UNCHANGED <<boot, pkg, temp, mcu, cut>>
  BY DEF InstallInv, RemoveOthers
<1>1. InstallTypes'
  BY <1>0 DEF InstallTypes, Steps
<1>2. /\ \A p \in PackageSet : IF p = thisPackage THEN versions'[p] = {}
                               ELSE versions'[p] = versions[p]
      /\ thisPackage' = thisPackage
  BY <1>0 DEF InstallTypes, thisPackage
<1>3. TempChecked'
  BY <1>0 DEF InstallInv, TempChecked
<1>4. OneVersion'
  BY <1>0, <1>2 DEF InstallInv, OneVersion, Removed
<1>5. BurntAgain'
  <2>1. CASE thisPackage = "control"
    BY <2>1, <1>0, <1>2 DEF BurntAgain, Removed
  <2>2. CASE thisPackage # "control"
    <3>1. versions'["control"] = versions["control"]
      BY <2>2, <1>2, PackagesAre
    <3> QED  BY <3>1, <2>2, <1>0 DEF InstallInv, BurntAgain, Removed
  <2> QED  BY <2>1, <2>2
<1>6. NewIsVerified' /\ RunsWhole'
  BY <1>0, <1>2 DEF InstallInv, NewIsVerified, RunsWhole
<1> QED  BY <1>1, <1>3, <1>4, <1>5, <1>6 DEF InstallInv

\* The new version is in its place.
LEMMA Placed ==
  ASSUME InstallInv, boot = "install", update = "move",
         versions' = [versions EXCEPT ![thisPackage] = {Version("new")}],
         cut' = cut \ {thisPackage}, UNCHANGED <<pkg, mcu>>,
         update' \in Steps, temp' \in {Whole, Torn, Missing},
         exe' \in {"old", "new", Torn, Missing},
         (boot' = "install" /\ update' = "run") \/ boot' = "off"
  PROVE  InstallInv'
<1>0. InstallTypes /\ thisPackage \in PackageSet
  BY ThisIs DEF InstallInv
<1>1. InstallTypes'
  BY <1>0, VersionIs DEF InstallTypes
<1>2. \A p \in PackageSet : IF p = thisPackage THEN versions'[p] = {Version("new")}
                            ELSE versions'[p] = versions[p]
  BY <1>0 DEF InstallTypes
<1>3. TempChecked' /\ RunsWhole' /\ \A p : ~Removed(p)'
  BY DEF TempChecked, RunsWhole, Removed
<1>4. OneVersion'
  BY <1>2 DEF InstallInv, OneVersion, Removed
<1>5. BurntAgain'
  <2>1. CASE thisPackage = "control"
    <3>1. Version("new") \in versions'["control"] /\ Version("new").update = TRUE
      BY <2>1, <1>0, <1>2, VersionIs
    <3> QED  BY <3>1 DEF BurntAgain
  <2>2. CASE thisPackage # "control"
    <3>1. versions'["control"] = versions["control"]
      BY <2>2, <1>2, PackagesAre
    <3> QED  BY <3>1, <2>2 DEF InstallInv, BurntAgain, Removed
  <2> QED  BY <2>1, <2>2
<1>6. NewIsVerified'
  BY <1>2, VersionIs DEF InstallInv, NewIsVerified
<1> QED  BY <1>1, <1>3, <1>4, <1>5, <1>6 DEF InstallInv

LEMMA MoveTempInv == InstallInv /\ MoveTemp => InstallInv'
<1> SUFFICES ASSUME InstallInv, MoveTemp PROVE InstallInv'
  OBVIOUS
<1>1. /\ boot = "install" /\ update = "move" /\ update' = "run" /\ temp' = Missing
      /\ versions' = [versions EXCEPT ![thisPackage] =
                        {[Version("new") EXCEPT !.files = temp]}]
      /\ cut' = cut \ {thisPackage} /\ UNCHANGED <<boot, pkg, exe, mcu>>
  BY DEF MoveTemp
<1>2. temp = Whole
  BY <1>1 DEF InstallInv, TempChecked
<1>3. versions' = [versions EXCEPT ![thisPackage] = {Version("new")}]
  BY <1>1, <1>2, VersionIs
<1>4. exe \in {"old", "new", Torn, Missing}
  BY DEF InstallInv, InstallTypes
<1> QED  BY <1>1, <1>3, <1>4, Placed DEF Steps

LEMMA RunPackageInv == InstallInv /\ RunPackage => InstallInv'
<1> SUFFICES ASSUME InstallInv, RunPackage PROVE InstallInv'
  OBVIOUS
<1>1. /\ InstallTypes /\ boot = "install" /\ update = "run" /\ NextPackage
      /\ exe' \in {exe, "new"} /\ UNCHANGED <<temp, versions, mcu, cut>>
  BY DEF InstallInv, RunPackage
<1> QED  BY <1>1, NextPackageIs, VersionsKept
         DEF TempChecked, Removed, InstallTypes, Steps

LEMMA StartUpInv == InstallInv /\ (PowerOn \/ SleepEnds \/ BurnStarts) => InstallInv'
<1>1. ASSUME InstallInv, PowerOn PROVE InstallInv'
  BY <1>1, VersionsKept, PackagesAre
     DEF PowerOn, TempChecked, Removed, InstallInv, InstallTypes, Steps
<1>2. ASSUME InstallInv, SleepEnds PROVE InstallInv'
  BY <1>2, VersionsKept
     DEF SleepEnds, TempChecked, Removed, InstallInv, InstallTypes
<1>3. ASSUME InstallInv, BurnStarts PROVE InstallInv'
  <2>1. boot = "check" /\ UNCHANGED <<pkg, update, temp, versions, exe, cut>>
    BY <1>3 DEF BurnStarts
  <2>2. CASE (\E d \in versions["control"] : d.update) /\ boot' = "burn" /\ mcu' = Torn
    <3>1. \E d \in versions["control"] : d.update = TRUE
      <4>1. PICK d \in versions["control"] : d.update
        BY <2>2
      <4>2. d.update \in BOOLEAN
        BY <1>3, PackagesAre DEF InstallInv, InstallTypes, Directory
      <4>3. d.update = TRUE
        BY <4>1, <4>2
      <4> QED  BY <4>3
    <3> QED  BY <2>1, <2>2, <3>1, <1>3
             DEF InstallInv, InstallTypes, TempChecked, OneVersion, Removed, BurntAgain,
                 NewIsVerified, RunsWhole
  <2>3. CASE (\A d \in versions["control"] : ~d.update) /\ boot' = "start" /\ mcu' = mcu
    <3>1. "control" \notin cut => mcu \in {"old", "new"}
      BY <2>1, <2>3, <1>3 DEF InstallInv, InstallTypes, BurntAgain, Removed
    <3> QED  BY <2>1, <2>3, <3>1, <1>3
             DEF InstallInv, InstallTypes, TempChecked, OneVersion, Removed, BurntAgain,
                 NewIsVerified, RunsWhole
  <2> QED  BY <2>2, <2>3, <1>3 DEF BurnStarts
<1> QED  BY <1>1, <1>2, <1>3

LEMMA BurnInv == InstallInv /\ Burn => InstallInv'
<1> SUFFICES ASSUME InstallInv, Burn PROVE InstallInv'
  OBVIOUS
<1>1. /\ InstallTypes /\ boot = "burn" /\ boot' = "off"
      /\ UNCHANGED <<pkg, update, temp, exe, cut>>
  BY DEF Burn, InstallInv
<1>2. PICK d \in versions["control"] :
        IF d.files = Whole
        THEN /\ mcu' = d.ver
             /\ versions' = [versions EXCEPT !["control"] = {[d EXCEPT !.update = FALSE]}]
        ELSE UNCHANGED <<mcu, versions>>
  BY DEF Burn
<1>3. d \in Directory
  BY <1>1, PackagesAre DEF InstallTypes
<1>4. CASE d.files # Whole
  <2>1. UNCHANGED <<mcu, versions>>
    BY <1>2, <1>4
  <2> QED  BY <1>1, <2>1, VersionsKept DEF TempChecked, Removed, InstallTypes
<1>5. CASE d.files = Whole
  <2> DEFINE e == [d EXCEPT !.update = FALSE]
  <2>1. e \in Directory /\ e.files = Whole /\ d.ver \in {"old", "new"}
    BY <1>3, <1>5 DEF Directory
  <2>2. mcu' = d.ver /\ versions' = [versions EXCEPT !["control"] = {e}]
    BY <1>2, <1>5
  <2> HIDE DEF e
  <2>3. \A p \in PackageSet : versions'[p] = IF p = "control" THEN {e} ELSE versions[p]
    BY <2>2, <1>1 DEF InstallTypes
  <2>4. InstallTypes'
    BY <2>1, <2>2, <1>1 DEF InstallTypes
  <2>5. TempChecked' /\ RunsWhole'
    BY <1>1 DEF TempChecked, RunsWhole
  <2>6. OneVersion' /\ NewIsVerified'
    BY <2>1, <2>3, <1>1 DEF InstallInv, OneVersion, NewIsVerified, Removed
  <2>7. BurntAgain'
    <3>1. Torn \notin {"old", "new"}
      BY InstallAssumption
    <3> QED  BY <3>1, <2>1, <2>2 DEF BurntAgain
  <2> QED  BY <2>4, <2>5, <2>6, <2>7 DEF InstallInv
<1> QED  BY <1>4, <1>5

LEMMA StartProgramInv == InstallInv /\ StartProgram => InstallInv'
<1> SUFFICES ASSUME InstallInv, StartProgram PROVE InstallInv'
  OBVIOUS
<1>1. /\ InstallTypes /\ boot = "start" /\ boot' = "up"
      /\ UNCHANGED <<pkg, update, temp, versions, mcu, cut>>
  BY DEF InstallInv, StartProgram
<1>2. /\ exe' \in {"old", "new", Torn, Missing}
      /\ "software" \notin cut => exe' \in {"old", "new"}
  <2>1. CASE exe \in {Torn, Missing} /\ versions["software"] # {}
    <3>1. PICK d \in versions["software"] : exe' \in CopiedFrom(d)
      BY <2>1 DEF StartProgram
    <3>2. d.ver \in {"old", "new"}
      BY <1>1, PackagesAre DEF InstallTypes, Directory
    <3>3. "software" \notin cut => d.files = Whole
      BY PackagesAre DEF InstallInv, NewIsVerified
    <3> QED  BY <3>1, <3>2, <3>3 DEF CopiedFrom
  <2>2. CASE ~(exe \in {Torn, Missing} /\ versions["software"] # {})
    <3>1. exe' = exe /\ exe \in {"old", "new", Torn, Missing}
      BY <2>2, <1>1 DEF StartProgram, InstallTypes
    <3>2. "software" \notin cut => versions["software"] # {}
      BY <1>1, PackagesAre DEF InstallInv, OneVersion, Removed
    <3> QED  BY <3>1, <3>2, <2>2
  <2> QED  BY <2>1, <2>2
<1>3. InstallTypes'
  BY <1>1, <1>2 DEF InstallTypes
<1>4. TempChecked' /\ OneVersion' /\ BurntAgain' /\ NewIsVerified'
  BY <1>1 DEF InstallInv, TempChecked, OneVersion, BurntAgain, NewIsVerified, Removed
<1>5. RunsWhole'
  BY <1>1, <1>2 DEF InstallInv, BurntAgain, RunsWhole
<1> QED  BY <1>3, <1>4, <1>5 DEF InstallInv

LEMMA RemainsAre ==
  ASSUME NEW ds \in SUBSET Directory, NEW left \in Remains(ds)
  PROVE  left \in SUBSET Directory
<1>1. CASE left = {}
  BY <1>1
<1>2. CASE left # {}
  <2>1. PICK d \in ds : left \in {{d}, {[d EXCEPT !.files = Torn]},
                                  {[d EXCEPT !.files = Torn, !.update = FALSE]}}
    BY <1>2 DEF Remains
  <2>2. /\ d \in Directory /\ [d EXCEPT !.files = Torn] \in Directory
        /\ [d EXCEPT !.files = Torn, !.update = FALSE] \in Directory
    BY DEF Directory
  <2> QED  BY <2>1, <2>2
<1> QED  BY <1>1, <1>2

LEMMA PowerFailsInv == InstallInv /\ PowerFails => InstallInv'
<1> SUFFICES ASSUME InstallInv, PowerFails PROVE InstallInv'
  OBVIOUS
<1>1. InstallTypes /\ boot' = "off" /\ UNCHANGED <<pkg, update, mcu>>
      /\ thisPackage \in PackageSet
  BY ThisIs DEF InstallInv, PowerFails
<1>2. temp' \in {temp, Torn, Missing} /\ (boot = "install" /\ update = "move" => temp' = temp)
  BY DEF PowerFails, TempUnsafe
<1>3. exe' \in {exe, Missing, Torn, "new"}
  BY DEF PowerFails
<1>4. temp' \in {Whole, Torn, Missing} /\ exe' \in {"old", "new", Torn, Missing}
  BY <1>1, <1>2, <1>3 DEF InstallTypes
<1>5. TempChecked' /\ RunsWhole' /\ \A p : ~Removed(p)'
  BY <1>1 DEF TempChecked, RunsWhole, Removed
<1>6. CASE ~(boot = "install" /\ update \in {"remove", "move"}) /\ UNCHANGED <<versions, cut>>
  <2>1. \A p \in PackageSet : ~Removed(p)
    BY <1>6 DEF Removed
  <2>2. pkg' \in 1..Len(Packages) /\ update' \in Steps
    BY <1>1 DEF InstallTypes
  <2> QED  BY <2>1, <2>2, <1>1, <1>4, <1>5, <1>6, VersionsKept
\* A package that is cut has no claims.
<1>7. ASSUME cut' = cut \cup {thisPackage}, NEW left \in SUBSET Directory,
             versions' = [versions EXCEPT ![thisPackage] = left]
      PROVE  InstallInv'
  <2>1. InstallTypes'
    BY <1>1, <1>4, <1>7 DEF InstallTypes
  <2>2. \A p \in PackageSet \ cut' : versions'[p] = versions[p] /\ p \notin cut
                                     /\ p # thisPackage
    BY <1>1, <1>7 DEF InstallTypes
  <2>3. OneVersion' /\ NewIsVerified'
    BY <2>2 DEF InstallInv, OneVersion, NewIsVerified, Removed
  <2>4. BurntAgain'
    BY <2>2, <1>1, PackagesAre DEF InstallInv, BurntAgain, Removed
  <2> QED  BY <2>1, <2>3, <2>4, <1>5 DEF InstallInv
<1>8. CASE /\ boot = "install" /\ update = "remove" /\ cut' = cut \cup {thisPackage}
           /\ \E left \in Remains(versions[thisPackage]) :
                versions' = [versions EXCEPT ![thisPackage] = left]
  <2>1. PICK left \in Remains(versions[thisPackage]) :
               versions' = [versions EXCEPT ![thisPackage] = left]
    BY <1>8
  <2>2. left \in SUBSET Directory
    BY <1>1, RemainsAre DEF InstallTypes
  <2> QED  BY <1>7, <1>8, <2>1, <2>2
<1>9. CASE UNCHANGED versions /\ cut' = cut \cup {thisPackage}
  <2>1. /\ versions[thisPackage] \in SUBSET Directory
        /\ versions' = [versions EXCEPT ![thisPackage] = versions[thisPackage]]
    BY <1>1, <1>9 DEF InstallTypes
  <2> QED  BY <1>7, <1>9, <2>1
<1>10. CASE /\ boot = "install" /\ update = "move" /\ cut' = cut \ {thisPackage}
            /\ versions' = [versions EXCEPT ![thisPackage] =
                              {[Version("new") EXCEPT !.files = temp']}]
  <2>1. temp' = Whole
    BY <1>2, <1>10 DEF InstallInv, TempChecked
  <2>2. versions' = [versions EXCEPT ![thisPackage] = {Version("new")}]
    BY <1>10, <2>1, VersionIs
  <2>3. update' \in Steps
    BY <1>1 DEF InstallTypes
  <2> QED  BY <1>1, <1>4, <1>10, <2>2, <2>3, Placed
<1> QED  BY <1>6, <1>8, <1>9, <1>10 DEF PowerFails

LEMMA InstallInvStep == InstallInv /\ [InstallNext]_installVars => InstallInv'
<1> SUFFICES ASSUME InstallInv, [InstallNext]_installVars PROVE InstallInv'
  OBVIOUS
<1>1. CASE UNCHANGED installVars
  <2>1. InstallTypes' /\ TempChecked' /\ OneVersion'
    BY <1>1 DEF installVars, InstallInv, InstallTypes, TempChecked, OneVersion, Removed,
                thisPackage
  <2>2. BurntAgain' /\ NewIsVerified' /\ RunsWhole'
    BY <1>1 DEF installVars, InstallInv, BurntAgain, NewIsVerified, RunsWhole, Removed,
                thisPackage
  <2> QED  BY <2>1, <2>2 DEF InstallInv
<1> QED  BY <1>1, UpdateOtherInv, UnpackInv, CheckSumsInv, RemoveOthersInv, MoveTempInv, RunPackageInv,
            StartUpInv, BurnInv, StartProgramInv, PowerFailsInv DEF InstallNext

(* What an update has brought.                                             *)

\* The packages this update is through with
Through(n) == boot = "installed" \/ (boot = "install" /\ n < pkg)

\* A package is there in its new version, with the files that its run.sh copies.
Brought(p) ==
  /\ p \notin cut /\ versions[p] = {Version("new")}
  /\ p = "software" => exe = "new" /\ torn_files \cap RunFiles = {}

\* What is known of the files that are written in place
FilesKnown ==
  /\ torn_files \subseteq OtherFiles \cup RunFiles /\ cut \subseteq PackageSet
  /\ "software" \in skipped => RunFiles \subseteq skipped
  /\ boot = "install" /\ update = "other" => pkg = 1
  /\ boot = "installed" \/ (boot = "install" /\ update # "other") =>
       torn_files \cap OtherFiles \subseteq skipped

ThroughBrought ==
  \A n \in 1..Len(Packages) :
    Through(n) /\ Packages[n] \notin skipped => Brought(Packages[n])

\* The package whose run.sh comes next
RunsNext ==
  boot = "install" /\ update = "run" =>
    thisPackage \notin cut /\ versions[thisPackage] = {Version("new")}

RepairInv == InstallInv /\ FilesKnown /\ ThroughBrought /\ RunsNext

LEMMA RepairInvInit == InstallInit => RepairInv
<1> SUFFICES ASSUME InstallInit PROVE RepairInv
  OBVIOUS
<1>1. /\ boot = "off" /\ torn_files = {} /\ cut = {} /\ skipped = {}
  BY DEF InstallInit
<1> QED  BY <1>1, InstallInvInit
         DEF RepairInv, FilesKnown, ThroughBrought, Through, RunsNext

\* Outside of an update only the files themselves matter.
LEMMA NotUpdating ==
  ASSUME FilesKnown, boot' \notin {"install", "installed"}, skipped' \in {skipped, {}},
         torn_files' \subseteq OtherFiles \cup RunFiles, cut' \subseteq PackageSet
  PROVE  FilesKnown' /\ ThroughBrought' /\ RunsNext'
<1>1. FilesKnown'
  BY DEF FilesKnown
<1>2. ThroughBrought' /\ RunsNext'
  BY DEF ThroughBrought, Through, RunsNext
<1> QED  BY <1>1, <1>2

\* The step to the next package: this one was brought, or it was skipped.
LEMMA NextPackageRepairs ==
  ASSUME RepairInv, boot = "install", update # "other", NextPackage,
         UNCHANGED <<versions, cut>>,
         \/ Skip /\ UNCHANGED <<exe, torn_files>>
         \/ /\ UNCHANGED skipped /\ update = "run"
            /\ IF thisPackage = "software"
               THEN exe' = "new" /\ torn_files' = torn_files \ RunFiles
               ELSE UNCHANGED <<exe, torn_files>>
  PROVE  FilesKnown' /\ ThroughBrought' /\ RunsNext'
<1>1. /\ update' = "clear" /\ boot' \in {"install", "installed"}
      /\ pkg' \in 1..Len(Packages) /\ pkg \in 1..Len(Packages)
  BY NextPackageIs DEF RepairInv, InstallInv, InstallTypes
<1>2. \A n \in 1..Len(Packages) : Through(n)' => Through(n) \/ n = pkg
  <2> TAKE n \in 1..Len(Packages)
  <2>1. pkg' = pkg + 1 \/ pkg = Len(Packages)
    BY DEF NextPackage
  <2>2. pkg = Len(Packages) => pkg' = pkg
    BY DEF NextPackage
  <2>3. pkg # Len(Packages) => boot' # "installed"
    BY DEF NextPackage
  <2>4. Through(n)' => n < pkg \/ n = pkg
    <3>1. Through(n)' => pkg = Len(Packages) \/ n < pkg'
      BY <2>3 DEF Through
    <3>2. pkg \in Nat /\ n \in Nat /\ n <= Len(Packages) /\ Len(Packages) \in Nat
      BY <1>1, PackagesAre
    <3> QED  BY <3>1, <3>2, <2>1, <2>2
  <2> QED  BY <2>4 DEF Through
<1>3. /\ torn_files' \subseteq torn_files /\ skipped \subseteq skipped'
      /\ "software" \in skipped' => RunFiles \subseteq skipped'
  BY DEF Skip, RepairInv, FilesKnown, RunFiles
<1>4. FilesKnown'
  BY <1>1, <1>3 DEF RepairInv, FilesKnown
<1>5. \A p : Brought(p) => Brought(p)'
  BY DEF Brought
<1>6. ASSUME NEW p, p = thisPackage, p \notin skipped' PROVE Brought(p)'
  <2>1. /\ UNCHANGED skipped /\ update = "run"
        /\ IF thisPackage = "software"
           THEN exe' = "new" /\ torn_files' = torn_files \ RunFiles
           ELSE UNCHANGED <<exe, torn_files>>
    BY <1>6 DEF Skip
  <2>2. p \notin cut' /\ versions'[p] = {Version("new")}
    BY <2>1, <1>6 DEF RepairInv, RunsNext
  <2>3. p = "software" => exe' = "new" /\ torn_files' \cap RunFiles = {}
    BY <2>1, <1>6
  <2> QED  BY <2>2, <2>3 DEF Brought, Version
<1>7. ThroughBrought'
  <2> SUFFICES ASSUME NEW n \in 1..Len(Packages), Through(n)', Packages[n] \notin skipped'
               PROVE  Brought(Packages[n])'
    BY DEF ThroughBrought
  <2>1. CASE Through(n)
    BY <2>1, <1>3, <1>5 DEF RepairInv, ThroughBrought
  <2>2. CASE n = pkg
    BY <2>2, <1>6 DEF thisPackage
  <2> QED  BY <2>1, <2>2, <1>2
<1> QED  BY <1>1, <1>4, <1>7 DEF RunsNext

LEMMA CopiesRepair ==
  RepairInv /\ (UpdateOther \/ Unpack \/ CheckSums \/ RunPackage)
    => FilesKnown' /\ ThroughBrought' /\ RunsNext'
<1> SUFFICES ASSUME RepairInv PROVE
      (UpdateOther \/ Unpack \/ CheckSums \/ RunPackage)
        => FilesKnown' /\ ThroughBrought' /\ RunsNext'
  OBVIOUS
<1>1. ASSUME UpdateOther PROVE FilesKnown' /\ ThroughBrought' /\ RunsNext'
  <2>1. /\ boot' = "install" /\ update' = "clear" /\ pkg = 1
        /\ UNCHANGED <<pkg, cut>>
    BY <1>1 DEF UpdateOther, RepairInv, FilesKnown
  <2>2. /\ torn_files' \subseteq torn_files \cup OtherFiles
        /\ torn_files' \cap OtherFiles \subseteq skipped' /\ skipped' \subseteq OtherFiles
    BY <1>1 DEF UpdateOther
  <2>3. "software" \notin OtherFiles
    BY DEF OtherFiles
  <2>4. FilesKnown'
    BY <2>1, <2>2, <2>3 DEF RepairInv, FilesKnown
  <2>5. ThroughBrought' /\ RunsNext'
    BY <2>1 DEF ThroughBrought, Through, RunsNext
  <2> QED  BY <2>4, <2>5
\* The package is still on its way.
<1>2. ASSUME boot = "install", update # "other", update' \notin {"other", "run"},
             UNCHANGED <<boot, pkg, skipped, versions, exe, torn_files, cut>>
      PROVE  FilesKnown' /\ ThroughBrought' /\ RunsNext'
  <2>1. FilesKnown' /\ RunsNext'
    BY <1>2 DEF RepairInv, FilesKnown, RunsNext
  <2>2. ThroughBrought'
    BY <1>2 DEF RepairInv, ThroughBrought, Through, Brought
  <2> QED  BY <2>1, <2>2
<1>3. ASSUME Unpack PROVE FilesKnown' /\ ThroughBrought' /\ RunsNext'
  BY <1>2, <1>3, NextPackageRepairs DEF Unpack
<1>4. ASSUME CheckSums PROVE FilesKnown' /\ ThroughBrought' /\ RunsNext'
  BY <1>2, <1>4, NextPackageRepairs DEF CheckSums
<1>5. ASSUME RunPackage PROVE FilesKnown' /\ ThroughBrought' /\ RunsNext'
  BY <1>5, NextPackageRepairs DEF RunPackage
<1> QED  BY <1>1, <1>3, <1>4, <1>5

\* The package at hand is none of those the update is through with.
LEMMA ReplacesRepair ==
  RepairInv /\ (RemoveOthers \/ MoveTemp) => FilesKnown' /\ ThroughBrought' /\ RunsNext'
<1> SUFFICES ASSUME RepairInv, RemoveOthers \/ MoveTemp
             PROVE  FilesKnown' /\ ThroughBrought' /\ RunsNext'
  OBVIOUS
<1>1. /\ boot = "install" /\ update \in {"remove", "move"} /\ update' \in {"move", "run"}
      /\ cut' \subseteq cut /\ UNCHANGED <<boot, pkg, torn_files, skipped>>
  BY DEF RemoveOthers, MoveTemp, inPlace
<1>2. versions \in [PackageSet -> SUBSET Directory] /\ pkg \in 1..Len(Packages)
      /\ thisPackage \in PackageSet
  BY ThisIs DEF RepairInv, InstallInv, InstallTypes
<1>3. FilesKnown'
  BY <1>1 DEF RepairInv, FilesKnown
<1>4. \A p \in PackageSet : p # thisPackage => versions'[p] = versions[p]
  BY <1>2 DEF RemoveOthers, MoveTemp
<1>5. thisPackage # "software" => exe' = exe
  BY DEF RemoveOthers, MoveTemp
<1>6. ThroughBrought'
  <2> SUFFICES ASSUME NEW n \in 1..Len(Packages), Through(n)', Packages[n] \notin skipped'
               PROVE  Brought(Packages[n])'
    BY DEF ThroughBrought
  <2>1. n < pkg /\ Brought(Packages[n])
    BY <1>1 DEF Through, RepairInv, ThroughBrought
  <2>2. Packages[n] # thisPackage /\ Packages[n] \in PackageSet
    <3>1. n # pkg /\ n \in DOMAIN Packages /\ pkg \in DOMAIN Packages
      BY <2>1, <1>2, PackagesAre
    <3> QED  BY <3>1, PackagesAre, InstallAssumption DEF thisPackage
  <2> QED  BY <2>1, <2>2, <1>1, <1>4, <1>5 DEF Brought
<1>7. RunsNext'
  <2>1. CASE update' = "move"
    BY <2>1 DEF RunsNext
  <2>2. CASE update' = "run"
    <3>1. /\ boot = "install" /\ update = "move"
          /\ versions' = [versions EXCEPT ![thisPackage] =
                            {[Version("new") EXCEPT !.files = temp]}]
          /\ cut' = cut \ {thisPackage} /\ thisPackage' = thisPackage
      BY <2>2, <1>1 DEF RemoveOthers, MoveTemp, thisPackage
    <3>2. temp = Whole
      BY <3>1 DEF RepairInv, InstallInv, TempChecked
    <3>3. versions'[thisPackage] = {Version("new")}
      BY <3>1, <3>2, <1>2, VersionIs
    <3> QED  BY <3>1, <3>3 DEF RunsNext
  <2> QED  BY <2>1, <2>2, <1>1
<1> QED  BY <1>3, <1>6, <1>7

LEMMA OutsideRepair ==
  RepairInv /\ (SleepEnds \/ BurnStarts \/ Burn \/ StartProgram \/ PowerFails \/ PowerOn)
    => FilesKnown' /\ ThroughBrought' /\ RunsNext'
<1> SUFFICES ASSUME RepairInv PROVE
      (SleepEnds \/ BurnStarts \/ Burn \/ StartProgram \/ PowerFails \/ PowerOn)
        => FilesKnown' /\ ThroughBrought' /\ RunsNext'
  OBVIOUS
<1>0. FilesKnown /\ torn_files \subseteq OtherFiles \cup RunFiles /\ cut \subseteq PackageSet
  BY DEF RepairInv, FilesKnown
<1>1. ASSUME SleepEnds \/ BurnStarts \/ Burn \/ StartProgram
      PROVE  FilesKnown' /\ ThroughBrought' /\ RunsNext'
  <2>1. /\ boot' \notin {"install", "installed"} /\ skipped' \in {skipped, {}}
        /\ torn_files' = torn_files /\ cut' = cut
    BY <1>1 DEF SleepEnds, BurnStarts, Burn, StartProgram, inPlace
  <2> QED  BY <2>1, <1>0, NotUpdating
<1>2. ASSUME PowerFails PROVE FilesKnown' /\ ThroughBrought' /\ RunsNext'
  <2>1. boot' = "off" /\ skipped' = {}
    BY <1>2 DEF PowerFails
  <2>2. cut' \subseteq PackageSet
    <3>1. thisPackage \in PackageSet
      BY ThisIs DEF RepairInv, InstallInv
    <3>2. cut' \in {cut, cut \cup {thisPackage}, cut \ {thisPackage}}
      BY <1>2 DEF PowerFails
    <3> QED  BY <3>1, <3>2, <1>0
  <2>3. torn_files' \subseteq OtherFiles \cup RunFiles
    <3>1. Written \subseteq OtherFiles \cup RunFiles
      BY DEF Written
    <3>2. PICK torn \in SUBSET Written : torn_files' = (torn_files \ Written) \cup torn
      BY <1>2 DEF PowerFails
    <3> HIDE DEF Written
    <3> QED  BY <3>1, <3>2, <1>0
  <2> QED  BY <2>1, <2>2, <2>3, <1>0, NotUpdating
<1>3. ASSUME PowerOn PROVE FilesKnown' /\ ThroughBrought' /\ RunsNext'
  <2>1. /\ boot' \in {"install", "check"} /\ pkg' = 1 /\ update' = "other"
        /\ UNCHANGED <<torn_files, skipped, cut>>
    BY <1>3 DEF PowerOn, inPlace
  <2>2. FilesKnown'
    BY <1>0, <2>1 DEF FilesKnown
  <2>3. ThroughBrought' /\ RunsNext'
    BY <2>1 DEF ThroughBrought, Through, RunsNext
  <2> QED  BY <2>2, <2>3
<1> QED  BY <1>1, <1>2, <1>3

LEMMA RepairInvStep == RepairInv /\ [InstallNext]_installVars => RepairInv'
<1> SUFFICES ASSUME RepairInv, [InstallNext]_installVars PROVE RepairInv'
  OBVIOUS
<1>1. InstallInv'
  BY InstallInvStep DEF RepairInv
<1>2. CASE UNCHANGED installVars
  <2>1. FilesKnown'
    BY <1>2 DEF installVars, RepairInv, FilesKnown
  <2>2. ThroughBrought' /\ RunsNext'
    BY <1>2 DEF installVars, RepairInv, ThroughBrought, Through, Brought, RunsNext,
                thisPackage
  <2> QED  BY <1>1, <2>1, <2>2 DEF RepairInv
<1> QED  BY <1>1, <1>2, CopiesRepair, ReplacesRepair, OutsideRepair
         DEF InstallNext, RepairInv

\* When the update is through it is through with every package.
LEMMA RepairInvSound == RepairInv => InstallSound
<1> SUFFICES ASSUME RepairInv, boot = "installed"
             PROVE  /\ cut \cup torn_files \subseteq skipped
                    /\ \A p \in PackageSet \ skipped : versions[p] = {Version("new")}
                    /\ "software" \notin skipped => exe = "new"
  BY DEF InstallSound, UpdateRepairs, RepairInv, InstallInv
<1>1. \A p \in PackageSet \ skipped : Brought(p)
  <2> TAKE p \in PackageSet \ skipped
  <2>1. PICK n \in 1..Len(Packages) : p = Packages[n]
    BY PackagesAre DEF PackageSet
  <2> QED  BY <2>1 DEF RepairInv, ThroughBrought, Through
<1>2. cut \subseteq skipped
  BY <1>1 DEF Brought, RepairInv, FilesKnown
<1>3. "software" \notin skipped => exe = "new" /\ torn_files \cap RunFiles = {}
  BY <1>1, PackagesAre DEF Brought
<1>4. torn_files \subseteq skipped
  BY <1>3 DEF RepairInv, FilesKnown
<1> QED  BY <1>1, <1>2, <1>3, <1>4 DEF Brought

-----------------------------------------------------------------------------
(* All of them, each as the part that a behaviour of MCHost runs.          *)

FilesInv == ConfigInv /\ OtaInv /\ RepairInv

LEMMA FilesInvInit == HostInit => FilesInv
BY ConfigInvInit, OtaInvInit, RepairInvInit DEF HostInit, FilesInv

LEMMA FilesInvStep == FilesInv /\ [HostNext]_HostVars => FilesInv'
<1> SUFFICES ASSUME FilesInv, [HostNext]_HostVars PROVE FilesInv'
  OBVIOUS
<1>1. [ConfigNext]_configVars /\ [OtaNext]_otaVars /\ [InstallNext]_installVars
  BY DEF HostNext, HostVars, OthersRest
<1> QED  BY <1>1, ConfigInvStep, OtaInvStep, RepairInvStep DEF FilesInv

\* Wherever the power fails, what SAVE_CONFIG saved is there and in force, the
\* partitions that are started next hold whole images - other than one that an
\* update began and a later file does not name -, and the programs and the
\* controllers of a printer that is up are whole ones, unless the power failed
\* between rm -rf of a package and its mv and no update has brought it since
\* (local_ota_update.sh:577-587, flashforge_init.sh:132-134, 173-175). An
\* update that is through has brought all that it did not skip.
THEOREM FilesSurvive == HostSpec => []Survives
<1>1. FilesInv => Survives
  BY OtaInvSound, RepairInvSound DEF FilesInv, Survives, ConfigInv
<1> QED  BY <1>1, FilesInvInit, FilesInvStep, PTL DEF HostSpec

-----------------------------------------------------------------------------
(* The loop of handle_trsync_state.                                        *)

\* The controllers the loop has seen.
Seen == {n \in Mcu : n < i}

\* What the loop knows of them.
LoopInv ==
  /\ LoopTypeOK
  /\ Seen = {} => min_time = Never /\ min_tdm = 0
  /\ Seen # {} => min_tdm \in Seen /\ min_time = status[min_tdm]
  /\ \A n \in Seen : min_time <= status[n]
  /\ \A n \in Seen : n # min_tdm => next_min_time <= status[n]
  /\ next_min_time = Never
     \/ \E n \in Seen : n # min_tdm /\ next_min_time = status[n]

(* The loop's invariant holds at its start.                                *)
LEMMA LoopInitInv == LoopInit => LoopInv
BY TimesAssumption, LoopAssumption
   DEF LoopInit, LoopInv, LoopTypeOK, Seen, Mcu

(* One pass keeps it: by where the new report falls.                       *)
LEMMA LoopStepInv == LoopInv /\ [Step]_vars => LoopInv'
<1> SUFFICES ASSUME LoopInv, Step PROVE LoopInv'
  <2>1. LoopInv /\ UNCHANGED vars => LoopInv'
    BY DEF LoopInv, LoopTypeOK, Seen, vars
  <2> QED BY <2>1
<1> USE TimesAssumption, LoopAssumption
<1>1. i \in Mcu /\ i' = i + 1 /\ status' = status /\ status[i] \in Nat
      /\ status[i] < Never
  BY DEF Step, LoopInv, LoopTypeOK, Mcu
<1>2. Seen' = Seen \cup {i} /\ i \notin Seen
  BY <1>1 DEF Seen, Mcu, LoopInv, LoopTypeOK
<1>3. LoopTypeOK'
  BY SMTT(30), <1>1 DEF Step, LoopInv, LoopTypeOK, Mcu
<1>4. min_time <= next_min_time
  BY DEF LoopInv, LoopTypeOK, Seen
<1>5. CASE status[i] >= next_min_time
  <2>1. UNCHANGED <<min_time, next_min_time, min_tdm>>
    BY <1>1, <1>4, <1>5 DEF Step, LoopInv, LoopTypeOK
  <2>2. next_min_time # Never /\ Seen # {}
    BY <1>1, <1>5 DEF LoopInv, LoopTypeOK
  <2> QED BY <1>1, <1>2, <1>3, <1>4, <1>5, <2>1, <2>2
          DEF LoopInv, LoopTypeOK
<1>6. CASE status[i] < next_min_time /\ status[i] >= min_time
  <2>1. next_min_time' = status[i] /\ UNCHANGED <<min_time, min_tdm>>
    BY <1>1, <1>6 DEF Step, LoopInv, LoopTypeOK
  <2>2. Seen # {}
    BY <1>1, <1>6 DEF LoopInv, LoopTypeOK
  <2> QED BY <1>1, <1>2, <1>3, <1>6, <2>1, <2>2 DEF LoopInv, LoopTypeOK, Seen
<1>7. CASE status[i] < next_min_time /\ status[i] < min_time
  <2>1. next_min_time' = min_time /\ min_time' = status[i] /\ min_tdm' = i
    BY <1>1, <1>7 DEF Step, LoopInv, LoopTypeOK
  <2> QED BY <1>1, <1>2, <1>3, <1>7, <2>1 DEF LoopInv, LoopTypeOK, Seen
<1> QED BY <1>1, <1>5, <1>6, <1>7 DEF LoopInv, LoopTypeOK

(* At its end the invariant says what the times are.                       *)
LEMMA LoopInvCorrect == LoopInv => LoopCorrect
<1> SUFFICES ASSUME LoopInv, i = N + 1, NEW m \in Mcu
             PROVE  StatusTime(m) = Earliest(Others(m), status)
  BY DEF LoopCorrect, Extended
<1> USE TimesAssumption, LoopAssumption
<1>1. Seen = Mcu /\ 1 \in Mcu /\ status \in [Mcu -> Nat]
  BY DEF Seen, Mcu, LoopInv, LoopTypeOK
<1>2. min_tdm \in Mcu /\ min_time = status[min_tdm]
      /\ \A n \in Mcu : min_time <= status[n]
  BY <1>1 DEF LoopInv
<1>3. CASE N = 1
  <2>1. Mcu = {1} /\ Others(m) = Mcu /\ m = 1 /\ min_tdm = 1
    BY <1>2, <1>3 DEF Others, Mcu
  <2>2. StatusTime(m) = status[1]
    BY <1>1, <1>2, <2>1 DEF StatusTime, LoopInv
  <2> QED BY <1>1, <2>1, <2>2, EarliestUnique
<1>4. CASE N # 1 /\ m # min_tdm
  <2>1. min_tdm \in Others(m) /\ Others(m) \in SUBSET Mcu
    BY <1>2, <1>4 DEF Others
  <2>2. Earliest(Others(m), status) = status[min_tdm]
    BY <1>1, <1>2, <2>1, EarliestUnique
  <2> QED BY <1>2, <1>4, <2>2 DEF StatusTime
<1>5. CASE N # 1 /\ m = min_tdm
  <2>1. Others(m) = Mcu \ {m} /\ Others(m) # {}
    BY <1>5, OthersExist DEF Others
  <2>2. next_min_time # Never
    <3>1. PICK o \in Mcu : o # min_tdm
      BY <1>5, <2>1
    <3>2. next_min_time <= status[o] /\ status[o] \in 0..Last
      BY <1>1, <3>1 DEF LoopInv, LoopTypeOK
    <3> QED BY <3>2 DEF LoopInv, LoopTypeOK
  <2>3. PICK n \in Others(m) : next_min_time = status[n]
    BY <1>1, <1>5, <2>1, <2>2 DEF LoopInv
  <2>4. \A o \in Others(m) : status[n] <= status[o]
    BY <1>1, <1>5, <2>1, <2>3 DEF LoopInv
  <2>5. Earliest(Others(m), status) = status[n]
    BY <1>1, <2>1, <2>4, EarliestUnique
  <2> QED BY <1>5, <2>2, <2>3, <2>5 DEF StatusTime
<1> QED BY <1>3, <1>4, <1>5

(* The loop finds for every controller the earliest report of the others,  *)
(* for every number of controllers (trdispatch.c:95-116).                  *)
THEOREM LoopIsCorrect == LoopSpec => []LoopCorrect
<1>1. LoopSpec => []LoopInv
  BY LoopInitInv, LoopStepInv, PTL DEF LoopSpec
<1> QED BY <1>1, LoopInvCorrect, PTL
=============================================================================
