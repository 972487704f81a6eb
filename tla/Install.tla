------------------------------- MODULE Install -------------------------------
(***************************************************************************)
(* Installing an update from a USB stick: app_startup.sh, which the        *)
(* printer starts with, flashforge_init.sh of the update, and the run.sh   *)
(* of the packages it unpacks into /usr/prog/PROGRAM.                      *)
(*                                                                         *)
(* The power may fail at any moment.  A step is a command with the sync    *)
(* that follows it, and a failure in a step leaves anything between what   *)
(* was there before and what should be there after: files are Torn.  A     *)
(* rename is done or not.  Versions are "old", which the printer came      *)
(* with, and "new", which the stick brings; one directory of a version     *)
(* is [ver, files, update], where update says that the file Update, which  *)
(* asks for the controllers to be burnt, is in it.                         *)
(*                                                                         *)
(* Some files are written in place, without a temporary name and without   *)
(* a sum: klippy and printer.cfg by update_other, and by the run.sh of     *)
(* software the script the printer starts with and some copies             *)
(* (printer.base.cfg, start.sh and modules of klippy).                     *)
(***************************************************************************)
EXTENDS Integers, Sequences

CONSTANTS
  Packages,             \* a sequence: the order of flashforge_init.sh
  Whole, Torn, Missing  \* what is found of files

PackageSet == {Packages[i] : i \in DOMAIN Packages}

ASSUME InstallAssumption ==
  /\ Packages \in Seq(PackageSet) /\ {"control", "software"} \subseteq PackageSet
  /\ \A i, j \in DOMAIN Packages : Packages[i] = Packages[j] => i = j
  /\ Whole \notin {Torn, Missing}
  /\ {Torn, Missing} \cap {"old", "new"} = {}

VARIABLES
  boot,     \* what app_startup.sh is about; "off", and "up" once it is done
  pkg,      \* the number of the package that is being updated
  update,   \* the command of update_control etc. that comes next
  temp,     \* temp of the package at hand; others are removed before use
  versions, \* the directories of versions of each package, one at most
  exe,      \* firmwareExe beside the versions of software: its version, Torn
            \* or Missing
  mcu,      \* what is burnt into the controllers
  torn_files, \* files written in place that are torn
  cut,      \* history: packages in which the power failed after the old
            \* version was touched and before the new one was in its place
  skipped   \* history: what this update did not bring, or not whole

installVars == <<boot, pkg, update, temp, versions, exe, mcu, torn_files, cut,
                 skipped>>
inPlace == <<torn_files, skipped>>

OtherFiles == {"klippy", "printer.cfg"}
RunFiles   == {"app_startup.sh", "copies"}

Version(v) == [ver |-> v, files |-> Whole, update |-> TRUE]

InstallInit ==
  /\ boot = "off" /\ pkg = 1 /\ update = "clear" /\ temp = Missing
  /\ versions = [p \in PackageSet |->
                   {[Version("old") EXCEPT !.update = FALSE]}]
  /\ exe = "old" /\ mcu = "old" /\ torn_files = {} /\ cut = {} /\ skipped = {}

-----------------------------------------------------------------------------
(* flashforge_init.sh.                                                     *)

thisPackage == Packages[pkg]

\* update_other, which comes first: what is on the stick is copied over what is
\* there; nobody looks whether it was whole.
UpdateOther ==
  /\ boot = "install" /\ update = "other" /\ update' = "clear"
  /\ \E given, damaged \in SUBSET OtherFiles :
       /\ damaged \subseteq given
       /\ torn_files' = (torn_files \ given) \cup damaged
       /\ skipped' = (OtherFiles \ given) \cup damaged
  /\ UNCHANGED <<boot, pkg, temp, versions, exe, mcu, cut>>

\* A package that is not replaced, and with software what its run.sh copies
Skip ==
  skipped' = skipped \cup {thisPackage}
             \cup IF thisPackage = "software" THEN RunFiles ELSE {}

NextPackage ==
  /\ update' = "clear"
  /\ IF pkg = Len(Packages) THEN boot' = "installed" /\ UNCHANGED pkg
     ELSE pkg' = pkg + 1 /\ UNCHANGED boot

\* rm -rf temp, mkdir temp and tar; the archive may be damaged.
Unpack ==
  /\ boot = "install" /\ update = "clear"
  /\ \/ temp' \in {Whole, Torn} /\ update' = "check"
        /\ UNCHANGED <<boot, pkg, skipped>>
     \/ NextPackage /\ Skip /\ UNCHANGED temp   \* it is not on the stick
  /\ UNCHANGED <<versions, exe, mcu, torn_files, cut>>

\* Mutant: the md5 sums are not checked.
SumsMatch_Any == TRUE

\* md5sum -s -c md5sum.list
SumsMatch == temp = Whole

CheckSums ==
  /\ boot = "install" /\ update = "check"
  /\ IF SumsMatch
     THEN update' = "remove" /\ UNCHANGED <<boot, pkg, temp, skipped>>
     ELSE temp' = Missing /\ NextPackage /\ Skip
  /\ UNCHANGED <<versions, exe, mcu, torn_files, cut>>

\* ls | grep -v temp | xargs rm -rf, which takes firmwareExe as well
RemoveOthers ==
  /\ boot = "install" /\ update = "remove" /\ update' = "move"
  /\ versions' = [versions EXCEPT ![thisPackage] = {}]
  /\ exe' = IF thisPackage = "software" THEN Missing ELSE exe
  /\ UNCHANGED <<boot, pkg, temp, mcu, inPlace, cut>>

\* mv temp version
MoveTemp ==
  /\ boot = "install" /\ update = "move" /\ update' = "run"
  /\ versions' = [versions EXCEPT ![thisPackage] =
                    {[Version("new") EXCEPT !.files = temp]}]
  /\ temp' = Missing /\ cut' = cut \ {thisPackage}
  /\ UNCHANGED <<boot, pkg, exe, mcu, inPlace>>

\* run.sh: that of software copies firmwareExe and RunFiles, that of control is
\* not run.
RunPackage ==
  /\ boot = "install" /\ update = "run" /\ NextPackage
  /\ IF thisPackage = "software"
     THEN exe' = "new" /\ torn_files' = torn_files \ RunFiles
     ELSE UNCHANGED <<exe, torn_files>>
  /\ UNCHANGED <<temp, versions, mcu, cut, skipped>>

-----------------------------------------------------------------------------
(* app_startup.sh.                                                         *)

\* With a stick that holds an update for this machine, or not. Without the
\* script nothing starts, and no stick is looked at.
PowerOn ==
  /\ boot = "off" /\ boot' \in {"install", "check"}
  /\ "app_startup.sh" \notin torn_files
  /\ pkg' = 1 /\ update' = "other"
  /\ UNCHANGED <<temp, versions, exe, mcu, inPlace, cut>>

\* After an update it waits to be switched off, but not for ever: sleep 100000.
SleepEnds ==
  /\ boot = "installed" /\ boot' = "check" /\ skipped' = {}
  /\ UNCHANGED <<pkg, update, temp, versions, exe, mcu, torn_files, cut>>

\* The newest version of the controllers' package: run.sh burns them when the
\* file Update is there.
BurnStarts ==
  /\ boot = "check"
  /\ IF \E d \in versions["control"] : d.update
     THEN boot' = "burn" /\ mcu' = Torn
     ELSE boot' = "start" /\ UNCHANGED mcu
  /\ UNCHANGED <<pkg, update, temp, versions, exe, inPlace, cut>>

\* The burning programs (external) need whole files, and remove Update at the
\* end: else the printer would never stop to reboot.  Then reboot -f.
Burn ==
  /\ boot = "burn" /\ boot' = "off"
  /\ \E d \in versions["control"] :
       IF d.files = Whole
       THEN /\ mcu' = d.ver
            /\ versions' = [versions EXCEPT !["control"] =
                              {[d EXCEPT !.update = FALSE]}]
       ELSE UNCHANGED <<mcu, versions>>
  /\ UNCHANGED <<pkg, update, temp, exe, inPlace, cut>>

\* What cp leaves of firmwareExe of a version
CopiedFrom(d) == IF d.files = Whole THEN {d.ver} ELSE {d.ver, Torn, Missing}

\* firmwareExe is started; when it does not run it is copied again from a
\* version.
StartProgram ==
  /\ boot = "start" /\ boot' = "up"
  /\ IF exe \in {Torn, Missing} /\ versions["software"] # {}
     THEN \E d \in versions["software"] : exe' \in CopiedFrom(d)
     ELSE UNCHANGED exe
  /\ UNCHANGED <<pkg, update, temp, versions, mcu, inPlace, cut>>

-----------------------------------------------------------------------------
(* A failure of the power.                                                 *)

\* Mutant: nothing is synced between tar and mv.
TempUnsafe_NoSync == update \in {"clear", "move"}

\* Whether temp may be torn by the failure: before the sync after tar
TempUnsafe == update = "clear"

\* What rm -rf may have left of the versions when the power fails
Remains(ds) ==
  {{}} \cup UNION {{{d}, {[d EXCEPT !.files = Torn]},
                    {[d EXCEPT !.files = Torn, !.update = FALSE]}} : d \in ds}

installsProgram == boot = "install" /\ thisPackage = "software"

\* The files that are being written in place
Written ==
  IF boot = "install" /\ update = "other" THEN OtherFiles
  ELSE IF installsProgram /\ update = "run" THEN RunFiles ELSE {}

PowerFails ==
  /\ boot # "off" /\ boot' = "off"
  /\ temp' \in IF boot = "install" /\ TempUnsafe
               THEN {temp, Torn, Missing} ELSE {temp}
  /\ \/ ~(boot = "install" /\ update \in {"remove", "move"})
        /\ UNCHANGED <<versions, cut>>
     \/ /\ boot = "install" /\ update = "remove"
        /\ cut' = cut \cup {thisPackage}
        /\ \E left \in Remains(versions[thisPackage]) :
             versions' = [versions EXCEPT ![thisPackage] = left]
     \/ /\ boot = "install" /\ update = "move"
        /\ \/ UNCHANGED versions /\ cut' = cut \cup {thisPackage}
           \/ /\ versions' = [versions EXCEPT ![thisPackage] =
                                {[Version("new") EXCEPT !.files = temp']}]
              /\ cut' = cut \ {thisPackage}
  /\ exe' \in CASE installsProgram /\ update = "remove" -> {exe, Missing}
                [] installsProgram /\ update = "run" -> {exe, Torn, "new"}
                [] boot = "start" -> {exe, Torn}
                [] OTHER -> {exe}
  /\ \E torn \in SUBSET Written : torn_files' = (torn_files \ Written) \cup torn
  /\ skipped' = {}
  /\ UNCHANGED <<pkg, update, mcu>>

InstallNext ==
  \/ PowerOn \/ UpdateOther \/ Unpack \/ CheckSums \/ RemoveOthers \/ MoveTemp
  \/ RunPackage \/ SleepEnds \/ BurnStarts \/ Burn \/ StartProgram \/ PowerFails

InstallSpec == InstallInit /\ [][InstallNext]_installVars

-----------------------------------------------------------------------------
(* Properties.                                                             *)

\* However often the power fails, a version of a package that is in its place is
\* the verified one, or the one the printer came with, whole - unless the
\* power failed between rm -rf of the old version and mv of the new one
\* (flashforge_init.sh:132-134, 173-175) and no update has brought the package
\* since: then there is none of it, or what rm has left.
NewIsVerified ==
  \A p \in PackageSet \ cut : \A d \in versions[p] : d.files = Whole

\* With the same exception a printer that is up runs a whole program on whole
\* controllers, also when the power failed while the program was copied or the
\* controllers were burnt (app_startup.sh:95-108, 173-186). Nothing is said of
\* torn_files: klippy and its configuration are written in place.
RunsWhole ==
  boot = "up" =>
    /\ "software" \notin cut => exe \in {"old", "new"}
    /\ "control" \notin cut => mcu \in {"old", "new"}

\* An update repairs what failures before it have left, if the printer starts at
\* all: when it is through, whatever it brought whole is there, in its new
\* version, and only the rest can still be cut or torn (flashforge_init.sh).
UpdateRepairs ==
  boot = "installed" =>
    /\ cut \cup torn_files \subseteq skipped
    /\ \A p \in PackageSet \ skipped : versions[p] = {Version("new")}
    /\ "software" \notin skipped => exe = "new"

InstallSound == NewIsVerified /\ RunsWhole /\ UpdateRepairs
=============================================================================
