----------------------------- MODULE KernelUpdate -----------------------------
(***************************************************************************)
(* kernel/local_ota_update.sh: a new kernel, root file system and rtos are *)
(* written to the partitions the printer does not run from, and the next   *)
(* start is switched to them when all are there.                           *)
(*                                                                         *)
(* The script hands an image on in pieces, through files in /tmp/ota, to a *)
(* writer it starts in the background (/etc/ota_bin, external).  Files are *)
(* the only way they talk: a piece may be taken (.ok), was written (.done),*)
(* the script gave up (.quit), the image is done (.ok) or not (.failed).   *)
(* The power may fail at any moment; /tmp is lost then, partitions stay.   *)
(*                                                                         *)
(* What is copied is whole or not; waiting takes up to a thousand rounds   *)
(* and may end at any time.  A line of ota_update.in is its key; values    *)
(* carry the number of the section of the file they stand in.              *)
(***************************************************************************)
EXTENDS Naturals, FiniteSets

CONSTANTS
  Pieces,      \* number of pieces of an image
  MaxSections  \* img_type lines of ota_update.in that TLC considers

ImgTypes == {"kernel", "rootfs", "rtos"}
ImgKeys  == {"name", "size", "md5"}

VARIABLES
  ota_stage,   \* where the script is; "off" without power, "ended" after exit
  img,         \* img_type and the section of img_name, img_size, img_md5
  ota,         \* what save_img_config saved for a type, the same way
  section,     \* history: img_type lines read so far
  at_img,      \* the type that is being updated
  piece,       \* the number i of download_ota_img
  tmp,         \* pieces that lie in /tmp/ota, and whether they are whole
  files,       \* the marks there: <<"ok", i>>, <<"done", i>>, <<"quit", 0>>
  writer,      \* the background writer: "none" or "runs"
  slot,        \* what the other partitions hold: pieces written, all whole
  next_boot,   \* the partitions that are started next
  begun,       \* history: types whose image was begun and not finished since
  types_wanted       \* history: the types of the last configuration accepted

otaVars == <<ota_stage, img, ota, section, at_img, piece, tmp, files, writer,
             slot, next_boot, begun, types_wanted>>

Untouched == [written |-> 0, whole |-> TRUE]
Complete == [written |-> Pieces, whole |-> TRUE]
NoImg == [type |-> "", name |-> 0, size |-> 0, md5 |-> 0]

OtaInit ==
  /\ ota_stage = "off" /\ img = NoImg /\ ota = [t \in ImgTypes |-> NoImg]
  /\ section = 0 /\ at_img = "" /\ piece = 0 /\ tmp = << >> /\ files = {}
  /\ writer = "none"
  /\ slot = [t \in ImgTypes |-> Untouched]
  /\ next_boot = "old" /\ begun = {} /\ types_wanted = {}

parseState == <<img, ota, section>>
copyState  == <<at_img, piece, tmp, files>>
diskState  == <<slot, next_boot, begun>>

\* The script leaves: what it was about has failed.
GiveUp == /\ ota_stage' = "ended"
          /\ UNCHANGED <<parseState, copyState, writer, diskState,
                         types_wanted>>

-----------------------------------------------------------------------------
(* ota_update.in.                                                          *)

\* From the empty /tmp/ota to parse_ota_update_config, for a version newer
\* than the one that runs
Begin ==
  /\ ota_stage = "off" /\ next_boot = "old"
  /\ ota_stage' = "parse" /\ img' = NoImg /\ ota' = [t \in ImgTypes |-> NoImg]
  /\ section' = 0 /\ tmp' = << >> /\ files' = {}
  /\ UNCHANGED <<at_img, piece, writer, diskState, types_wanted>>

\* save_img_config; otherwise the file is refused
Saves == /\ img.type \in ImgTypes /\ ota[img.type] = NoImg
         /\ \A k \in ImgKeys : img[k] # 0

\* Mutant: a value that was saved is still there for the next section.
Cleared_Md5Kept == [NoImg EXCEPT !.md5 = img.md5]

Cleared == NoImg

\* A line img_type = t: the section before it is saved.
ParseType ==
  /\ ota_stage = "parse" /\ section < MaxSections
  /\ \E t \in ImgTypes \cup {"other"} :
       IF img.type = "" \/ Saves
       THEN /\ img' = [(IF img.type = "" THEN img ELSE Cleared)
                       EXCEPT !.type = t]
            /\ ota' = IF img.type = "" THEN ota
                      ELSE [ota EXCEPT ![img.type] = img]
            /\ section' = section + 1
            /\ UNCHANGED <<ota_stage, copyState, writer, diskState,
                           types_wanted>>
       ELSE GiveUp

\* A line img_name, img_size or img_md5, checked by check_img_config; another
\* version in ota_version fails as well
ParseField ==
  /\ ota_stage = "parse"
  /\ \E k \in ImgKeys :
       IF img.type # "" /\ img[k] = 0
       THEN /\ img' = [img EXCEPT ![k] = section]
            /\ UNCHANGED <<ota_stage, ota, section, copyState, writer,
                           diskState, types_wanted>>
       ELSE GiveUp

\* The end of the file, and the sizes of the partitions, which may not do
ParseEnd ==
  /\ ota_stage = "parse"
  /\ \/ GiveUp
     \/ /\ img.type = "" \/ Saves
        /\ ota' = IF img.type = "" THEN ota ELSE [ota EXCEPT ![img.type] = img]
        /\ img' = NoImg
        /\ types_wanted' = {t \in ImgTypes : ota'[t] # NoImg}
        /\ ota_stage' = "next" /\ at_img' = ""
        /\ UNCHANGED <<section, piece, tmp, files, writer, diskState>>

-----------------------------------------------------------------------------
(* download_ota_img and the writer.                                        *)

\* kernel, rootfs, rtos
After(t) == CASE t = "" -> {"kernel", "rootfs", "rtos"}
              [] t = "kernel" -> {"rootfs", "rtos"}
              [] t = "rootfs" -> {"rtos"}
              [] OTHER -> {}

Remaining == {t \in After(at_img) : ota[t] # NoImg}

\* The next image that is to be updated: its writer is started.
StartImage ==
  /\ ota_stage = "next"
  /\ \E t \in Remaining :
       /\ \A u \in Remaining : u = t \/ u \in After(t)
       /\ at_img' = t
       /\ slot' = [slot EXCEPT ![t] = Untouched]
       /\ begun' = begun \cup {t}
  /\ ota_stage' = "get" /\ piece' = 0 /\ files' = {}
  /\ writer' = "runs" /\ UNCHANGED <<parseState, tmp, next_boot, types_wanted>>

\* Mutant: the md5 sum of a piece is not compared.
PieceGood_Unchecked(c) == c # "missing"

\* Whether cp succeeds, the piece is not empty and its md5 sum the one listed
PieceGood(c) == c = "whole"

Quits == /\ ota_stage' = "ended" /\ files' = files \cup {<<"quit", 0>>}
         /\ UNCHANGED <<parseState, at_img, piece, tmp, writer, diskState,
                        types_wanted>>

GetPiece ==
  /\ ota_stage = "get"
  /\ \E c \in {"whole", "damaged", "missing"} :
       IF ~PieceGood(c) THEN Quits
       ELSE /\ tmp' = [i \in DOMAIN tmp \cup {piece} |->
                         IF i = piece THEN c ELSE tmp[i]]
            /\ files' = files \cup {<<"ok", piece>>}
            /\ ota_stage' = IF piece > 0 THEN "wait"
                            ELSE IF Pieces = 1 THEN "last" ELSE "get"
            /\ piece' = IF ota_stage' = "get" THEN piece + 1 ELSE piece
            /\ UNCHANGED <<parseState, at_img, writer, diskState, types_wanted>>

\* The piece the script waits for
Awaited == IF ota_stage = "wait" THEN piece - 1 ELSE piece

\* wait_file for the .done of the piece before, or of the last piece; then
\* the piece is removed.
PieceDone ==
  /\ ota_stage \in {"wait", "last"}
  /\ \/ Quits
     \/ /\ <<"done", Awaited>> \in files
        /\ tmp' = [i \in DOMAIN tmp \ {Awaited} |-> tmp[i]]
        /\ ota_stage' = IF ota_stage = "last" THEN "finish"
                        ELSE IF piece + 1 = Pieces THEN "last" ELSE "get"
        /\ piece' = IF ota_stage' = "get" THEN piece + 1 ELSE piece
        /\ UNCHANGED <<parseState, at_img, files, writer, diskState,
                       types_wanted>>

\* The loop that waits for the end of the writer
ImageDone ==
  /\ ota_stage = "finish"
  /\ \/ GiveUp
     \/ /\ <<"image ok", 0>> \in files /\ ota_stage' = "next"
        /\ begun' = begun \ {at_img}
        /\ UNCHANGED <<parseState, copyState, writer, slot, next_boot,
                       types_wanted>>

\* local_set_next_boot_device (external), when there was anything to update:
\* all partitions are switched, those without an image in the file as well.
Success ==
  /\ ota_stage = "next" /\ Remaining = {}
  /\ ota_stage' = "ended"
  /\ next_boot' = IF types_wanted = {} THEN next_boot ELSE "new"
  /\ UNCHANGED <<parseState, copyState, writer, slot, begun, types_wanted>>

\* The writer takes the next piece, or notices that the script gave up, or
\* fails. It knows from the size when it is done.
WriterWrites ==
  LET i == slot[at_img].written IN
  /\ writer = "runs"
  /\ \/ /\ <<"ok", i>> \in files /\ i \in DOMAIN tmp
        /\ slot' = [slot EXCEPT ![at_img] =
                      [written |-> i + 1,
                       whole |-> @.whole /\ tmp[i] = "whole"]]
        /\ files' = files \cup {<<"done", i>>} /\ UNCHANGED writer
     \/ /\ i = Pieces /\ writer' = "none"
        /\ files' = files \cup {<<"image ok", 0>>} /\ UNCHANGED slot
     \/ /\ files' = files \cup {<<"failed", 0>>} /\ writer' = "none"
        /\ UNCHANGED slot
     \/ <<"quit", 0>> \in files /\ writer' = "none" /\ UNCHANGED <<files, slot>>
  /\ UNCHANGED <<ota_stage, parseState, at_img, piece, tmp, next_boot, begun,
                 types_wanted>>

OtaPowerFails ==
  /\ ota_stage # "off" /\ ota_stage' = "off" /\ writer' = "none"
  /\ tmp' = << >> /\ files' = {} /\ img' = NoImg /\ section' = 0
  /\ ota' = [t \in ImgTypes |-> NoImg] /\ at_img' = "" /\ piece' = 0
  /\ UNCHANGED <<diskState, types_wanted>>

OtaNext ==
  \/ Begin \/ ParseType \/ ParseField \/ ParseEnd \/ StartImage \/ GetPiece
  \/ PieceDone \/ ImageDone \/ Success \/ WriterWrites \/ OtaPowerFails

OtaSpec == OtaInit /\ [][OtaNext]_otaVars

-----------------------------------------------------------------------------
(* Properties.                                                             *)

\* Wherever the power fails, the partitions are switched only when each image
\* the file names was written from its first piece to its last and each piece
\* was checked (lines 551-587). The others are started as they are there: they
\* were never written or are whole, unless an earlier update began them and
\* broke off; nothing keeps a file that does not name such an image from
\* switching to it.
BootsWhole ==
  /\ next_boot = "new" => \A t \in types_wanted : slot[t] = Complete
  /\ \A t \in ImgTypes \ begun : slot[t] \in {Untouched, Complete}

\* An image is written with the name, size and md5 sum of its own section of
\* the file (lines 9-170).
OwnSection ==
  \A t \in ImgTypes : ota[t].name = ota[t].size /\ ota[t].size = ota[t].md5

\* /tmp is memory: it never holds more than two pieces of an image, and the
\* writer is never without the piece it is at once that is promised
\* (lines 222-254).
TwoPieces ==
  /\ Cardinality(DOMAIN tmp) <= 2
  /\ writer = "runs" /\ <<"ok", slot[at_img].written>> \in files =>
       slot[at_img].written \in DOMAIN tmp

UpdateSound == BootsWhole /\ OwnSection /\ TwoPieces
=============================================================================
