------------------------------ MODULE VscBoot ------------------------------
(***************************************************************************)
(* Booting the Visual Sensing Controller, drivers/misc/mei/hw-vsc.c:       *)
(* mei_vsc_hw_reset pulses the reset pin and init_hw identifies the        *)
(* silicon, finds and parses three firmware files and downloads the images *)
(* they hold through the boot ROM. A transfer may fail and the ROM may     *)
(* answer any token; after a failure the reset is tried again with what    *)
(* the earlier attempts left in struct vsc_boot_fw.                        *)
(*                                                                         *)
(* Sizes and locations are in bytes of a scaled-down address space: the    *)
(* code has Page = 4096, Word = 2^32, RomChunk = 248 and FwChunk = 512.    *)
(***************************************************************************)
EXTENDS Naturals, Sequences, FiniteSets

CONSTANTS
  Page, Word, RomChunk, FwChunk,
  MainFiles, SensorFiles, SkuFiles,  \* what a firmware file may hold
  MaxBoots                           \* bound: resets

ASSUME BootAssumption ==
  /\ Page \in Nat \ {0} /\ Word \in Nat \ {0, 1}
  /\ RomChunk \in Nat \ {0} /\ FwChunk \in Nat \ {0}
  /\ MaxBoots \in Nat

IMG_CNT_MAX == 6
Bytes == 0 .. Word - 1
Svns == {"zero", "max", "other"}

\* A file that is not refused for its magic or its count holds between three
\* and six images, a sensor one at least two; sizes and locations are u32. What
\* a parser finds wrong with it is `bad'.
ASSUME FilesAssumption ==
  /\ \A f \in MainFiles : \E c \in 3 .. IMG_CNT_MAX :
       f \in [count : {c}, svn : Svns, bad : {"none", "file", "bootloader", "firmware"},
             size : [1 .. c -> Bytes], loc : [1 .. c -> Bytes]]
  /\ SensorFiles \subseteq
       [count : 2 .. IMG_CNT_MAX, bad : {"none", "file", "vision", "config"},
        size : [1 .. 2 -> Bytes], loc : [1 .. 2 -> Bytes]]
  /\ SkuFiles \subseteq [bad : {"none", "short", "size"}, size : Bytes]

\* enum FRAG_TYPE.
Types == {"BOOT", "ARC_SEM", "EM7D", "ACER", "ACEV", "ACEC", "SKU"}
IMG_ARC_ACER_ACEV_ACECNF_EM7D == 5
SKU_CONFIG_LOC == 1
Tokens == {"BOOTLOADER_REQ", "DUMP_RESP", "ERROR"}
NoFile == <<0, "none">>

VARIABLES
  silicon,   \* the part: [main, sub, key], fixed
  layout,    \* the number of images in its main firmware file, fixed
  boots,     \* resets so far
  pc,        \* where init_hw is
  sub_ver, names, svn, fw_cnt, frags,  \* of struct vsc_boot_fw
  held,      \* firmware files in memory, as <<boot, file>>
  fileLoc,   \* ghost: the locations the files give for ACEV and ACEC
  fileSvn,   \* ghost: svn of the main file of this boot
  next,      \* place in the list of images to download
  remain,    \* load_boot, load_fw_bin: bytes still to send
  got,       \* ROM: bytes received of each image since the reset
  ended,     \* ROM: got the bootloader's end_flag
  announced, img_cnt,  \* ROM: the images and their count in the DL_SET frame
  booted     \* ROM: got CAM_BOOT

part == <<silicon, layout>>
checked == <<sub_ver, names>>
parsed == <<svn, fw_cnt, frags, fileLoc, fileSvn>>
sending == <<next, remain>>
rom == <<got, ended, announced, img_cnt, booted>>
vars == <<silicon, layout, boots, pc, sub_ver, names, svn, fw_cnt, frags, held,
          fileLoc, fileSvn, next, remain, got, ended, announced, img_cnt, booted>>

Fragment == [data : (0 .. MaxBoots) \X {"none", "main", "sensor", "sku"},
             size : Bytes, location : Bytes]

TypeOK ==
  /\ silicon \in [main : {"A", "B"}, sub : {"A0", "A1", "other"}, key : {"debug", "prod"}]
  /\ layout \in 3 .. IMG_CNT_MAX
  /\ boots \in 0 .. MaxBoots
  /\ pc \in {"off", "efuse", "efuse_resp", "strap", "strap_resp", "main", "sensor", "sku",
             "query", "boot_start", "boot_cont", "dl_set", "fw_start", "fw_cont",
             "cam_boot", "done", "failed"}
  /\ sub_ver \in {"A0", "A1", "other"}
  /\ names \in {"none", "debug", "prod"}
  /\ svn \in Svns /\ fileSvn \in Svns
  /\ fw_cnt \in 0 .. 2 * IMG_CNT_MAX
  /\ frags \in [Types -> Fragment]
  /\ held \subseteq (1 .. MaxBoots) \X {"main", "sensor", "sku"}
  /\ fileLoc \in [{"ACEV", "ACEC"} -> Bytes]
  /\ next \in 0 .. 6 /\ remain \in Bytes
  /\ got \in [Types -> Bytes]
  /\ ended \in BOOLEAN /\ booted \in BOOLEAN
  /\ announced \subseteq Types
  /\ img_cnt \in 0 .. IMG_CNT_MAX

\* struct mei_vsc_hw is zeroed; substepping 0 is A0.
Init ==
  /\ silicon \in [main : {"A", "B"}, sub : {"A0", "A1", "other"}, key : {"debug", "prod"}]
  /\ layout \in {f.count : f \in MainFiles}
  /\ boots = 0 /\ pc = "off"
  /\ sub_ver = "A0" /\ names = "none" /\ svn = "zero" /\ fw_cnt = 0
  /\ frags = [t \in Types |-> [data |-> NoFile, size |-> 0, location |-> 0]]
  /\ held = {} /\ fileLoc = [t \in {"ACEV", "ACEC"} |-> 0] /\ fileSvn = "zero"
  /\ next = 0 /\ remain = 0
  /\ got = [t \in Types |-> 0] /\ ended = FALSE
  /\ announced = {} /\ img_cnt = 0 /\ booted = FALSE

-----------------------------------------------------------------------------
\* mei_vsc_hw_reset: vsc_reset restarts the ROM, then init_hw runs. Nothing in
\* struct vsc_boot_fw is cleared.
mei_vsc_hw_reset ==
  /\ pc \in {"off", "done", "failed"} /\ boots < MaxBoots
  /\ boots' = boots + 1
  /\ pc' = "efuse"
  /\ got' = [t \in Types |-> 0] /\ ended' = FALSE
  /\ announced' = {} /\ img_cnt' = 0 /\ booted' = FALSE
  /\ UNCHANGED <<part, checked, parsed, held, sending>>

\* The error labels of init_hw: every file of this boot is released. The
\* fragments keep pointing into them.
Fail ==
  /\ pc' = "failed"
  /\ held' = {h \in held : h[1] # boots}

\* spi_rom_dev_xfer fails, because the ROM stays busy for all the retries or
\* the SPI controller reports an error.
XferFails == pc \notin {"off", "main", "sensor", "sku", "done", "failed"}

RomXferFails ==
  /\ XferFails
  /\ Fail
  /\ UNCHANGED <<part, boots, checked, parsed, sending, rom>>

-----------------------------------------------------------------------------
(* check_silicon: two memory dumps, each a request and a response.         *)

\* A request answered by VSC_TOKEN_ERROR makes check_silicon return ret, which
\* is 0: init_hw goes on with what an earlier boot left.
DumpRequest(tok) ==
  /\ \/ /\ tok = "ERROR" /\ pc \in {"efuse", "strap"}
        /\ pc' = "main"
     \/ /\ tok # "ERROR" /\ pc = "efuse"
        /\ pc' = "efuse_resp"
     \/ /\ tok # "ERROR" /\ pc = "strap"
        /\ pc' = "strap_resp"
  /\ UNCHANGED <<part, boots, checked, parsed, held, sending, rom>>

\* The response carries the efuse word: only stepping A, A0 or A1, goes on.
EfuseResponse(tok) ==
  /\ pc = "efuse_resp"
  /\ \/ /\ tok # "DUMP_RESP" /\ Fail
        /\ UNCHANGED sub_ver
     \/ /\ tok = "DUMP_RESP"
        /\ sub_ver' = silicon.sub
        /\ \/ /\ silicon.main = "A" /\ silicon.sub \in {"A0", "A1"}
              /\ pc' = "strap" /\ UNCHANGED held
           \/ /\ silicon.main # "A" \/ silicon.sub \notin {"A0", "A1"}
              /\ Fail
  /\ UNCHANGED <<part, boots, names, parsed, sending, rom>>

\* Mutant of StrapResponse: the file names do not depend on the strap key.
StrapResponseDebug(tok) ==
  /\ pc = "strap_resp"
  /\ pc' = "main"
  /\ names' = "debug"
  /\ UNCHANGED <<part, boots, sub_ver, parsed, held, sending, rom>>

\* The strap word says which keys the part takes; only A1 has files.
StrapResponse(tok) ==
  /\ pc = "strap_resp"
  /\ \/ /\ tok # "DUMP_RESP" /\ Fail
        /\ UNCHANGED names
     \/ /\ tok = "DUMP_RESP"
        /\ names' = IF sub_ver = "A1" THEN silicon.key ELSE names
        /\ pc' = "main" /\ UNCHANGED held
  /\ UNCHANGED <<part, boots, sub_ver, parsed, sending, rom>>

check_silicon(tok) == DumpRequest(tok) \/ EfuseResponse(tok) \/ StrapResponse(tok)

-----------------------------------------------------------------------------
(* The three firmware files.                                               *)

\* Mutant of Align: rounded down.
AlignDown(x) == (x \div Page) * Page

\* The next multiple of a page, as u32 arithmetic computes it.
Align(x) == (((x + Page - 1) % Word) \div Page) * Page

Frag(file, size, location) ==
  [data |-> <<boots, file>>, size |-> size, location |-> location]

\* frags with the entries of `new' for the types written before the parser
\* returned.
Update(written, new) == [t \in Types |-> IF t \in written THEN new[t] ELSE frags[t]]

\* Where the ACE vision image goes. The file's location is compared with the
\* runtime image's, not with the one calculated.
AcevLocation(acer, loc) ==
  IF loc # 0 /\ acer.location # loc THEN loc ELSE Align(acer.location + acer.size)

\* Where the ACE configuration goes.
AcecLocation(acev, loc) ==
  IF loc # 0 THEN loc ELSE Align(acev.location + acev.size)

\* The place of an image in a main file of count images: EM7D is the last.
At(count, t) ==
  CASE t = "BOOT" -> 1 [] t = "ARC_SEM" -> 2
    [] t = "ACER" -> 3 [] t = "ACEV" -> 4 [] t = "ACEC" -> 5
    [] OTHER -> count

Holds(count) ==
  {"BOOT", "ARC_SEM", "EM7D"} \cup {t \in {"ACER", "ACEV", "ACEC"} : At(count, t) < count}

MainFrags(f) ==
  LET plain(t) == Frag("main", f.size[At(f.count, t)], f.loc[At(f.count, t)])
      acev == Frag("main", f.size[4], AcevLocation(plain("ACER"), f.loc[4]))
      acec == Frag("main", f.size[5], AcecLocation(acev, f.loc[5]))
  IN [t \in Holds(f.count) |->
       CASE t = "ACEV" -> acev [] t = "ACEC" -> acec [] OTHER -> plain(t)]

\* The images whose location may not be zero.
Required(count) == Holds(count) \ {"ACEV", "ACEC"}

\* Where the parser stops: the first required image without a location.
Stops(f, t) ==
  /\ MainFrags(f)[t].location = 0
  /\ \A u \in Required(f.count) :
       At(f.count, u) < At(f.count, t) => MainFrags(f)[u].location # 0

\* What has been written when the parser stops at image t.
WrittenAt(count, t) == {u \in Holds(count) : At(count, u) <= At(count, t)}

NewSvn(f) == IF f.svn = "max" THEN "max" ELSE IF svn = "zero" THEN f.svn ELSE svn

SvnMismatch(s) == (sub_ver = "A0" /\ s # "max") \/ (sub_ver = "A1" /\ s = "max")

\* parse_main_fw succeeds. No sensor package is needed when the main file
\* already has every image.
MainParsed(f) ==
  /\ frags' = Update(Holds(f.count), MainFrags(f))
  /\ fileLoc' = IF f.count = IMG_CNT_MAX
                  THEN [ACEV |-> f.loc[4], ACEC |-> f.loc[5]] ELSE fileLoc
  /\ fw_cnt' = f.count - 1
  /\ pc' = IF f.count - 1 < IMG_ARC_ACER_ACEV_ACECNF_EM7D THEN "sensor" ELSE "sku"
  /\ held' = held \cup {<<boots, "main">>}

\* request_firmware and parse_main_fw. The svn of the first accepted file is
\* kept unless a file says MAX_SVN_VALUE.
parse_main_fw(f) ==
  /\ pc = "main" /\ names # "none" /\ f.count = layout
  /\ \/ /\ f.bad = "file" /\ Fail
        /\ UNCHANGED parsed
     \/ /\ f.bad = "bootloader" /\ Fail
        /\ fw_cnt' = f.count - 1
        /\ UNCHANGED <<svn, fileSvn, frags, fileLoc>>
     \/ /\ f.bad \notin {"file", "bootloader"}
        /\ svn' = NewSvn(f) /\ fileSvn' = f.svn
        /\ \/ /\ SvnMismatch(NewSvn(f)) \/ f.bad = "firmware"
              /\ Fail
              /\ fw_cnt' = f.count - 1
              /\ UNCHANGED <<frags, fileLoc>>
           \/ /\ ~SvnMismatch(NewSvn(f)) /\ f.bad = "none"
              /\ \/ \E t \in Required(f.count) :
                      /\ Stops(f, t)
                      /\ frags' = Update(WrittenAt(f.count, t), MainFrags(f))
                      /\ fw_cnt' = f.count - 1
                      /\ Fail
                      /\ UNCHANGED fileLoc
                 \/ /\ \A t \in Required(f.count) : MainFrags(f)[t].location # 0
                    /\ MainParsed(f)
  /\ UNCHANGED <<part, boots, checked, sending, rom>>

SensorAcev(f) ==
  Frag("sensor", f.size[1], AcevLocation(frags["ACER"], f.loc[1]))

SensorFrags(f) ==
  [ACEV |-> SensorAcev(f),
   ACEC |-> Frag("sensor", f.size[2], AcecLocation(SensorAcev(f), f.loc[2]))]

\* request_firmware and parse_sensor_fw: its two images replace the main
\* file's, and its images are added to fw_cnt.
parse_sensor_fw(f) ==
  /\ pc = "sensor"
  /\ \/ /\ f.bad = "file" /\ Fail
        /\ UNCHANGED <<fw_cnt, frags, fileLoc>>
     \/ /\ f.bad # "file"
        /\ fw_cnt' = fw_cnt + f.count
        /\ \/ /\ fw_cnt + f.count > IMG_CNT_MAX \/ f.bad = "vision"
              /\ Fail
              /\ UNCHANGED <<frags, fileLoc>>
           \/ /\ fw_cnt + f.count <= IMG_CNT_MAX /\ f.bad = "config"
              /\ frags' = Update({"ACEV"}, SensorFrags(f))
              /\ Fail
              /\ UNCHANGED fileLoc
           \/ /\ fw_cnt + f.count <= IMG_CNT_MAX /\ f.bad = "none"
              /\ frags' = Update({"ACEV", "ACEC"}, SensorFrags(f))
              /\ fileLoc' = [ACEV |-> f.loc[1], ACEC |-> f.loc[2]]
              /\ pc' = "sku"
              /\ held' = held \cup {<<boots, "sensor">>}
  /\ UNCHANGED <<part, boots, checked, svn, fileSvn, sending, rom>>

\* request_firmware and parse_sku_cnf_fw, then load_bootloader begins.
parse_sku_cnf_fw(f) ==
  /\ pc = "sku"
  /\ \/ /\ f.bad = "short" /\ Fail
        /\ UNCHANGED frags
     \/ /\ f.bad = "size" /\ Fail
        /\ frags' = Update({"SKU"}, [SKU |-> Frag("sku", f.size, SKU_CONFIG_LOC)])
     \/ /\ f.bad = "none"
        /\ frags' = Update({"SKU"}, [SKU |-> Frag("sku", f.size, SKU_CONFIG_LOC)])
        /\ held' = held \cup {<<boots, "sku">>}
        /\ pc' = "query"
  /\ UNCHANGED <<part, boots, checked, svn, fileSvn, fw_cnt, fileLoc, sending, rom>>

\* Mutant of FileNotFound: the sensor package is optional.
FileNotFoundGoesOn ==
  /\ pc = "sensor"
  /\ pc' = "sku"
  /\ UNCHANGED <<part, boots, checked, parsed, held, sending, rom>>

\* request_firmware finds no file; the empty name of a part that was never
\* identified finds none either.
FileNotFound ==
  /\ pc \in {"main", "sensor", "sku"}
  /\ Fail
  /\ UNCHANGED <<part, boots, checked, parsed, sending, rom>>

-----------------------------------------------------------------------------
(* Downloading.                                                            *)

\* load_bootloader: nothing is sent without a bootloader, or when the ROM does
\* not ask for one.
BootloaderQuery(tok) ==
  /\ pc = "query"
  /\ \/ /\ frags["BOOT"].size = 0 \/ tok \notin {"BOOTLOADER_REQ", "DUMP_RESP"}
        /\ Fail
     \/ /\ frags["BOOT"].size # 0 /\ tok \in {"BOOTLOADER_REQ", "DUMP_RESP"}
        /\ pc' = "boot_start"
        /\ UNCHANGED held
  /\ UNCHANGED <<part, boots, checked, parsed, sending, rom>>

BootloaderStart ==
  /\ pc = "boot_start"
  /\ pc' = "boot_cont"
  /\ remain' = frags["BOOT"].size
  /\ UNCHANGED <<part, boots, checked, parsed, held, next, rom>>

\* Mutant of Chunk: a full chunk is sent always.
ChunkFull(max) == max

Chunk(max) == IF remain > max THEN max ELSE remain

\* Chunks of at most RomChunk bytes; end_flag goes with the last one.
load_boot ==
  /\ pc = "boot_cont"
  /\ got' = [got EXCEPT !["BOOT"] = @ + Chunk(RomChunk)]
  /\ ended' = (ended \/ remain = Chunk(RomChunk))
  /\ remain' = remain - Chunk(RomChunk)
  /\ pc' = IF remain' = 0 THEN "dl_set" ELSE "boot_cont"
  /\ UNCHANGED <<part, boots, checked, parsed, held, next, announced, img_cnt, booted>>

\* The images load_fw announces: those of the ACE only with its runtime.
Announced ==
  {t \in Types \ {"BOOT", "SKU"} :
     /\ frags[t].size > 0
     /\ t \in {"ACEV", "ACEC"} => frags["ACER"].size > 0}

\* The images in the order of their download.
Downloads == <<"ARC_SEM", "ACER", "ACEV", "ACEC", "EM7D", "SKU">>

\* Mutant of DlSet: img_cnt counts the bootloader.
DlSetCountsBoot ==
  /\ pc = "dl_set"
  /\ announced' = Announced
  /\ img_cnt' = fw_cnt + 1
  /\ next' = 1
  /\ pc' = "fw_start"
  /\ UNCHANGED <<part, boots, checked, parsed, held, remain, got, ended, booted>>

\* load_fw: the DL_SET frame, with fw_cnt as the number of images and its
\* checksum behind fw_cnt pairs.
DlSet ==
  /\ pc = "dl_set"
  /\ \/ /\ frags["ARC_SEM"].size = 0 \/ frags["EM7D"].size = 0
        /\ Fail
        /\ UNCHANGED <<announced, img_cnt, next>>
     \/ /\ frags["ARC_SEM"].size # 0 /\ frags["EM7D"].size # 0
        /\ announced' = Announced
        /\ img_cnt' = fw_cnt
        /\ next' = 1
        /\ pc' = "fw_start"
        /\ UNCHANGED held
  /\ UNCHANGED <<part, boots, checked, parsed, remain, got, ended, booted>>

\* After an image: the next one, or none.
NextImage ==
  /\ pc' = IF next < Len(Downloads) THEN "fw_start" ELSE "cam_boot"
  /\ next' = IF next < Len(Downloads) THEN next + 1 ELSE 0

\* load_fw_frag: DL_START. An image of no bytes is left out.
FwStart ==
  /\ pc = "fw_start"
  /\ \/ /\ frags[Downloads[next]].size > 0
        /\ remain' = frags[Downloads[next]].size
        /\ pc' = "fw_cont" /\ UNCHANGED next
     \/ /\ frags[Downloads[next]].size = 0
        /\ NextImage /\ UNCHANGED remain
  /\ UNCHANGED <<part, boots, checked, parsed, held, rom>>

\* load_fw_bin: packets of one size, the last one padded.
load_fw_bin ==
  /\ pc = "fw_cont"
  /\ got' = [got EXCEPT ![Downloads[next]] = @ + Chunk(FwChunk)]
  /\ remain' = remain - Chunk(FwChunk)
  /\ IF remain' > 0 THEN UNCHANGED <<pc, next>> ELSE NextImage
  /\ UNCHANGED <<part, boots, checked, parsed, held, ended, announced, img_cnt, booted>>

\* init_hw returns 0; it keeps the files.
CamBoot ==
  /\ pc = "cam_boot"
  /\ booted' = TRUE
  /\ pc' = "done"
  /\ UNCHANGED <<part, boots, checked, parsed, held, sending, got, ended, announced, img_cnt>>

-----------------------------------------------------------------------------
Next ==
  \/ mei_vsc_hw_reset
  \/ RomXferFails
  \/ \E tok \in Tokens : check_silicon(tok) \/ BootloaderQuery(tok)
  \/ \E f \in MainFiles : parse_main_fw(f)
  \/ \E f \in SensorFiles : parse_sensor_fw(f)
  \/ \E f \in SkuFiles : parse_sku_cnf_fw(f)
  \/ FileNotFound
  \/ BootloaderStart \/ load_boot \/ DlSet \/ FwStart \/ load_fw_bin \/ CamBoot

Spec == Init /\ [][Next]_vars

-----------------------------------------------------------------------------
(* Properties.                                                             *)

Loading == pc \in {"query", "boot_start", "boot_cont", "dl_set", "fw_start", "fw_cont",
                   "cam_boot", "done"}

\* An image is only sent to a part it is made for, although check_silicon lets
\* a boot go on that read nothing: the part is stepping A1, the files are those
\* of its strap key, and the main file's svn is not the one reserved for A0.
MatchesSilicon ==
  Loading => /\ silicon.main = "A" /\ silicon.sub = "A1"
             /\ names = silicon.key
             /\ fileSvn # "max"

\* Every image that is sent lies in a file of this boot that has not been
\* released, although frags survives a failed boot and its release_firmware.
LiveData ==
  Loading => \A t \in Types : frags[t].size > 0 =>
               frags[t].data[1] = boots /\ frags[t].data \in held

\* A part that is told to boot has received every image completely, the
\* end_flag with the bootloader's last byte, and a DL_SET frame that lists the
\* images downloaded (those of the ACE are downloaded without its runtime, but
\* not listed) and counts them. The count is claimed for the two layouts that
\* count no image twice - all in the main file, or ACEV and ACEC in a sensor
\* file of no other image - when none of them is empty.
DownloadComplete ==
  /\ ended => got["BOOT"] = frags["BOOT"].size
  /\ booted => ended /\ \A t \in Types : got[t] = frags[t].size
  /\ (booted /\ frags["ACER"].size > 0) =>
       \A t \in Types \ {"BOOT", "SKU"} : got[t] > 0 <=> t \in announced
  /\ (booted /\ (layout = 6 \/ (layout = 4 /\ \A f \in SensorFiles : f.count # 3))
             /\ \A t \in Types \ {"SKU"} : frags[t].size > 0) =>
       img_cnt = Cardinality(announced)

\* Images whose locations the files leave to the driver do not overlap the
\* image before them, if that one ends at least a page before the end of the
\* address space.
NoOverlap ==
  (Loading /\ layout \in {4, 6}) =>
    \A p \in {<<"ACER", "ACEV">>, <<"ACEV", "ACEC">>} :
      LET end == frags[p[1]].location + frags[p[1]].size
      IN  fileLoc[p[2]] = 0 /\ end + Page <= Word => frags[p[2]].location >= end

\* The comments of both parsers: "when location mismatch, use the one from
\* image file." An ACE image is placed where the file says, if it says so.
LocationFromFile ==
  (Loading /\ layout \in {4, 6}) =>
    \A t \in {"ACEV", "ACEC"} : fileLoc[t] # 0 => frags[t].location = fileLoc[t]
=============================================================================
