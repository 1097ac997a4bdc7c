--------------------------- MODULE VscBootProofs ---------------------------
(***************************************************************************)
(* Proofs about VscBoot, for any firmware files, page, packet and address  *)
(* space sizes and number of boots.                                        *)
(***************************************************************************)
EXTENDS VscBoot, FiniteSetTheorems, TLAPS

-----------------------------------------------------------------------------
(* The inductive invariant, in named parts.                                *)

Parsing == pc \in {"sensor", "sku"}
Before == {"efuse", "efuse_resp", "strap", "strap_resp", "main", "sensor", "sku", "query",
           "boot_start"}

\* A part without names for its files was never identified; one that has them
\* is an A1, whatever the later boots could read of it.
IdentInv ==
  /\ pc # "off" => boots >= 1
  /\ pc \in {"strap", "strap_resp"} => silicon.main = "A" /\ sub_ver = silicon.sub
  /\ names # "none" => /\ silicon.main = "A" /\ silicon.sub = "A1"
                       /\ sub_ver = "A1" /\ names = silicon.key
  /\ Parsing \/ Loading => names # "none" /\ fileSvn # "max"

\* Which images the files parsed so far in this boot have replaced, and how
\* many they count.
Live(t) == frags[t].size > 0 => frags[t].data[1] = boots /\ frags[t].data \in held
NoThree == \A f \in SensorFiles : f.count # 3
DataInv ==
  /\ layout = 3 => frags["ACER"].size = 0
  /\ pc = "sensor" => \A t \in {"BOOT", "ARC_SEM", "EM7D", "ACER"} : Live(t)
  /\ pc = "sku" => \A t \in Types \ {"SKU"} : Live(t)
  /\ Loading => \A t \in Types : Live(t)
  /\ pc = "sensor" => layout < 6 /\ fw_cnt = layout - 1
  /\ pc = "sku" \/ Loading => /\ fw_cnt <= IMG_CNT_MAX
                              /\ layout = 6 \/ (layout = 4 /\ NoThree) => fw_cnt = 5

\* The placement of NoOverlap, from the moment the last file with an ACE image
\* is parsed.
Placed(t, u) ==
  (fileLoc[u] = 0 /\ frags[t].location + frags[t].size + Page <= Word) =>
    frags[u].location >= frags[t].location + frags[t].size
PlaceInv ==
  ((pc = "sku" \/ Loading) /\ layout \in {4, 6}) => Placed("ACER", "ACEV") /\ Placed("ACEV", "ACEC")

\* What the ROM has received, and what is still to be sent.
Received(t) == got[t] = frags[t].size
RomInv ==
  /\ pc \in Before => ~ended /\ \A t \in Types : got[t] = 0
  /\ pc = "boot_start" => frags["BOOT"].size > 0
  /\ pc = "boot_cont" => /\ ~ended /\ remain > 0 /\ got["BOOT"] + remain = frags["BOOT"].size
                         /\ \A t \in Types \ {"BOOT"} : got[t] = 0
  /\ pc = "dl_set" => \A t \in Types \ {"BOOT"} : got[t] = 0
  /\ pc \in {"dl_set", "fw_start", "fw_cont", "cam_boot", "done"} => ended
  /\ ended => Received("BOOT")
  /\ pc \in {"fw_start", "fw_cont"} =>
       /\ next >= 1
       /\ \A i \in 1 .. 6 : /\ i < next => Received(Downloads[i])
                            /\ i > next => got[Downloads[i]] = 0
  /\ pc = "fw_start" => got[Downloads[next]] = 0
  /\ pc = "fw_cont" => remain > 0 /\ got[Downloads[next]] + remain = frags[Downloads[next]].size
  /\ pc \in {"cam_boot", "done"} => \A t \in Types : Received(t)
  /\ pc \in {"fw_start", "fw_cont", "cam_boot", "done"} => announced = Announced /\ img_cnt = fw_cnt
  /\ booted => pc = "done"

IInv == TypeOK /\ IdentInv /\ DataInv /\ PlaceInv /\ RomInv

\* The groups of variables that actions leave unchanged.
USE DEF part, checked, parsed, sending, rom

-----------------------------------------------------------------------------
(* Facts about the operators.                                              *)

\* The place the driver calculates is not before the end of the image.
LEMMA AlignUp ==
  ASSUME NEW x \in Nat, x + Page <= Word
  PROVE  Align(x) >= x
<1>1. (x + Page - 1) % Word = x + Page - 1
  BY BootAssumption
<1>. DEFINE y == x + Page - 1
<1>2. (y \div Page) * Page >= y - (Page - 1)
  BY BootAssumption
<1>. QED
  BY <1>1, <1>2, BootAssumption DEF Align

LEMMA AlignType ==
  ASSUME NEW x \in Nat
  PROVE  Align(x) \in Bytes
<1>. DEFINE y == (x + Page - 1) % Word
<1>1. y \in Nat /\ y < Word
  BY BootAssumption
<1>2. (y \div Page) * Page <= y /\ (y \div Page) * Page \in Nat
  BY <1>1, BootAssumption
<1>. QED
  BY <1>1, <1>2, BootAssumption DEF Align, Bytes

\* The list of downloads has every image but the bootloader, once.
LEMMA DownloadsType ==
  /\ Len(Downloads) = 6
  /\ \A i \in 1 .. 6 : Downloads[i] \in Types \ {"BOOT"}
  /\ \A i, j \in 1 .. 6 : Downloads[i] = Downloads[j] => i = j
  /\ \A t \in Types \ {"BOOT"} : \E i \in 1 .. 6 : Downloads[i] = t
<1>1. Len(Downloads) = 6 /\ \A i \in 1 .. 6 : Downloads[i] \in Types \ {"BOOT"}
  BY DEF Downloads, Types
<1>2. \A i, j \in 1 .. 6 : Downloads[i] = Downloads[j] => i = j
  BY DEF Downloads
<1>3. \A t \in Types \ {"BOOT"} : \E i \in 1 .. 6 : Downloads[i] = t
  <2>1. /\ Downloads[1] = "ARC_SEM" /\ Downloads[2] = "ACER" /\ Downloads[3] = "ACEV"
        /\ Downloads[4] = "ACEC" /\ Downloads[5] = "EM7D" /\ Downloads[6] = "SKU"
    BY DEF Downloads
  <2>. QED
    BY <2>1 DEF Types
<1>. QED
  BY <1>1, <1>2, <1>3

\* The fragments that the parsers write: they lie in a file of this boot.
LEMMA LocationType ==
  ASSUME NEW x \in Fragment, NEW loc \in Bytes
  PROVE  AcevLocation(x, loc) \in Bytes /\ AcecLocation(x, loc) \in Bytes
<1>1. x.location + x.size \in Nat
  BY DEF Fragment, Bytes
<1>2. Align(x.location + x.size) \in Bytes
  BY <1>1, AlignType
<1>. QED
  BY <1>2 DEF AcevLocation, AcecLocation

LEMMA FragType ==
  ASSUME boots \in 0 .. MaxBoots, NEW file \in {"main", "sensor", "sku"},
         NEW size \in Bytes, NEW loc \in Bytes
  PROVE  /\ Frag(file, size, loc) \in Fragment
         /\ Frag(file, size, loc).data = <<boots, file>>
         /\ Frag(file, size, loc).size = size /\ Frag(file, size, loc).location = loc
BY DEF Frag, Fragment

LEMMA MainFragsType ==
  ASSUME boots \in 0 .. MaxBoots, NEW f \in MainFiles
  PROVE  /\ f.count \in 3 .. 6 /\ f.svn \in Svns
         /\ \A t \in Holds(f.count) :
              MainFrags(f)[t] \in Fragment /\ MainFrags(f)[t].data = <<boots, "main">>
         /\ f.count = 6 =>
              /\ f.loc[4] \in Bytes /\ f.loc[5] \in Bytes
              /\ f.loc[4] = 0 => MainFrags(f)["ACEV"].location
                                  = Align(MainFrags(f)["ACER"].location + MainFrags(f)["ACER"].size)
              /\ f.loc[5] = 0 => MainFrags(f)["ACEC"].location
                                  = Align(MainFrags(f)["ACEV"].location + MainFrags(f)["ACEV"].size)
<1>1. PICK c \in 3 .. 6 :
        /\ f.count = c /\ f.svn \in Svns
        /\ f.size \in [1 .. c -> Bytes] /\ f.loc \in [1 .. c -> Bytes]
  BY FilesAssumption DEF IMG_CNT_MAX
<1>2. \A t \in Holds(c) : At(c, t) \in 1 .. c
  BY DEF Holds, At
<1>. DEFINE plain(t) == Frag("main", f.size[At(c, t)], f.loc[At(c, t)])
           acev == Frag("main", f.size[4], AcevLocation(plain("ACER"), f.loc[4]))
           acec == Frag("main", f.size[5], AcecLocation(acev, f.loc[5]))
<1>3. \A t \in Holds(c) : plain(t) \in Fragment /\ plain(t).data = <<boots, "main">>
  BY SMTT(30), <1>1, <1>2, FragType
<1>4. ASSUME c >= 5
      PROVE  /\ acev \in Fragment /\ acev.data = <<boots, "main">>
             /\ acev.location = AcevLocation(plain("ACER"), f.loc[4])
  <2>1. f.size[4] \in Bytes /\ f.loc[4] \in Bytes
    BY <1>1, <1>4
  <2>2. AcevLocation(plain("ACER"), f.loc[4]) \in Bytes
    <3>1. "ACER" \in Holds(c)
      BY <1>4 DEF Holds, At
    <3>. HIDE DEF plain
    <3>. QED
      BY <3>1, <1>3, <2>1, LocationType
  <2>. HIDE DEF plain
  <2>. QED
    BY <2>1, <2>2, FragType
<1>5. ASSUME c = 6
      PROVE  /\ acec \in Fragment /\ acec.data = <<boots, "main">>
             /\ acec.location = AcecLocation(acev, f.loc[5])
  <2>1. f.size[5] \in Bytes /\ f.loc[5] \in Bytes
    BY <1>1, <1>5
  <2>2. acev \in Fragment
    BY <1>4, <1>5
  <2>. HIDE DEF acev
  <2>3. AcecLocation(acev, f.loc[5]) \in Bytes
    BY <2>1, <2>2, LocationType
  <2>. QED
    BY <2>1, <2>3, FragType
<1>6. MainFrags(f) = [t \in Holds(c) |->
        CASE t = "ACEV" -> acev [] t = "ACEC" -> acec [] OTHER -> plain(t)]
  BY <1>1 DEF MainFrags
<1>7. ("ACEV" \in Holds(c) => c >= 5) /\ ("ACEC" \in Holds(c) => c = 6)
      /\ (c = 6 => Holds(c) = Types \ {"SKU"})
  BY DEF Holds, At, Types
<1>. HIDE DEF plain, acev, acec
<1>8. ASSUME NEW t \in Holds(c)
      PROVE  MainFrags(f)[t] \in Fragment /\ MainFrags(f)[t].data = <<boots, "main">>
  <2>1. CASE t = "ACEV"
    BY <2>1, <1>4, <1>6, <1>7
  <2>2. CASE t = "ACEC"
    BY <2>2, <1>5, <1>6, <1>7
  <2>3. CASE t \notin {"ACEV", "ACEC"}
    BY <2>3, <1>3, <1>6
  <2>. QED
    BY <2>1, <2>2, <2>3
<1>9. ASSUME c = 6
      PROVE  /\ f.loc[4] \in Bytes /\ f.loc[5] \in Bytes
             /\ f.loc[4] = 0 => MainFrags(f)["ACEV"].location
                                 = Align(MainFrags(f)["ACER"].location + MainFrags(f)["ACER"].size)
             /\ f.loc[5] = 0 => MainFrags(f)["ACEC"].location
                                 = Align(MainFrags(f)["ACEV"].location + MainFrags(f)["ACEV"].size)
  <2>1. MainFrags(f)["ACER"] = plain("ACER") /\ MainFrags(f)["ACEV"] = acev /\ MainFrags(f)["ACEC"] = acec
    BY <1>6, <1>7, <1>9 DEF Types
  <2>. QED
    BY <1>1, <1>4, <1>5, <1>9, <2>1 DEF AcevLocation, AcecLocation
<1>. QED
  BY <1>1, <1>8, <1>9

-----------------------------------------------------------------------------
(* It holds initially and every action preserves it.                       *)

LEMMA mei_vsc_hw_resetStep == ASSUME IInv, mei_vsc_hw_reset PROVE IInv'
<1> USE DEF IInv, mei_vsc_hw_reset
<1>1. TypeOK'
  <2>1. got' \in [Types -> Bytes]
    BY BootAssumption DEF Bytes
  <2>2. ended' \in BOOLEAN /\ booted' \in BOOLEAN
    OBVIOUS
  <2>3. boots' \in 0 .. MaxBoots /\ img_cnt' \in 0 .. IMG_CNT_MAX /\ announced' \subseteq Types
    BY BootAssumption DEF TypeOK, IMG_CNT_MAX
  <2>. QED
    BY <2>1, <2>2, <2>3 DEF TypeOK
<1>2. IdentInv'
  BY DEF TypeOK, IdentInv, Parsing, Loading
<1>3. DataInv'
  BY DEF TypeOK, DataInv, Live, Loading
<1>4. PlaceInv'
  BY DEF TypeOK, PlaceInv, Placed, Loading
<1>5. RomInv'
  BY DEF TypeOK, RomInv, Received, Before, Announced
<1>. QED
  BY <1>1, <1>2, <1>3, <1>4, <1>5

LEMMA RomXferFailsStep == ASSUME IInv, RomXferFails PROVE IInv'
<1> USE DEF IInv, RomXferFails, XferFails, Fail
<1>1. TypeOK'
  BY DEF TypeOK
<1>2. IdentInv'
  BY DEF TypeOK, IdentInv, Parsing, Loading
<1>3. DataInv'
  BY DEF TypeOK, DataInv, Live, Loading
<1>4. PlaceInv'
  BY DEF TypeOK, PlaceInv, Placed, Loading
<1>5. RomInv'
  BY DEF TypeOK, RomInv, Received, Before, Announced
<1>. QED
  BY <1>1, <1>2, <1>3, <1>4, <1>5

LEMMA DumpRequestStep == ASSUME IInv, NEW tok \in Tokens, DumpRequest(tok) PROVE IInv'
<1> USE DEF IInv, DumpRequest
<1>1. TypeOK'
  BY DEF TypeOK
<1>2. IdentInv'
  BY DEF TypeOK, IdentInv, Parsing, Loading
<1>3. DataInv'
  BY DEF TypeOK, DataInv, Live, Loading
<1>4. PlaceInv'
  BY DEF TypeOK, PlaceInv, Placed, Loading
<1>5. RomInv'
  BY DEF TypeOK, RomInv, Received, Before, Announced
<1>. QED
  BY <1>1, <1>2, <1>3, <1>4, <1>5

LEMMA EfuseResponseStep == ASSUME IInv, NEW tok \in Tokens, EfuseResponse(tok) PROVE IInv'
<1> USE DEF IInv, EfuseResponse, Fail
<1>1. TypeOK'
  BY DEF TypeOK
<1>2. IdentInv'
  BY DEF TypeOK, IdentInv, Parsing, Loading
<1>3. DataInv'
  BY DEF TypeOK, DataInv, Live, Loading
<1>4. PlaceInv'
  BY DEF TypeOK, PlaceInv, Placed, Loading
<1>5. RomInv'
  BY DEF TypeOK, RomInv, Received, Before, Announced
<1>. QED
  BY <1>1, <1>2, <1>3, <1>4, <1>5

LEMMA StrapResponseStep == ASSUME IInv, NEW tok \in Tokens, StrapResponse(tok) PROVE IInv'
<1> USE DEF IInv, StrapResponse, Fail
<1>1. TypeOK'
  BY DEF TypeOK
<1>2. IdentInv'
  BY DEF TypeOK, IdentInv, Parsing, Loading
<1>3. DataInv'
  BY DEF TypeOK, DataInv, Live, Loading
<1>4. PlaceInv'
  BY DEF TypeOK, PlaceInv, Placed, Loading
<1>5. RomInv'
  BY DEF TypeOK, RomInv, Received, Before, Announced
<1>. QED
  BY <1>1, <1>2, <1>3, <1>4, <1>5

\* A parser that fails ends the boot before the ROM has anything; what it wrote
\* to the fragments stays there.
LEMMA ParseFails ==
  ASSUME IInv, pc \in {"main", "sensor", "sku"}, Fail,
         UNCHANGED <<part, boots, checked, sending, rom>>,
         svn' \in Svns, fileSvn' \in Svns, fw_cnt' \in 0 .. 2 * IMG_CNT_MAX,
         frags' \in [Types -> Fragment], layout = 3 => frags'["ACER"].size = 0, fileLoc' = fileLoc
  PROVE  IInv'
<1> USE DEF IInv, Fail
<1>1. TypeOK'
  BY DEF TypeOK
<1>2. IdentInv'
  BY DEF IdentInv, Parsing, Loading
<1>3. DataInv'
  BY DEF DataInv, Loading
<1>4. PlaceInv'
  BY DEF PlaceInv, Loading
<1>5. RomInv'
  BY DEF RomInv, Before
<1>. QED
  BY <1>1, <1>2, <1>3, <1>4, <1>5

\* parse_main_fw succeeds: everything but SKU lies in the new file, or is to be
\* found in the sensor package.
LEMMA MainParsedStep ==
  ASSUME IInv, NEW f \in MainFiles, pc = "main", names # "none", f.count = layout,
         ~SvnMismatch(NewSvn(f)), svn' = NewSvn(f), fileSvn' = f.svn, MainParsed(f),
         UNCHANGED <<part, boots, checked, sending, rom>>
  PROVE  IInv'
<1>1. boots \in 1 .. MaxBoots /\ boots \in 0 .. MaxBoots /\ TypeOK /\ frags \in [Types -> Fragment]
  BY DEF IInv, IdentInv, TypeOK
<1>. DEFINE H == Holds(f.count)
           M == MainFrags(f)
<1>2. /\ f.count \in 3 .. 6 /\ f.svn \in Svns
      /\ \A t \in H : M[t] \in Fragment /\ M[t].data = <<boots, "main">>
      /\ f.count = 6 =>
           /\ f.loc[4] \in Bytes /\ f.loc[5] \in Bytes
           /\ f.loc[4] = 0 => M["ACEV"].location = Align(M["ACER"].location + M["ACER"].size)
           /\ f.loc[5] = 0 => M["ACEC"].location = Align(M["ACEV"].location + M["ACEV"].size)
  BY <1>1, MainFragsType
<1>3. /\ {"BOOT", "ARC_SEM", "EM7D"} \subseteq H /\ H \subseteq Types \ {"SKU"}
      /\ "ACER" \in H <=> f.count # 3
      /\ f.count = 6 => H = Types \ {"SKU"}
  BY <1>2 DEF Holds, At, Types
<1>4. /\ frags' = Update(H, M) /\ fw_cnt' = f.count - 1
      /\ fileLoc' = IF f.count = 6 THEN [ACEV |-> f.loc[4], ACEC |-> f.loc[5]] ELSE fileLoc
      /\ pc' = IF f.count < 6 THEN "sensor" ELSE "sku"
      /\ held' = held \cup {<<boots, "main">>}
  BY <1>2 DEF MainParsed, IMG_CNT_MAX, IMG_ARC_ACER_ACEV_ACECNF_EM7D
<1>. HIDE DEF H, M
<1>5. \A t \in Types : frags'[t] = IF t \in H THEN M[t] ELSE frags[t]
  BY <1>4 DEF Update
<1>6. frags' \in [Types -> Fragment]
  BY <1>1, <1>2, <1>4 DEF Update
<1>7. TypeOK'
  <2>1. held' \subseteq (1 .. MaxBoots) \X {"main", "sensor", "sku"}
    BY <1>1, <1>4 DEF TypeOK
  <2>2. fileLoc' \in [{"ACEV", "ACEC"} -> Bytes]
    BY <1>1, <1>2, <1>4 DEF TypeOK
  <2>3. svn' \in Svns /\ fileSvn' \in Svns /\ fw_cnt' \in 0 .. 2 * IMG_CNT_MAX
    BY <1>1, <1>2, <1>4 DEF NewSvn, IMG_CNT_MAX, TypeOK
  <2>. QED
    BY <1>1, <1>4, <1>6, <2>1, <2>2, <2>3 DEF TypeOK
<1>8. IdentInv'
  <2>1. sub_ver = "A1"
    BY DEF IInv, IdentInv
  <2>2. f.svn # "max"
    BY <2>1 DEF SvnMismatch, NewSvn
  <2>. QED
    BY <1>1, <1>4, <2>2 DEF IInv, IdentInv, Parsing, Loading
<1>9. DataInv'
  <2>1. \A t \in H : frags'[t].data[1] = boots /\ frags'[t].data \in held'
    <3>1. \A t \in H : frags'[t] = M[t]
      BY <1>3, <1>5
    <3>2. \A t \in H : frags'[t].data = <<boots, "main">>
      BY <1>2, <3>1
    <3>3. <<boots, "main">>[1] = boots /\ <<boots, "main">> \in held'
      BY <1>4
    <3>. QED
      BY <3>2, <3>3, Zenon
  <2>2. layout = 3 => frags'["ACER"].size = 0
    BY <1>3, <1>5 DEF IInv, DataInv, Types
  <2>. QED
    BY <1>2, <1>3, <1>4, <2>1, <2>2 DEF DataInv, Live, Loading, IMG_CNT_MAX
<1>10. PlaceInv'
  <2>1. ASSUME f.count = 6
        PROVE  Placed("ACER", "ACEV")' /\ Placed("ACEV", "ACEC")'
    <3>1. /\ frags'["ACER"] = M["ACER"] /\ frags'["ACEV"] = M["ACEV"] /\ frags'["ACEC"] = M["ACEC"]
          /\ M["ACER"] \in Fragment /\ M["ACEV"] \in Fragment
          /\ fileLoc'["ACEV"] = f.loc[4] /\ fileLoc'["ACEC"] = f.loc[5]
      BY <1>2, <1>3, <1>4, <1>5, <2>1 DEF Types
    <3>2. M["ACER"].location + M["ACER"].size \in Nat /\ M["ACEV"].location + M["ACEV"].size \in Nat
      BY <3>1 DEF Fragment, Bytes
    <3>. QED
      BY <1>2, <2>1, <3>1, <3>2, AlignUp DEF Placed
  <2>. QED
    BY <1>2, <1>4, <2>1 DEF PlaceInv, Loading
<1>11. RomInv'
  BY <1>4 DEF IInv, RomInv, Before
<1>. QED
  BY <1>7, <1>8, <1>9, <1>10, <1>11 DEF IInv

LEMMA parse_main_fwStep == ASSUME IInv, NEW f \in MainFiles, parse_main_fw(f) PROVE IInv'
<1>1. /\ pc = "main" /\ names # "none" /\ f.count = layout /\ boots \in 1 .. MaxBoots
      /\ UNCHANGED <<part, boots, checked, sending, rom>>
      /\ TypeOK
  BY DEF parse_main_fw, IInv, IdentInv, TypeOK
<1>2. boots \in 0 .. MaxBoots
  BY <1>1
<1>3. /\ f.count \in 3 .. 6 /\ f.svn \in Svns
      /\ \A t \in Holds(f.count) :
           MainFrags(f)[t] \in Fragment /\ MainFrags(f)[t].data = <<boots, "main">>
  BY <1>2, MainFragsType
<1>4. f.count - 1 \in 0 .. 2 * IMG_CNT_MAX /\ NewSvn(f) \in Svns
  BY <1>1, <1>3 DEF TypeOK, NewSvn, IMG_CNT_MAX
<1>5. layout = 3 => frags["ACER"].size = 0 /\ "ACER" \notin Holds(f.count)
  BY <1>1 DEF IInv, DataInv, Holds, At
<1>6. ASSUME NEW S \in SUBSET Holds(f.count)
      PROVE  /\ Update(S, MainFrags(f)) \in [Types -> Fragment]
             /\ layout = 3 => Update(S, MainFrags(f))["ACER"].size = 0
  BY <1>1, <1>3, <1>5 DEF Update, TypeOK, Types
<1>7. CASE f.bad \in {"file", "bootloader"}
  <2>1. Fail /\ UNCHANGED <<svn, fileSvn, frags, fileLoc>> /\ fw_cnt' \in {fw_cnt, f.count - 1}
    BY <1>7 DEF parse_main_fw
  <2>. QED
    BY <1>1, <1>4, <1>5, <2>1, ParseFails DEF TypeOK
<1>8. CASE f.bad \notin {"file", "bootloader"}
  <2>1. svn' = NewSvn(f) /\ fileSvn' = f.svn
    BY <1>8 DEF parse_main_fw
  <2>2. CASE SvnMismatch(NewSvn(f)) \/ f.bad = "firmware"
    <3>1. Fail /\ fw_cnt' = f.count - 1 /\ UNCHANGED <<frags, fileLoc>>
      BY <1>8, <2>2, FilesAssumption DEF parse_main_fw
    <3>. QED
      BY <1>1, <1>3, <1>4, <1>5, <2>1, <3>1, ParseFails DEF TypeOK
  <2>3. CASE ~SvnMismatch(NewSvn(f)) /\ f.bad = "none"
    <3>1. CASE \E t \in Required(f.count) :
                 /\ frags' = Update(WrittenAt(f.count, t), MainFrags(f))
                 /\ fw_cnt' = f.count - 1 /\ Fail /\ UNCHANGED fileLoc
      <4>1. \A t \in Required(f.count) : WrittenAt(f.count, t) \in SUBSET Holds(f.count)
        BY DEF WrittenAt
      <4>. QED
        BY <1>1, <1>3, <1>4, <1>6, <2>1, <3>1, <4>1, ParseFails
    <3>2. CASE MainParsed(f)
      BY <1>1, <2>1, <2>3, <3>2, MainParsedStep
    <3>. QED
      BY <1>8, <2>3, <3>1, <3>2 DEF parse_main_fw
  <2>. QED
    BY <1>8, <2>2, <2>3 DEF parse_main_fw
<1>. QED
  BY <1>7, <1>8

LEMMA SensorFragsType ==
  ASSUME TypeOK, NEW f \in SensorFiles
  PROVE  /\ f.count \in 2 .. 6 /\ f.loc[1] \in Bytes /\ f.loc[2] \in Bytes
         /\ \A t \in {"ACEV", "ACEC"} : SensorFrags(f)[t] \in Fragment
                                        /\ SensorFrags(f)[t].data = <<boots, "sensor">>
         /\ f.loc[1] = 0 => SensorFrags(f)["ACEV"].location
                             = Align(frags["ACER"].location + frags["ACER"].size)
         /\ f.loc[2] = 0 => SensorFrags(f)["ACEC"].location
                             = Align(SensorFrags(f)["ACEV"].location + SensorFrags(f)["ACEV"].size)
<1>1. /\ f.count \in 2 .. 6 /\ f.loc[1] \in Bytes /\ f.loc[2] \in Bytes
      /\ f.size[1] \in Bytes /\ f.size[2] \in Bytes
      /\ boots \in 0 .. MaxBoots /\ frags["ACER"] \in Fragment
  BY FilesAssumption DEF TypeOK, Types, IMG_CNT_MAX
<1>2. AcevLocation(frags["ACER"], f.loc[1]) \in Bytes
  BY <1>1, LocationType
<1>3. /\ SensorAcev(f) \in Fragment /\ SensorAcev(f).data = <<boots, "sensor">>
      /\ SensorAcev(f).location = AcevLocation(frags["ACER"], f.loc[1])
  BY <1>1, <1>2, FragType DEF SensorAcev
<1>4. AcecLocation(SensorAcev(f), f.loc[2]) \in Bytes
  BY <1>1, <1>3, LocationType
<1>. PICK acec \in Fragment :
       /\ acec = Frag("sensor", f.size[2], AcecLocation(SensorAcev(f), f.loc[2]))
       /\ acec.data = <<boots, "sensor">> /\ acec.location = AcecLocation(SensorAcev(f), f.loc[2])
  BY <1>1, <1>4, FragType
<1>5. SensorFrags(f)["ACEV"] = SensorAcev(f) /\ SensorFrags(f)["ACEC"] = acec
  BY DEF SensorFrags
<1>. QED
  BY <1>1, <1>3, <1>5 DEF AcevLocation, AcecLocation

LEMMA parse_sensor_fwStep == ASSUME IInv, NEW f \in SensorFiles, parse_sensor_fw(f) PROVE IInv'
<1>. DEFINE N == SensorFrags(f)
<1>1. /\ pc = "sensor" /\ TypeOK /\ boots \in 1 .. MaxBoots /\ frags \in [Types -> Fragment]
      /\ layout \in 3 .. 5 /\ fw_cnt = layout - 1
      /\ UNCHANGED <<part, boots, checked, svn, fileSvn, sending, rom>>
  BY DEF parse_sensor_fw, IInv, TypeOK, IdentInv, DataInv, IMG_CNT_MAX
<1>2. /\ f.count \in 2 .. 6 /\ f.loc[1] \in Bytes /\ f.loc[2] \in Bytes
      /\ \A t \in {"ACEV", "ACEC"} : N[t] \in Fragment /\ N[t].data = <<boots, "sensor">>
      /\ f.loc[1] = 0 => N["ACEV"].location = Align(frags["ACER"].location + frags["ACER"].size)
      /\ f.loc[2] = 0 => N["ACEC"].location = Align(N["ACEV"].location + N["ACEV"].size)
  BY <1>1, SensorFragsType
<1>3. fw_cnt + f.count \in 0 .. 2 * IMG_CNT_MAX
  BY <1>1, <1>2 DEF IMG_CNT_MAX
<1>. HIDE DEF N
<1>4. ASSUME NEW S \in SUBSET {"ACEV", "ACEC"}
      PROVE  /\ Update(S, N) \in [Types -> Fragment]
             /\ \A t \in Types : Update(S, N)[t] = IF t \in S THEN N[t] ELSE frags[t]
  BY <1>1, <1>2 DEF Update
<1>5. layout = 3 => frags["ACER"].size = 0
  BY DEF IInv, DataInv
<1>6. ASSUME Fail, fw_cnt' \in {fw_cnt, fw_cnt + f.count}, fileLoc' = fileLoc,
             frags' = frags \/ frags' = Update({"ACEV"}, N)
      PROVE  IInv'
  <2>1. frags' \in [Types -> Fragment] /\ frags'["ACER"] = frags["ACER"]
    BY <1>1, <1>4, <1>6 DEF Types
  <2>2. fw_cnt' \in 0 .. 2 * IMG_CNT_MAX
    BY <1>1, <1>3, <1>6 DEF TypeOK
  <2>. QED
    BY <1>1, <1>5, <1>6, <2>1, <2>2, ParseFails DEF TypeOK
<1>7. ASSUME fw_cnt + f.count <= IMG_CNT_MAX, fw_cnt' = fw_cnt + f.count,
             frags' = Update({"ACEV", "ACEC"}, N),
             fileLoc' = [ACEV |-> f.loc[1], ACEC |-> f.loc[2]],
             pc' = "sku", held' = held \cup {<<boots, "sensor">>}
      PROVE  IInv'
  <2>1. /\ frags' \in [Types -> Fragment]
        /\ frags'["ACEV"] = N["ACEV"] /\ frags'["ACEC"] = N["ACEC"]
        /\ \A t \in Types \ {"ACEV", "ACEC"} : frags'[t] = frags[t]
    BY <1>4, <1>7 DEF Types
  <2>2. TypeOK'
    <3>1. held' \subseteq (1 .. MaxBoots) \X {"main", "sensor", "sku"}
      BY <1>1, <1>7 DEF TypeOK
    <3>2. fileLoc' \in [{"ACEV", "ACEC"} -> Bytes]
      BY <1>2, <1>7
    <3>. QED
      BY <1>1, <1>3, <1>7, <2>1, <3>1, <3>2 DEF TypeOK
  <2>3. IdentInv'
    BY <1>1, <1>7 DEF IInv, IdentInv, Parsing, Loading
  <2>4. DataInv'
    <3>1. \A t \in {"ACEV", "ACEC"} : frags'[t].data = <<boots, "sensor">>
      BY <1>2, <2>1
    <3>2. \A t \in {"ACEV", "ACEC"} : Live(t)'
      <4>1. <<boots, "sensor">>[1] = boots' /\ <<boots, "sensor">> \in held'
        BY <1>1, <1>7
      <4>. QED
        BY <3>1, <4>1, Zenon DEF Live
    <3>3. \A t \in {"BOOT", "ARC_SEM", "EM7D", "ACER"} : Live(t)'
      BY <1>1, <1>7, <2>1 DEF Live, IInv, DataInv, Types
    <3>4. \A t \in Types \ {"SKU"} : Live(t)'
      BY <3>2, <3>3 DEF Types
    <3>5. frags'["ACER"] = frags["ACER"]
      BY <2>1 DEF Types
    <3>6. layout = 4 /\ NoThree => fw_cnt' = 5
      BY <1>1, <1>2, <1>7 DEF NoThree, IMG_CNT_MAX
    <3>. QED
      BY <1>1, <1>3, <1>5, <1>7, <3>4, <3>5, <3>6 DEF DataInv, Loading, IMG_CNT_MAX, NoThree
  <2>5. PlaceInv'
    <3>1. /\ frags'["ACER"] = frags["ACER"] /\ frags["ACER"] \in Fragment
          /\ fileLoc'["ACEV"] = f.loc[1] /\ fileLoc'["ACEC"] = f.loc[2]
      BY <1>1, <1>7, <2>1 DEF Types
    <3>2. frags["ACER"].location + frags["ACER"].size \in Nat /\ N["ACEV"].location + N["ACEV"].size \in Nat
      BY <1>2, <3>1 DEF Fragment, Bytes
    <3>. QED
      BY <1>2, <2>1, <3>1, <3>2, AlignUp DEF PlaceInv, Placed
  <2>6. RomInv'
    BY <1>1, <1>7 DEF IInv, RomInv, Before
  <2>. QED
    BY <2>2, <2>3, <2>4, <2>5, <2>6 DEF IInv
<1>. QED
  <2>1. f.bad \in {"none", "file", "vision", "config"}
    BY FilesAssumption
  <2>. QED
    BY <1>6, <1>7, <2>1 DEF parse_sensor_fw, N

LEMMA parse_sku_cnf_fwStep == ASSUME IInv, NEW f \in SkuFiles, parse_sku_cnf_fw(f) PROVE IInv'
<1>. DEFINE x == Frag("sku", f.size, SKU_CONFIG_LOC)
<1>1. /\ pc = "sku" /\ TypeOK /\ boots \in 1 .. MaxBoots /\ frags \in [Types -> Fragment]
      /\ UNCHANGED <<part, boots, checked, svn, fileSvn, fw_cnt, fileLoc, sending, rom>>
  BY DEF parse_sku_cnf_fw, IInv, TypeOK, IdentInv
<1>2. x \in Fragment /\ x.data = <<boots, "sku">>
  <2>1. f.size \in Bytes /\ SKU_CONFIG_LOC \in Bytes
    BY FilesAssumption, BootAssumption DEF SKU_CONFIG_LOC, Bytes
  <2>. QED
    BY <1>1, <2>1, FragType
<1>3. /\ Update({"SKU"}, [SKU |-> x]) \in [Types -> Fragment]
      /\ Update({"SKU"}, [SKU |-> x])["SKU"] = x
      /\ \A t \in Types \ {"SKU"} : Update({"SKU"}, [SKU |-> x])[t] = frags[t]
  BY <1>1, <1>2 DEF Update, Types
<1>4. layout = 3 => frags["ACER"].size = 0
  BY DEF IInv, DataInv
<1>. HIDE DEF x
<1>5. ASSUME Fail, frags' = frags \/ frags' = Update({"SKU"}, [SKU |-> x])
      PROVE  IInv'
  <2>1. frags' \in [Types -> Fragment] /\ frags'["ACER"] = frags["ACER"]
    BY <1>1, <1>3, <1>5 DEF Types
  <2>. QED
    BY <1>1, <1>4, <1>5, <2>1, ParseFails DEF TypeOK
<1>6. ASSUME frags' = Update({"SKU"}, [SKU |-> x]), held' = held \cup {<<boots, "sku">>}, pc' = "query"
      PROVE  IInv'
  <2>1. TypeOK'
    <3>1. held' \subseteq (1 .. MaxBoots) \X {"main", "sensor", "sku"}
      BY <1>1, <1>6 DEF TypeOK
    <3>. QED
      BY <1>1, <1>3, <1>6, <3>1 DEF TypeOK
  <2>2. IdentInv'
    BY <1>1, <1>6 DEF IInv, IdentInv, Parsing, Loading
  <2>3. DataInv'
    <3>1. Live("SKU")'
      BY <1>1, <1>2, <1>3, <1>6 DEF Live
    <3>2. \A t \in Types \ {"SKU"} : Live(t)'
      BY <1>1, <1>3, <1>6 DEF Live, IInv, DataInv
    <3>3. frags'["ACER"] = frags["ACER"]
      BY <1>3, <1>6 DEF Types
    <3>. QED
      BY <1>1, <1>6, <3>1, <3>2, <3>3 DEF IInv, DataInv, Loading
  <2>4. PlaceInv'
    <3>1. frags'["ACER"] = frags["ACER"] /\ frags'["ACEV"] = frags["ACEV"] /\ frags'["ACEC"] = frags["ACEC"]
      BY <1>3, <1>6 DEF Types
    <3>. QED
      BY <1>1, <3>1 DEF IInv, PlaceInv, Placed
  <2>5. RomInv'
    BY <1>1, <1>6 DEF IInv, RomInv, Before
  <2>. QED
    BY <2>1, <2>2, <2>3, <2>4, <2>5 DEF IInv
<1>. QED
  <2>1. f.bad \in {"none", "short", "size"}
    BY FilesAssumption
  <2>. QED
    BY <1>5, <1>6, <2>1 DEF parse_sku_cnf_fw, x

LEMMA FileNotFoundStep == ASSUME IInv, FileNotFound PROVE IInv'
<1> USE DEF IInv, FileNotFound, Fail
<1>1. TypeOK'
  BY DEF TypeOK
<1>2. IdentInv'
  BY DEF TypeOK, IdentInv, Parsing, Loading
<1>3. DataInv'
  BY DEF TypeOK, DataInv, Live, Loading
<1>4. PlaceInv'
  BY DEF TypeOK, PlaceInv, Placed, Loading
<1>5. RomInv'
  BY DEF TypeOK, RomInv, Received, Before, Announced
<1>. QED
  BY <1>1, <1>2, <1>3, <1>4, <1>5

LEMMA BootloaderQueryStep == ASSUME IInv, NEW tok \in Tokens, BootloaderQuery(tok) PROVE IInv'
<1> USE DEF IInv, BootloaderQuery, Fail
<1>1. TypeOK'
  BY DEF TypeOK
<1>2. IdentInv'
  BY DEF TypeOK, IdentInv, Parsing, Loading
<1>3. DataInv'
  BY DEF TypeOK, DataInv, Live, Loading
<1>4. PlaceInv'
  BY DEF TypeOK, PlaceInv, Placed, Loading
<1>5. RomInv'
  BY DEF TypeOK, Fragment, Types, Bytes, RomInv, Received, Before, Announced
<1>. QED
  BY <1>1, <1>2, <1>3, <1>4, <1>5

LEMMA BootloaderStartStep == ASSUME IInv, BootloaderStart PROVE IInv'
<1> USE DEF IInv, BootloaderStart
<1>1. TypeOK'
  BY DEF TypeOK, Fragment, Types
<1>2. IdentInv'
  BY DEF TypeOK, IdentInv, Parsing, Loading
<1>3. DataInv'
  BY DEF TypeOK, DataInv, Live, Loading
<1>4. PlaceInv'
  BY DEF TypeOK, PlaceInv, Placed, Loading
<1>5. RomInv'
  <2>1. remain' \in Nat /\ remain' > 0
    BY DEF TypeOK, Fragment, Types, Bytes, RomInv
  <2>. QED
    BY <2>1 DEF TypeOK, RomInv, Received, Before, Types, Bytes
<1>. QED
  BY <1>1, <1>2, <1>3, <1>4, <1>5

LEMMA load_bootStep == ASSUME IInv, load_boot PROVE IInv'
<1> USE DEF IInv, load_boot, Chunk
<1>. DEFINE c == Chunk(RomChunk)
<1>a. /\ c \in Nat /\ c > 0 /\ c <= remain
      /\ got["BOOT"] + remain = frags["BOOT"].size /\ frags["BOOT"].size \in Bytes
      /\ got["BOOT"] \in Bytes /\ remain \in Bytes
  BY BootAssumption DEF TypeOK, RomInv, Fragment, Types, Bytes
<1>b. /\ got' = [got EXCEPT !["BOOT"] = @ + c] /\ remain' = remain - c
      /\ ended' = (ended \/ remain = c) /\ pc' = IF remain' = 0 THEN "dl_set" ELSE "boot_cont"
  OBVIOUS
<1>. HIDE DEF c
<1>1. TypeOK'
  <2>1. got["BOOT"] + c \in Bytes /\ remain' \in Bytes
    BY <1>a, <1>b, BootAssumption DEF Bytes
  <2>2. got' \in [Types -> Bytes]
    BY <2>1, <1>b DEF TypeOK
  <2>3. ended' \in BOOLEAN
    BY <1>b DEF TypeOK
  <2>. QED
    BY <2>1, <2>2, <2>3, <1>b DEF TypeOK
<1>2. IdentInv'
  BY DEF TypeOK, IdentInv, Parsing, Loading
<1>3. DataInv'
  BY DEF TypeOK, DataInv, Live, Loading
<1>4. PlaceInv'
  BY DEF TypeOK, PlaceInv, Placed, Loading
<1>5. RomInv'
  <2>1. /\ got'["BOOT"] = got["BOOT"] + c
        /\ \A t \in Types \ {"BOOT"} : got'[t] = 0
    BY <1>b DEF TypeOK, Types, RomInv
  <2>2. CASE remain = c
    <3>1. remain' = 0 /\ pc' = "dl_set" /\ ended'
      <4>1. remain' = 0 /\ pc' = "dl_set"
        BY <2>2, <1>a, <1>b DEF Bytes
      <4>2. ended'
        BY <2>2, <1>b, Zenon
      <4>. QED
        BY <4>1, <4>2
    <3>2. got'["BOOT"] = frags["BOOT"].size
      BY <2>1, <2>2, <1>a DEF Bytes
    <3>. QED
      BY <3>1, <3>2, <2>1 DEF RomInv, Received, Before
  <2>3. CASE remain # c
    <3>1. remain' > 0 /\ pc' = "boot_cont" /\ ~ended'
      <4>1. remain' > 0 /\ pc' = "boot_cont"
        BY <2>3, <1>a, <1>b DEF Bytes
      <4>2. ~ended
        BY DEF RomInv
      <4>3. ~ended'
        BY <2>3, <4>2, <1>b, Zenon
      <4>. QED
        BY <4>1, <4>3
    <3>2. got'["BOOT"] + remain' = frags["BOOT"].size
      BY <2>1, <1>a, <1>b DEF Bytes
    <3>. QED
      BY <3>1, <3>2, <2>1 DEF RomInv, Received, Before
  <2>. QED
    BY <2>2, <2>3
<1>. QED
  BY <1>1, <1>2, <1>3, <1>4, <1>5

LEMMA DlSetStep == ASSUME IInv, DlSet PROVE IInv'
<1> USE DEF IInv, DlSet, Fail
<1>1. TypeOK'
  <2>1. Announced \subseteq Types
    BY DEF Announced
  <2>2. fw_cnt \in 0 .. IMG_CNT_MAX
    BY DEF TypeOK, DataInv, Loading, IMG_CNT_MAX
  <2>3. (held' = held \/ held' = {h \in held : h[1] # boots}) /\ announced' \subseteq Types /\ img_cnt' \in 0 .. IMG_CNT_MAX
    BY <2>1, <2>2 DEF TypeOK
  <2>. QED
    BY <2>3 DEF TypeOK
<1>2. IdentInv'
  BY DEF TypeOK, IdentInv, Parsing, Loading
<1>3. DataInv'
  BY DEF TypeOK, DataInv, Live, Loading
<1>4. PlaceInv'
  BY DEF TypeOK, PlaceInv, Placed, Loading
<1>5. RomInv'
  <2>1. CASE pc' = "failed"
    BY <2>1 DEF RomInv, Received, Before
  <2>2. CASE pc' = "fw_start"
    <3>1. Announced' = Announced
      BY <2>2 DEF Announced
    <3>2. next' = 1 /\ got' = got /\ frags' = frags /\ announced' = Announced /\ img_cnt' = fw_cnt
      BY <2>2
    <3>3. \A i \in 1 .. 6 : got[Downloads[i]] = 0
      BY DownloadsType DEF RomInv
    <3>. QED
      BY <2>2, <3>1, <3>2, <3>3 DEF RomInv, Received, Before
  <2>. QED
    BY <2>1, <2>2
<1>. QED
  BY <1>1, <1>2, <1>3, <1>4, <1>5

\* When an image is through, the next one has its turn, or all are.
LEMMA ImageDone ==
  ASSUME IInv, pc \in {"fw_start", "fw_cont"}, NextImage,
         UNCHANGED <<parsed, ended, announced, img_cnt, booted>>, got'["BOOT"] = got["BOOT"],
         \A i \in 1 .. 6 : i <= next => got'[Downloads[i]] = frags'[Downloads[i]].size,
         \A i \in 1 .. 6 : i > next => got'[Downloads[i]] = 0
  PROVE  RomInv'
<1>1. next \in 1 .. 6 /\ ended /\ ~booted /\ announced = Announced /\ img_cnt = fw_cnt
  BY DEF IInv, TypeOK, RomInv
<1>2. Announced' = Announced /\ Received("BOOT")'
  BY <1>1 DEF IInv, RomInv, Announced, Received
<1>3. CASE next < 6
  <2>1. pc' = "fw_start" /\ next' = next + 1
    BY <1>3, DownloadsType DEF NextImage
  <2>2. \A i \in 1 .. 6 : /\ i < next' => got'[Downloads[i]] = frags'[Downloads[i]].size
                          /\ i > next' => got'[Downloads[i]] = 0
    BY <1>1, <2>1
  <2>3. got'[Downloads[next']] = 0
    BY <1>1, <1>3, <2>1
  <2>. QED
    BY <1>1, <1>2, <2>1, <2>2, <2>3 DEF RomInv, Before, Received
<1>4. CASE next = 6
  <2>1. pc' = "cam_boot"
    BY <1>4, DownloadsType DEF NextImage
  <2>2. \A i \in 1 .. 6 : got'[Downloads[i]] = frags'[Downloads[i]].size
    BY <1>4
  <2>3. \A t \in Types : Received(t)'
    BY <1>2, <2>2, DownloadsType DEF Received
  <2>. QED
    BY <1>1, <1>2, <2>1, <2>3 DEF RomInv, Before
<1>. QED
  BY <1>1, <1>3, <1>4

LEMMA FwStartStep == ASSUME IInv, FwStart PROVE IInv'
<1> USE DEF IInv, FwStart, NextImage
<1>. PICK d \in Types \ {"BOOT"} : d = Downloads[next]
  BY DownloadsType DEF TypeOK, RomInv
<1>1. TypeOK'
  <2>1. frags[d].size \in Bytes
    BY DEF TypeOK, Fragment
  <2>2. next \in 1 .. 6 /\ next' \in 0 .. 6
    BY DownloadsType DEF TypeOK, RomInv
  <2>3. remain' \in Bytes
    BY <2>1 DEF TypeOK
  <2>. QED
    BY <2>2, <2>3 DEF TypeOK
<1>2. IdentInv'
  BY DEF TypeOK, IdentInv, Parsing, Loading
<1>3. DataInv'
  BY DEF TypeOK, DataInv, Live, Loading
<1>4. PlaceInv'
  BY DEF TypeOK, PlaceInv, Placed, Loading
<1>5. RomInv'
  <2>1. /\ next \in 1 .. 6 /\ got[d] = 0 /\ frags[d].size \in Nat
        /\ \A i \in 1 .. 6 : /\ i < next => Received(Downloads[i])
                             /\ i > next => got[Downloads[i]] = 0
    BY DEF TypeOK, RomInv, Fragment, Bytes
  <2>2. Announced' = Announced /\ \A t \in Types : Received(t)' = Received(t)
    BY DEF Announced, Received
  <2>3. CASE frags[d].size > 0
    BY <2>1, <2>2, <2>3 DEF RomInv, Before, Received
  <2>4. CASE frags[d].size = 0
    <3>1. NextImage /\ got' = got
      BY <2>4
    <3>2. \A i \in 1 .. 6 : i <= next => got'[Downloads[i]] = frags'[Downloads[i]].size
      BY <2>1, <2>2, <2>4, DownloadsType DEF Received
    <3>. QED
      BY <2>1, <3>1, <3>2, ImageDone
  <2>. QED
    BY <2>1, <2>3, <2>4
<1>. QED
  BY <1>1, <1>2, <1>3, <1>4, <1>5

LEMMA load_fw_binStep == ASSUME IInv, load_fw_bin PROVE IInv'
<1> USE DEF IInv, load_fw_bin, NextImage, Chunk
<1>. PICK d \in Types \ {"BOOT"} : d = Downloads[next]
  BY DownloadsType DEF TypeOK, RomInv
<1>. DEFINE c == Chunk(FwChunk)
<1>a. /\ c \in Nat /\ c > 0 /\ c <= remain
      /\ got[d] + remain = frags[d].size /\ frags[d].size \in Bytes
      /\ got[d] \in Bytes /\ remain \in Bytes
  <2>1. /\ got[d] + remain = frags[d].size /\ frags[d].size \in Bytes
        /\ got[d] \in Bytes /\ remain \in Bytes /\ remain > 0
    BY DEF TypeOK, RomInv, Fragment
  <2>2. c \in Nat /\ c > 0 /\ c <= remain
    BY <2>1, BootAssumption DEF Bytes
  <2>. QED
    BY <2>1, <2>2
<1>b. /\ got' = [got EXCEPT ![d] = @ + c] /\ remain' = remain - c
      /\ IF remain' > 0 THEN UNCHANGED <<pc, next>> ELSE NextImage
  OBVIOUS
<1>. HIDE DEF c
<1>1. TypeOK'
  <2>1. got[d] + c \in Bytes /\ remain' \in Bytes
    BY SMTT(30), <1>a, <1>b, BootAssumption DEF Bytes
  <2>2. got' \in [Types -> Bytes]
    BY <2>1, <1>b DEF TypeOK
  <2>3. next \in 1 .. 6 /\ next' \in 0 .. 6
    BY <1>b, DownloadsType DEF TypeOK, RomInv
  <2>. QED
    BY <2>1, <2>2, <2>3, <1>b DEF TypeOK
<1>2. IdentInv'
  BY DEF TypeOK, IdentInv, Parsing, Loading
<1>3. DataInv'
  BY DEF TypeOK, DataInv, Live, Loading
<1>4. PlaceInv'
  BY DEF TypeOK, PlaceInv, Placed, Loading
<1>5. RomInv'
  <2>1. /\ next \in 1 .. 6 /\ got'[d] = got[d] + c
        /\ \A t \in Types \ {d} : got'[t] = got[t] /\ (Received(t) => Received(t)')
    BY <1>b DEF TypeOK, RomInv, Received
  <2>2. \A i \in 1 .. 6 : /\ i < next => got'[Downloads[i]] = frags'[Downloads[i]].size
                          /\ i > next => got'[Downloads[i]] = 0
    BY <2>1, DownloadsType DEF RomInv, Received
  <2>3. CASE remain = c
    <3>1. NextImage
      BY <2>3, <1>a, <1>b DEF Bytes
    <3>2. Received(d)'
      BY <2>1, <2>3, <1>a DEF Received
    <3>3. \A i \in 1 .. 6 : i <= next => got'[Downloads[i]] = frags'[Downloads[i]].size
      <4>1. \A i \in 1 .. 6 : i <= next => i < next \/ Downloads[i] = d
        BY <2>1
      <4>. QED
        BY <2>2, <3>2, <4>1 DEF Received
    <3>. QED
      <4>1. got'["BOOT"] = got["BOOT"]
        BY <2>1 DEF Types
      <4>. QED
        BY <2>2, <3>1, <3>3, <4>1, ImageDone
  <2>4. CASE remain # c
    <3>1. remain' > 0 /\ UNCHANGED <<pc, next>>
      BY <2>4, <1>a, <1>b DEF Bytes
    <3>2. got'[d] + remain' = frags[d].size
      BY <2>1, <1>a, <1>b DEF Bytes
    <3>3. Announced' = Announced /\ (Received("BOOT") => Received("BOOT")')
      BY <2>1 DEF Announced, Types
    <3>. QED
      BY <2>1, <2>2, <3>1, <3>2, <3>3 DEF RomInv, Before, Received
  <2>. QED
    BY <2>3, <2>4
<1>. QED
  BY <1>1, <1>2, <1>3, <1>4, <1>5

LEMMA CamBootStep == ASSUME IInv, CamBoot PROVE IInv'
<1> USE DEF IInv, CamBoot
<1>1. TypeOK'
  BY DEF TypeOK
<1>2. IdentInv'
  BY DEF TypeOK, IdentInv, Parsing, Loading
<1>3. DataInv'
  BY DEF TypeOK, DataInv, Live, Loading
<1>4. PlaceInv'
  BY DEF TypeOK, PlaceInv, Placed, Loading
<1>5. RomInv'
  BY DEF TypeOK, RomInv, Received, Before, Announced
<1>. QED
  BY <1>1, <1>2, <1>3, <1>4, <1>5

LEMMA IInvInit == Init => IInv
<1> SUFFICES ASSUME Init PROVE IInv
  OBVIOUS
<1> USE DEF Init
<1>1. TypeOK
  <2>1. frags \in [Types -> Fragment] /\ got \in [Types -> Bytes] /\ fileLoc \in [{"ACEV", "ACEC"} -> Bytes]
    BY BootAssumption DEF NoFile, Fragment, Bytes
  <2>2. layout \in 3 .. IMG_CNT_MAX
    BY FilesAssumption DEF IMG_CNT_MAX
  <2>3. remain \in Bytes /\ boots \in 0 .. MaxBoots
    BY BootAssumption DEF Bytes
  <2>4. ended \in BOOLEAN /\ booted \in BOOLEAN
    BY Zenon
  <2>. QED
    BY <2>1, <2>2, <2>3, <2>4 DEF TypeOK, Svns, IMG_CNT_MAX
<1>2. IdentInv
  BY DEF IdentInv, Parsing, Loading
<1>3. DataInv
  BY DEF DataInv, Loading, Types
<1>4. PlaceInv
  BY DEF PlaceInv, Loading
<1>5. RomInv
  BY DEF RomInv, Before
<1>. QED
  BY <1>1, <1>2, <1>3, <1>4, <1>5 DEF IInv

LEMMA Invariance == Spec => []IInv
<1>1. IInv /\ [Next]_vars => IInv'
  <2> SUFFICES ASSUME IInv, [Next]_vars PROVE IInv'
    OBVIOUS
  <2>1. CASE mei_vsc_hw_reset \/ RomXferFails \/ FileNotFound
    BY <2>1, mei_vsc_hw_resetStep, RomXferFailsStep, FileNotFoundStep
  <2>2. CASE \E tok \in Tokens : check_silicon(tok) \/ BootloaderQuery(tok)
    BY <2>2, DumpRequestStep, EfuseResponseStep, StrapResponseStep, BootloaderQueryStep
       DEF check_silicon
  <2>3. CASE \E f \in MainFiles : parse_main_fw(f)
    BY <2>3, parse_main_fwStep
  <2>4. CASE \E f \in SensorFiles : parse_sensor_fw(f)
    BY <2>4, parse_sensor_fwStep
  <2>5. CASE \E f \in SkuFiles : parse_sku_cnf_fw(f)
    BY <2>5, parse_sku_cnf_fwStep
  <2>6. CASE BootloaderStart \/ load_boot \/ DlSet
    BY <2>6, BootloaderStartStep, load_bootStep, DlSetStep
  <2>7. CASE FwStart \/ load_fw_bin \/ CamBoot
    BY <2>7, FwStartStep, load_fw_binStep, CamBootStep
  <2>8. CASE UNCHANGED vars
    <3> USE <2>8 DEF vars
    <3>1. TypeOK' /\ IdentInv' /\ DataInv' /\ PlaceInv'
      BY DEF IInv, TypeOK, IdentInv, DataInv, PlaceInv, Parsing, Loading, Live, Placed
    <3>2. RomInv'
      BY DEF IInv, RomInv, Received, Announced
    <3>. QED
      BY <3>1, <3>2 DEF IInv
  <2>. QED
    BY <2>1, <2>2, <2>3, <2>4, <2>5, <2>6, <2>7, <2>8 DEF Next
<1>. QED
  BY IInvInit, <1>1, PTL DEF Spec

-----------------------------------------------------------------------------
(* What follows from it.                                                   *)

\* Every variable of the boot keeps its type, whatever the files hold: no byte
\* more is sent than an image has, and the DL_SET frame has at most six pairs.
THEOREM TypeCorrect == Spec => []TypeOK
<1>1. IInv => TypeOK
  BY DEF IInv
<1>. QED
  BY Invariance, <1>1, PTL

\* init_hw downloads nothing to a part other than an A1 and takes the files of
\* its strap key, although check_silicon may go on with what an earlier boot
\* left in struct vsc_boot_fw.
THEOREM ImagesMatchPart == Spec => []MatchesSilicon
<1>1. IInv => MatchesSilicon
  BY DEF IInv, IdentInv, MatchesSilicon
<1>. QED
  BY Invariance, <1>1, PTL

\* load_bootloader and load_fw only read files of this boot that have not been
\* released, although a failed boot leaves its fragments behind.
THEOREM SentDataLives == Spec => []LiveData
<1>1. IInv => LiveData
  BY DEF IInv, DataInv, Live, LiveData
<1>. QED
  BY Invariance, <1>1, PTL

\* CAM_BOOT is only sent after every image, whole, and a DL_SET frame that
\* lists and counts them.
THEOREM BootsComplete == Spec => []DownloadComplete
<1> SUFFICES IInv => DownloadComplete
  BY Invariance, PTL
<1> SUFFICES ASSUME IInv PROVE DownloadComplete
  OBVIOUS
<1>1. /\ ended => got["BOOT"] = frags["BOOT"].size
      /\ booted => ended /\ \A t \in Types : got[t] = frags[t].size
  BY DEF IInv, RomInv, Received
<1>2. booted => announced = Announced /\ img_cnt = fw_cnt
  BY DEF IInv, RomInv
<1>3. ASSUME booted, frags["ACER"].size > 0, NEW t \in Types \ {"BOOT", "SKU"}
      PROVE  got[t] > 0 <=> t \in announced
  BY <1>1, <1>2, <1>3 DEF Announced
<1>4. ASSUME booted, layout = 6 \/ (layout = 4 /\ \A f \in SensorFiles : f.count # 3),
             \A t \in Types \ {"SKU"} : frags[t].size > 0
      PROVE  img_cnt = Cardinality(announced)
  <2>1. img_cnt = 5
    BY <1>2, <1>4 DEF IInv, RomInv, DataInv, Loading, NoThree
  <2>2. announced = {"ARC_SEM", "ACER", "ACEV", "ACEC", "EM7D"}
    BY <1>2, <1>4 DEF Announced, Types
  <2>3. Cardinality({"ARC_SEM", "ACER", "ACEV", "ACEC", "EM7D"}) = 5
    <3>1. Cardinality({"EM7D"}) = 1 /\ IsFiniteSet({"EM7D"})
      BY FS_Singleton
    <3>2. Cardinality({"EM7D"} \cup {"ACEC"}) = 2 /\ IsFiniteSet({"EM7D"} \cup {"ACEC"})
      BY <3>1, FS_AddElement
    <3>3. Cardinality({"EM7D", "ACEC"} \cup {"ACEV"}) = 3 /\ IsFiniteSet({"EM7D", "ACEC"} \cup {"ACEV"})
      <4>1. {"EM7D", "ACEC"} = {"EM7D"} \cup {"ACEC"}
        OBVIOUS
      <4>. QED
        BY <3>2, <4>1, FS_AddElement
    <3>4. /\ Cardinality({"EM7D", "ACEC", "ACEV"} \cup {"ACER"}) = 4
          /\ IsFiniteSet({"EM7D", "ACEC", "ACEV"} \cup {"ACER"})
      <4>1. {"EM7D", "ACEC", "ACEV"} = {"EM7D", "ACEC"} \cup {"ACEV"}
        OBVIOUS
      <4>. QED
        BY <3>3, <4>1, FS_AddElement
    <3>5. Cardinality({"EM7D", "ACEC", "ACEV", "ACER"} \cup {"ARC_SEM"}) = 5
      <4>1. {"EM7D", "ACEC", "ACEV", "ACER"} = {"EM7D", "ACEC", "ACEV"} \cup {"ACER"}
        OBVIOUS
      <4>. QED
        BY <3>4, <4>1, FS_AddElement
    <3>6. {"ARC_SEM", "ACER", "ACEV", "ACEC", "EM7D"} = {"EM7D", "ACEC", "ACEV", "ACER"} \cup {"ARC_SEM"}
      OBVIOUS
    <3>. QED
      BY <3>5, <3>6
  <2>. QED
    BY <2>1, <2>2, <2>3
<1>. QED
  BY <1>1, <1>3, <1>4 DEF DownloadComplete

\* parse_main_fw and parse_sensor_fw: an ACE image placed by the driver does not
\* overlap the one before it, while the u32 sum does not overflow.
THEOREM ImagesApart == Spec => []NoOverlap
<1>1. IInv => NoOverlap
  BY DEF IInv, PlaceInv, Placed, NoOverlap
<1>. QED
  BY Invariance, <1>1, PTL
=============================================================================
