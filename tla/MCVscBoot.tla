----------------------------- MODULE MCVscBoot -----------------------------
(***************************************************************************)
(* VscBoot for TLC: a handful of firmware files of each kind.              *)
(***************************************************************************)
EXTENDS VscBoot, TLC

\* Complete main files: all six images, or the four without the ACE vision and
\* configuration, with the locations of those given or left to the driver.
Good6(loc4, loc5) ==
  [count |-> 6, svn |-> "other", bad |-> "none",
   size |-> <<3, 1, 5, 3, 2, 4>>, loc |-> <<4, 8, 12, loc4, loc5, 40>>]
Good4 ==
  [count |-> 4, svn |-> "other", bad |-> "none",
   size |-> <<4, 2, 7, 3>>, loc |-> <<4, 8, 12, 40>>]

\* Without an ACE runtime, and with the ACE vision image in both files.
Good3 == [count |-> 3, svn |-> "other", bad |-> "none", size |-> <<2, 2, 3>>, loc |-> <<4, 8, 40>>]
Good5 ==
  [count |-> 5, svn |-> "other", bad |-> "none",
   size |-> <<2, 2, 3, 4, 1>>, loc |-> <<4, 8, 12, 0, 40>>]

\* These, and files a parser refuses.
MCMainFiles ==
  {Good6(0, 0), Good6(24, 0), Good6(20, 32), Good4, Good3, Good5}
  \cup {[g EXCEPT !.bad = b] : g \in {Good6(0, 0), Good4},
                               b \in {"file", "bootloader", "firmware"}}
  \cup {[g EXCEPT !.svn = s] : g \in {Good6(0, 0), Good4}, s \in {"zero", "max"}}
  \cup {[Good4 EXCEPT !.loc[i] = 0] : i \in 1 .. 4}
  \cup {[Good4 EXCEPT !.size[i] = 0] : i \in {1, 2, 4}}

GoodSensor(loc1, loc2) ==
  [count |-> 2, bad |-> "none", size |-> <<3, 6>>, loc |-> <<loc1, loc2>>]
MCSensorFiles ==
  {GoodSensor(0, 0), GoodSensor(28, 0), GoodSensor(0, 36), [GoodSensor(0, 0) EXCEPT !.count = 4]}
  \cup {[GoodSensor(0, 0) EXCEPT !.bad = b] : b \in {"file", "vision", "config"}}

MCSkuFiles == [bad : {"none", "short", "size"}, size : {5}]

\* Two main files, of which one places ACEV where ACER is.
MCLocMainFiles == {Good6(12, 0), Good6(24, 32)}
=============================================================================
