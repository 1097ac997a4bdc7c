------------------------- MODULE VscTransportProofs -------------------------
(***************************************************************************)
(* Proofs about VscTransport, for any number of resets, packets, pending   *)
(* interrupts and sequence numbers.                                        *)
(***************************************************************************)
EXTENDS VscTransport, TLAPS

-----------------------------------------------------------------------------
(* The inductive invariant, in named parts.                                *)

\* Who holds device_lock, and that only its holder transfers.
Holding == {"disable", "disabled", "boot", "start", "sleep", "read", "stopped"}
Reader == cpc = "read" \/ tpc = "read" \/ wpc = "write"
LockInv ==
  /\ lock = "core" <=> cpc \in Holding
  /\ lock = "irq" <=> tpc \in {"loop", "read"}
  /\ lock = "writer" <=> wpc = "write"
  /\ xpc # "none" \/ ret # "ok" => Reader
  /\ request <=> xpc # "none"
  /\ req => request
  /\ cpc = "sleep" => tries >= 1
  /\ edge => lock_cnt < MaxCnt

\* Until the numbers come round they count the packets since the reset, which
\* took any reply from the firmware, and a reply it holds is of an earlier
\* packet.
AckInv ==
  /\ cpc = "boot" => left = NoSeq
  /\ xpc \in {"none", "wait", "xfer"} => ackOwn
  /\ sent < SeqMod =>
       /\ seq = sent /\ ackOwn
       /\ left # NoSeq => left <= seq /\ (xpc \in {"wait", "xfer"} => left < seq)

\* The disable depth: reset_count is 0 exactly from a successful start to the
\* next reset, and the interrupt is enabled then. In the first reset after that
\* the depth goes up by one and down again; only a reset that fails can leave
\* it up, and with the interrupt disabled no transfer of a start succeeds.
IrqInv ==
  /\ requested <=> cpc \notin {"suspended", "gone"}
  /\ reset_count = 0 => depth = 0 /\ cpc \in {"idle", "sync", "lock"}
  /\ cpc \in {"disabled", "boot", "start", "stopped", "suspended", "gone"} => depth >= 1
  /\ reset_count = 1 /\ cpc \in {"disable", "sleep", "read"} => depth = 0
  /\ reset_count = 1 /\ cpc \in {"disabled", "boot", "start", "stopped"} => depth = 1
  /\ dev_state = "ENABLED" \/ wpc = "write" => reset_count = 0 /\ fw.up
  /\ cpc \in {"sleep", "read"} /\ depth > 0 => lock_cnt = 0
  /\ cpc = "read" /\ depth > 0 => xpc # "xfer" /\ (xpc # "wait" => ret = "fail" /\ late)

\* The phases of the firmware: off, started, greeted by the host. While it is
\* off or the interrupt is disabled no handler runs.
FwInv ==
  /\ cpc \in {"boot", "stopped"} => ~fw.up
  /\ cpc \in {"start", "sleep", "read"} => fw.up
  /\ depth > 0 => cpc = "disabled" \/ ThreadQuiet
  /\ ~fw.up => ThreadQuiet /\ ~wakeuphost /\ ~served /\ ~fw.greeted /\ (edge => depth > 0)
  /\ cpc = "start" => ~wakeuphost /\ ~served /\ ~fw.greeted /\ (edge => latched)
  /\ fw.greeted => reset_count = 0 \/ (reset_count = 1 /\ cpc \in {"disable", "disabled"})
  /\ fw.msgs > 0 => fw.greeted
  /\ cpc \in {"suspended", "gone"} => ~edge

\* While no transfer timed out: the interrupts counted or waiting to be taken
\* are the one for which the firmware waits and the one of the transfer that is
\* ending, and at most one from before the reset.
Owed == wakeuphost /\ ~served
Clean ==
  /\ ~late /\ fw.up
  /\ cpc \notin {"disabled", "start"}
  /\ cpc \in {"sleep", "read"} => depth = 0
Pending == lock_cnt + (IF edge THEN 1 ELSE 0)
Expected == (IF Owed THEN 1 ELSE 0) + (IF xpc = "dec" THEN 1 ELSE 0)
CountInv == Clean =>
  /\ Pending >= Expected
  /\ Pending <= Expected + (IF latched THEN 1 ELSE 0)
  /\ served => wakeuphost
  /\ xpc \in {"xfer", "dec"} => lock_cnt >= 1
  /\ Owed => (req /\ xpc \in {"wait", "xfer"}) \/ fw.msgs > 0
  /\ req /\ xpc = "xfer" => wakeuphost
  /\ req /\ xpc \in {"dec", "release"} => served
  /\ tpc = "read" /\ xpc \in {"wait", "xfer"} /\ ~latched => fw.msgs > 0 /\ lock_cnt >= 1
  /\ tpc = "read" /\ ~latched => ret # "empty"
  /\ dev_state = "ENABLED" /\ Owed /\ ~edge =>
       ~ThreadQuiet \/ reset_work \/ cpc # "idle"

IInv == TypeOK /\ LockInv /\ AckInv /\ IrqInv /\ FwInv /\ CountInv

\* The groups of variables that actions leave unchanged.
USE DEF hwVars, irqVars, thread, meiVars, core, xfer, firmware, marks, ghosts, bounds

-----------------------------------------------------------------------------
(* mei_vsc_xfer. *)

\* The number of a new packet is greater than that of any reply held.
LEMMA NextNumber ==
  ASSUME IInv, XferBegin, xpc = "none", left' = left, ackOwn' = ackOwn, cpc' # "boot" PROVE AckInv'
<1>1. ackOwn' /\ sent \in Nat /\ seq \in Nat /\ left \in Nat
  BY TransportAssumption DEF IInv, AckInv, TypeOK
<1>2. ASSUME sent' < SeqMod PROVE seq' = sent' /\ (left # NoSeq => left < seq')
  <2>1. sent < SeqMod /\ sent' = sent + 1 /\ seq = sent
    BY <1>1, <1>2, TransportAssumption DEF IInv, AckInv, XferBegin, CountSent
  <2>2. \A m, n \in Nat : n + 1 < m => (n + 1) % m = n + 1
    OBVIOUS
  <2>3. seq' = seq + 1
    BY <1>1, <1>2, <2>1, <2>2, TransportAssumption DEF XferBegin
  <2>. QED
    BY <1>1, <2>1, <2>3 DEF IInv, AckInv
<1>3. ASSUME sent' < SeqMod, left # NoSeq PROVE left <= seq'
  BY <1>1, <1>2, <1>3, TransportAssumption DEF XferBegin
<1>. QED
  BY <1>1, <1>2, <1>3 DEF AckInv, NoSeq

LEMMA XferAssertedStep == IInv /\ XferAsserted => IInv'
<1> SUFFICES ASSUME IInv, XferAsserted PROVE IInv'
  OBVIOUS
<1> USE TransportAssumption DEF IInv, XferAsserted, spi_xfer_asserted, NoSeq
<1>1. TypeOK'
  BY DEF TypeOK
<1>2. LockInv'
  BY DEF LockInv, Reader
<1>3. AckInv'
  BY DEF AckInv
<1>4. IrqInv'
  BY DEF IrqInv
<1>5. FwInv'
  BY DEF FwInv, ThreadQuiet
<1>6. CountInv'
  BY DEF TypeOK, CountInv, Clean, Pending, Expected, Owed, ThreadQuiet
<1>. QED
  BY <1>1, <1>2, <1>3, <1>4, <1>5, <1>6

LEMMA XferTimeoutStep == IInv /\ XferTimeout => IInv'
<1> SUFFICES ASSUME IInv, XferTimeout PROVE IInv'
  OBVIOUS
<1> USE TransportAssumption DEF IInv, XferTimeout, spi_xfer_asserted, NoSeq
<1>1. TypeOK'
  BY DEF TypeOK
<1>2. LockInv'
  BY DEF LockInv, Reader
<1>3. AckInv'
  BY DEF AckInv
<1>4. IrqInv'
  BY DEF IrqInv
<1>5. FwInv'
  BY DEF FwInv, ThreadQuiet
<1>6. CountInv'
  BY DEF CountInv, Clean
<1>. QED
  BY <1>1, <1>2, <1>3, <1>4, <1>5, <1>6

LEMMA XferReplyStep == IInv /\ XferReply => IInv'
<1> SUFFICES ASSUME IInv, XferReply PROVE IInv'
  OBVIOUS
<1> USE TransportAssumption DEF IInv, XferReply, Serve, Reading, NoSeq
<1>1. TypeOK'
  <2>1. served' \in BOOLEAN
    OBVIOUS
  <2>2. ret' \in {"ok", "empty", "fail"}
    OBVIOUS
  <2>3. fw' \in [up : BOOLEAN, greeted : BOOLEAN, msgs : Nat]
    <3> HIDE DEF Reading
    <3>1. (fw.greeted \/ ~Reading) \in BOOLEAN
      OBVIOUS
    <3>2. (IF Reading /\ fw.msgs > 0 THEN fw.msgs - 1 ELSE fw.msgs) \in Nat
      BY DEF TypeOK
    <3>. QED
      BY <3>1, <3>2 DEF TypeOK
  <2>. QED
    BY <2>1, <2>2, <2>3 DEF TypeOK
<1>2. LockInv'
  BY DEF LockInv, Reader
<1>3. AckInv'
  <2>1. UNCHANGED <<seq, sent, ackOwn, cpc>> /\ left' \in {left, NoSeq} /\ xpc = "xfer" /\ xpc' = "dec"
    OBVIOUS
  <2>. QED
    BY <2>1 DEF AckInv
<1>4. IrqInv'
  BY DEF IrqInv
<1>5. FwInv'
  BY DEF TypeOK, FwInv, IrqInv, LockInv, ThreadQuiet
<1>6. CountInv'
  BY DEF TypeOK, CountInv, Clean, Pending, Expected, Owed
<1>. QED
  BY <1>1, <1>2, <1>3, <1>4, <1>5, <1>6

LEMMA XferStaleStep == IInv /\ XferStale => IInv'
<1> SUFFICES ASSUME IInv, XferStale PROVE IInv'
  OBVIOUS
<1> USE TransportAssumption DEF IInv, XferStale, NoSeq
<1>1. TypeOK'
  BY DEF TypeOK
<1>2. LockInv'
  BY DEF LockInv, Reader
<1>3. AckInv'
  <2>1. sent < SeqMod => left # seq
    BY DEF TypeOK, AckInv
  <2>2. left' = NoSeq /\ (left # seq => ackOwn') /\ UNCHANGED <<seq, sent, cpc>> /\ xpc' = "dec" /\ cpc # "boot"
    BY DEF LockInv, Reader, Holding
  <2> HIDE DEF XferStale
  <2>. QED
    BY <2>1, <2>2 DEF AckInv
<1>4. IrqInv'
  BY DEF IrqInv
<1>5. FwInv'
  BY DEF FwInv, ThreadQuiet
<1>6. CountInv'
  <2>1. /\ xpc = "xfer" /\ xpc' = "dec" /\ served' = TRUE /\ wakeuphost /\ ret' \in {"ok", "fail"}
        /\ UNCHANGED <<lock_cnt, wakeuphost, edge, depth, woken, tpc, dev_state, reset_work, cpc, fw, req,
                       late, latched>>
    OBVIOUS
  <2> HIDE DEF XferStale
  <2>. QED
    BY <2>1 DEF TypeOK, CountInv, Clean, Pending, Expected, Owed
<1>. QED
  BY <1>1, <1>2, <1>3, <1>4, <1>5, <1>6

LEMMA XferBrokenStep == IInv /\ XferBroken => IInv'
<1> SUFFICES ASSUME IInv, XferBroken PROVE IInv'
  OBVIOUS
<1> USE TransportAssumption DEF IInv, XferBroken, Reading, NoSeq
<1>1. TypeOK'
  BY DEF TypeOK
<1>2. LockInv'
  BY DEF LockInv, Reader
<1>3. AckInv'
  <2>1. left' \in {left, seq} /\ UNCHANGED <<seq, sent, ackOwn, cpc>> /\ xpc' = "dec" /\ cpc # "boot"
    BY DEF LockInv, Reader, Holding
  <2>2. seq <= seq
    BY DEF TypeOK
  <2> HIDE DEF XferBroken
  <2>. QED
    BY <2>1, <2>2 DEF AckInv
<1>4. IrqInv'
  BY DEF TypeOK, IrqInv
<1>5. FwInv'
  BY DEF TypeOK, FwInv, ThreadQuiet
<1>6. CountInv'
  <2>1. /\ xpc = "xfer" /\ xpc' = "dec" /\ ret' = "fail" /\ served' = wakeuphost
        /\ UNCHANGED <<lock_cnt, wakeuphost, edge, depth, woken, tpc, dev_state, reset_work, cpc, req,
                       late, latched>>
    OBVIOUS
  <2>2. fw'.up = fw.up
    BY DEF TypeOK
  <2>4. ~Owed'
    BY <2>1 DEF Owed
  <2> HIDE DEF XferBroken
  <2>. QED
    BY <2>1, <2>2, <2>4 DEF TypeOK, CountInv, Clean, Pending, Expected, Owed
<1>. QED
  BY <1>1, <1>2, <1>3, <1>4, <1>5, <1>6

LEMMA XferUnlockStep == IInv /\ XferUnlock => IInv'
<1> SUFFICES ASSUME IInv, XferUnlock PROVE IInv'
  OBVIOUS
<1> USE TransportAssumption DEF IInv, XferUnlock, NoSeq
<1>1. TypeOK'
  BY DEF TypeOK
<1>2. LockInv'
  BY DEF TypeOK, LockInv, Reader
<1>3. AckInv'
  BY DEF AckInv
<1>4. IrqInv'
  BY DEF IrqInv
<1>5. FwInv'
  BY DEF FwInv, ThreadQuiet
<1>6. CountInv'
  BY DEF TypeOK, CountInv, Clean, Pending, Expected, Owed, ThreadQuiet
<1>. QED
  BY <1>1, <1>2, <1>3, <1>4, <1>5, <1>6

LEMMA XferReleaseStep == IInv /\ XferRelease => IInv'
<1> SUFFICES ASSUME IInv, XferRelease PROVE IInv'
  OBVIOUS
<1> USE TransportAssumption DEF IInv, XferRelease, NoSeq
<1>1. TypeOK'
  <2>1. request' \in BOOLEAN /\ req' \in BOOLEAN /\ ackOwn' \in BOOLEAN
    OBVIOUS
  <2>. QED
    BY <2>1 DEF TypeOK
<1>2. LockInv'
  BY DEF LockInv, Reader
<1>3. AckInv'
  BY DEF AckInv
<1>4. IrqInv'
  BY DEF IrqInv
<1>5. FwInv'
  BY DEF FwInv, ThreadQuiet
<1>6. CountInv'
  BY DEF CountInv, Clean, Pending, Expected, Owed, ThreadQuiet
<1>. QED
  BY <1>1, <1>2, <1>3, <1>4, <1>5, <1>6

-----------------------------------------------------------------------------
(* The firmware. *)

LEMMA FwAssertStep == IInv /\ FwAssert => IInv'
<1> SUFFICES ASSUME IInv, FwAssert PROVE IInv'
  OBVIOUS
<1> USE TransportAssumption DEF IInv, FwAssert, NoSeq
<1>1. TypeOK'
  <2>1. wakeuphost' \in BOOLEAN /\ served' \in BOOLEAN /\ edge' \in BOOLEAN
    BY DEF TypeOK
  <2>. QED
    BY <2>1 DEF TypeOK
<1>2. LockInv'
  BY DEF LockInv, Reader
<1>3. AckInv'
  BY DEF AckInv
<1>4. IrqInv'
  BY DEF IrqInv
<1>5. FwInv'
  BY DEF TypeOK, FwInv, IrqInv, LockInv, ThreadQuiet, Reader
<1>6. CountInv'
  <2> SUFFICES ASSUME Clean' PROVE CountInv'
    BY DEF CountInv
  <2>1. Clean
    BY DEF Clean
  <2>2. depth = 0 /\ requested
    <3>1. CASE fw.msgs > 0
      BY <2>1, <3>1 DEF Clean, FwInv, IrqInv
    <3>2. CASE req
      BY <2>1, <3>2 DEF TypeOK, Clean, FwInv, IrqInv, LockInv, Reader, ThreadQuiet
    <3>. QED
      BY <3>1, <3>2
  <2>4. edge'
    BY <2>2
  <2>5. Pending' >= Expected'
    BY <2>1, <2>4 DEF TypeOK, CountInv, Pending, Expected, Owed
  <2>6. Pending' <= Expected' + (IF latched THEN 1 ELSE 0)
    BY <2>1, <2>4 DEF TypeOK, CountInv, Pending, Expected, Owed
  <2>. QED
    BY <2>1, <2>4, <2>5, <2>6 DEF TypeOK, CountInv, LockInv
<1>. QED
  BY <1>1, <1>2, <1>3, <1>4, <1>5, <1>6

LEMMA FwDeassertStep == IInv /\ FwDeassert => IInv'
<1> SUFFICES ASSUME IInv, FwDeassert PROVE IInv'
  OBVIOUS
<1> USE TransportAssumption DEF IInv, FwDeassert, NoSeq
<1>1. TypeOK'
  <2>1. wakeuphost' \in BOOLEAN /\ served' \in BOOLEAN /\ req' \in BOOLEAN
    OBVIOUS
  <2>. QED
    BY <2>1 DEF TypeOK
<1>2. LockInv'
  BY DEF LockInv, Reader
<1>3. AckInv'
  BY DEF AckInv
<1>4. IrqInv'
  BY DEF IrqInv
<1>5. FwInv'
  BY DEF FwInv, ThreadQuiet
<1>6. CountInv'
  BY DEF TypeOK, CountInv, Clean, Pending, Expected, Owed
<1>. QED
  BY <1>1, <1>2, <1>3, <1>4, <1>5, <1>6

LEMMA FwMessageStep == IInv /\ FwMessage => IInv'
<1> SUFFICES ASSUME IInv, FwMessage PROVE IInv'
  OBVIOUS
<1> USE TransportAssumption DEF IInv, FwMessage, NoSeq
<1>1. TypeOK'
  BY DEF TypeOK
<1>2. LockInv'
  BY DEF LockInv, Reader
<1>3. AckInv'
  BY DEF AckInv
<1>4. IrqInv'
  BY DEF IrqInv
<1>5. FwInv'
  BY DEF FwInv, ThreadQuiet
<1>6. CountInv'
  BY DEF TypeOK, CountInv, Clean, Pending, Expected, Owed, ThreadQuiet
<1>. QED
  BY <1>1, <1>2, <1>3, <1>4, <1>5, <1>6

-----------------------------------------------------------------------------
(* The interrupt handlers. *)

LEMMA mei_vsc_irq_quick_handlerStep == IInv /\ mei_vsc_irq_quick_handler => IInv'
<1> SUFFICES ASSUME IInv, mei_vsc_irq_quick_handler PROVE IInv'
  OBVIOUS
<1> USE TransportAssumption DEF IInv, mei_vsc_irq_quick_handler, NoSeq
<1>1. TypeOK'
  <2>1. edge' \in BOOLEAN /\ woken' \in BOOLEAN
    OBVIOUS
  <2>2. lock_cnt' \in 0 .. MaxCnt
    BY DEF TypeOK, LockInv
  <2>. QED
    BY <2>1, <2>2 DEF TypeOK
<1>2. LockInv'
  BY DEF LockInv, Reader
<1>3. AckInv'
  BY DEF AckInv
<1>4. IrqInv'
  BY DEF IrqInv
<1>5. FwInv'
  BY DEF FwInv
<1>6. CountInv'
  BY DEF TypeOK, CountInv, Clean, Pending, Expected, Owed, ThreadQuiet
<1>. QED
  BY <1>1, <1>2, <1>3, <1>4, <1>5, <1>6

LEMMA ThreadRunsStep == IInv /\ ThreadRuns => IInv'
<1> SUFFICES ASSUME IInv, ThreadRuns PROVE IInv'
  OBVIOUS
<1> USE TransportAssumption DEF IInv, ThreadRuns, NoSeq
<1>1. TypeOK'
  <2>1. woken' \in BOOLEAN
    OBVIOUS
  <2>. QED
    BY <2>1 DEF TypeOK
<1>2. LockInv'
  BY DEF LockInv, Reader
<1>3. AckInv'
  BY DEF AckInv
<1>4. IrqInv'
  BY DEF IrqInv
<1>5. FwInv'
  BY DEF FwInv, ThreadQuiet
<1>6. CountInv'
  BY DEF CountInv, Clean, Pending, Expected, Owed, ThreadQuiet
<1>. QED
  BY <1>1, <1>2, <1>3, <1>4, <1>5, <1>6

LEMMA ThreadLocksStep == IInv /\ ThreadLocks => IInv'
<1> SUFFICES ASSUME IInv, ThreadLocks PROVE IInv'
  OBVIOUS
<1> USE TransportAssumption DEF IInv, ThreadLocks, NoSeq
<1>1. TypeOK'
  BY DEF TypeOK
<1>2. LockInv'
  BY DEF LockInv, Reader
<1>3. AckInv'
  BY DEF AckInv
<1>4. IrqInv'
  BY DEF IrqInv
<1>5. FwInv'
  BY DEF FwInv, ThreadQuiet
<1>6. CountInv'
  BY DEF CountInv, Clean, Pending, Expected, Owed, ThreadQuiet
<1>. QED
  BY <1>1, <1>2, <1>3, <1>4, <1>5, <1>6

LEMMA ThreadLoopStep == IInv /\ ThreadLoop => IInv'
<1> SUFFICES ASSUME IInv, ThreadLoop PROVE IInv'
  OBVIOUS
<1> USE TransportAssumption DEF IInv, ThreadLoop, XferBegin, CountSent, ThreadEnd, spi_need_read, spi_xfer_asserted, NoSeq
<1>1. TypeOK'
  <2>1. request' \in BOOLEAN /\ req' \in BOOLEAN
    BY DEF TypeOK
  <2>2. seq' \in 0 .. SeqMod - 1 /\ left' \in 0 .. SeqMod
    BY DEF TypeOK
  <2>. QED
    BY <2>1, <2>2 DEF TypeOK
<1>2. LockInv'
  BY DEF LockInv, Reader
<1>3. AckInv'
  <2>1. CASE spi_need_read /\ XferBegin /\ tpc' = "read" /\ UNCHANGED <<lock, served, fw, left>>
    <3> HIDE DEF XferBegin, CountSent
    <3>1. xpc = "none" /\ cpc' # "boot" /\ ackOwn' = ackOwn
      BY DEF LockInv, Reader, Holding
    <3>. QED
      BY <2>1, <3>1, NextNumber
  <2>2. CASE UNCHANGED <<seq, xpc, left, sent>>
    BY <2>2 DEF AckInv
  <2>. QED
    BY <2>1, <2>2
<1>4. IrqInv'
  BY DEF IrqInv
<1>5. FwInv'
  BY DEF FwInv, ThreadQuiet
<1>6. CountInv'
  BY DEF TypeOK, CountInv, Clean, Pending, Expected, Owed, LockInv, Holding, ThreadQuiet, Reader
<1>. QED
  BY <1>1, <1>2, <1>3, <1>4, <1>5, <1>6

LEMMA ThreadReadStep == IInv /\ ThreadRead => IInv'
<1> SUFFICES ASSUME IInv, ThreadRead PROVE IInv'
  OBVIOUS
<1> USE TransportAssumption DEF IInv, ThreadRead, ThreadEnd, NoSeq
<1>1. TypeOK'
  <2>1. reset_work' \in BOOLEAN
    BY DEF TypeOK
  <2>. QED
    BY <2>1 DEF TypeOK
<1>2. LockInv'
  BY DEF LockInv
<1>3. AckInv'
  BY DEF AckInv
<1>4. IrqInv'
  BY DEF IrqInv, LockInv, Holding
<1>5. FwInv'
  BY DEF FwInv, ThreadQuiet
<1>6. CountInv'
  BY DEF CountInv, Clean, Pending, Expected, Owed, ThreadQuiet
<1>. QED
  BY <1>1, <1>2, <1>3, <1>4, <1>5, <1>6

-----------------------------------------------------------------------------
(* mei_vsc_write. *)

LEMMA WriteBeginStep == IInv /\ WriteBegin => IInv'
<1> SUFFICES ASSUME IInv, WriteBegin PROVE IInv'
  OBVIOUS
<1> USE TransportAssumption DEF IInv, WriteBegin, XferBegin, CountSent, NoSeq
<1>1. TypeOK'
  BY DEF TypeOK
<1>2. LockInv'
  BY DEF LockInv, Reader
<1>3. AckInv'
  <2> HIDE DEF XferBegin
  <2>1. xpc = "none" /\ cpc' # "boot" /\ ackOwn' = ackOwn /\ left' = left
    BY DEF LockInv, Reader, Holding
  <2>. QED
    BY <2>1, NextNumber
<1>4. IrqInv'
  BY DEF IrqInv
<1>5. FwInv'
  BY DEF FwInv, ThreadQuiet
<1>6. CountInv'
  BY DEF CountInv, Clean, Pending, Expected, Owed, LockInv, Holding, ThreadQuiet, Reader
<1>. QED
  BY <1>1, <1>2, <1>3, <1>4, <1>5, <1>6

LEMMA WriteEndStep == IInv /\ WriteEnd => IInv'
<1> SUFFICES ASSUME IInv, WriteEnd PROVE IInv'
  OBVIOUS
<1> USE TransportAssumption DEF IInv, WriteEnd, NoSeq
<1>1. TypeOK'
  BY DEF TypeOK
<1>2. LockInv'
  BY DEF LockInv
<1>3. AckInv'
  BY DEF AckInv
<1>4. IrqInv'
  BY DEF IrqInv
<1>5. FwInv'
  BY DEF FwInv, ThreadQuiet
<1>6. CountInv'
  BY DEF CountInv, Clean, Pending, Expected, Owed, ThreadQuiet
<1>. QED
  BY <1>1, <1>2, <1>3, <1>4, <1>5, <1>6

-----------------------------------------------------------------------------
(* The core's flow. *)

LEMMA CoreBeginStep == IInv /\ CoreBegin => IInv'
<1> SUFFICES ASSUME IInv, CoreBegin PROVE IInv'
  OBVIOUS
<1> USE TransportAssumption DEF IInv, CoreBegin, NoSeq
<1>1. TypeOK'
  <2>1. reset_work' \in BOOLEAN /\ disconnect' \in BOOLEAN
    BY DEF TypeOK
  <2>. QED
    BY <2>1 DEF TypeOK
<1>2. LockInv'
  BY DEF LockInv, Holding, Reader
<1>3. AckInv'
  BY DEF AckInv
<1>4. IrqInv'
  BY DEF IrqInv
<1>5. FwInv'
  BY DEF FwInv, ThreadQuiet
<1>6. CountInv'
  BY DEF CountInv, Clean, Pending, Expected, Owed
<1>. QED
  BY <1>1, <1>2, <1>3, <1>4, <1>5, <1>6

LEMMA CoreSyncStep == IInv /\ CoreSync => IInv'
<1> SUFFICES ASSUME IInv, CoreSync PROVE IInv'
  OBVIOUS
<1> USE TransportAssumption DEF IInv, CoreSync, ThreadQuiet, NoSeq
<1>1. TypeOK'
  BY DEF TypeOK
<1>2. LockInv'
  BY DEF LockInv, Holding, Reader
<1>3. AckInv'
  BY DEF AckInv
<1>4. IrqInv'
  BY DEF IrqInv
<1>5. FwInv'
  BY DEF FwInv
<1>6. CountInv'
  BY DEF CountInv, Clean, Pending, Expected, Owed
<1>. QED
  BY <1>1, <1>2, <1>3, <1>4, <1>5, <1>6

LEMMA CoreLockStep == IInv /\ CoreLock => IInv'
<1> SUFFICES ASSUME IInv, CoreLock PROVE IInv'
  OBVIOUS
<1> USE TransportAssumption DEF IInv, CoreLock, MEI_MAX_CONSEC_RESET, NoSeq
<1>1. TypeOK'
  BY DEF TypeOK
<1>2. LockInv'
  BY DEF LockInv, Holding, Reader
<1>3. AckInv'
  BY DEF AckInv
<1>4. IrqInv'
  BY DEF TypeOK, IrqInv, LockInv
<1>5. FwInv'
  BY DEF FwInv, ThreadQuiet
<1>6. CountInv'
  BY DEF CountInv, Clean, Pending, Expected, Owed
<1>. QED
  BY <1>1, <1>2, <1>3, <1>4, <1>5, <1>6

LEMMA HwResetDisableStep == IInv /\ HwResetDisable => IInv'
<1> SUFFICES ASSUME IInv, HwResetDisable PROVE IInv'
  OBVIOUS
<1> USE TransportAssumption DEF IInv, HwResetDisable, NoSeq
<1>1. TypeOK'
  BY DEF TypeOK
<1>2. LockInv'
  BY DEF LockInv, Holding, Reader
<1>3. AckInv'
  BY DEF AckInv
<1>4. IrqInv'
  BY DEF TypeOK, IrqInv
<1>5. FwInv'
  BY DEF TypeOK, FwInv, ThreadQuiet
<1>6. CountInv'
  BY DEF CountInv, Clean
<1>. QED
  BY <1>1, <1>2, <1>3, <1>4, <1>5, <1>6

LEMMA HwResetPinsStep == IInv /\ HwResetPins => IInv'
<1> SUFFICES ASSUME IInv, HwResetPins PROVE IInv'
  OBVIOUS
<1> USE TransportAssumption DEF IInv, HwResetPins, ThreadQuiet, FwOff, NoSeq
<1>1. TypeOK'
  <2>1. served' \in BOOLEAN /\ req' \in BOOLEAN /\ request' \in BOOLEAN /\ wakeuphost' \in BOOLEAN
    OBVIOUS
  <2>2. fw' \in [up : BOOLEAN, greeted : BOOLEAN, msgs : Nat] /\ left' \in 0 .. SeqMod
    OBVIOUS
  <2>. QED
    BY <2>1, <2>2 DEF TypeOK
<1>2. LockInv'
  BY DEF LockInv, Holding, Reader
<1>3. AckInv'
  BY DEF TypeOK, AckInv
<1>4. IrqInv'
  BY DEF IrqInv
<1>5. FwInv'
  BY DEF TypeOK, FwInv, IrqInv
<1>6. CountInv'
  BY DEF CountInv, Clean
<1>. QED
  BY <1>1, <1>2, <1>3, <1>4, <1>5, <1>6

LEMMA InitHwFailsStep == IInv /\ InitHwFails => IInv'
<1> SUFFICES ASSUME IInv, InitHwFails PROVE IInv'
  OBVIOUS
<1> USE TransportAssumption DEF IInv, InitHwFails, ResetFailed, NoSeq
<1>1. TypeOK'
  BY DEF TypeOK
<1>2. LockInv'
  BY DEF LockInv, Holding, Reader
<1>3. AckInv'
  BY DEF AckInv
<1>4. IrqInv'
  BY DEF IrqInv
<1>5. FwInv'
  BY DEF FwInv, ThreadQuiet
<1>6. CountInv'
  BY DEF CountInv, Clean, FwInv
<1>. QED
  BY <1>1, <1>2, <1>3, <1>4, <1>5, <1>6

LEMMA InitHwStep == IInv /\ InitHw => IInv'
<1> SUFFICES ASSUME IInv, InitHw PROVE IInv'
  OBVIOUS
<1> USE TransportAssumption DEF IInv, InitHw, NoSeq
<1>1. TypeOK'
  <2>1. late' \in BOOLEAN /\ latched' \in BOOLEAN
    BY DEF TypeOK
  <2>2. fw' \in [up : BOOLEAN, greeted : BOOLEAN, msgs : Nat] /\ seq' \in 0 .. SeqMod - 1 /\ sent' \in 0 .. SeqMod
    OBVIOUS
  <2>. QED
    BY <2>1, <2>2 DEF TypeOK
<1>2. LockInv'
  BY DEF LockInv, Holding, Reader
<1>3. AckInv'
  BY DEF AckInv, LockInv, Holding, Reader
<1>4. IrqInv'
  BY DEF IrqInv
<1>5. FwInv'
  BY DEF FwInv, ThreadQuiet
<1>6. CountInv'
  BY DEF CountInv, Clean
<1>. QED
  BY <1>1, <1>2, <1>3, <1>4, <1>5, <1>6

LEMMA HwStartStep == IInv /\ HwStart => IInv'
<1> SUFFICES ASSUME IInv, HwStart PROVE IInv'
  OBVIOUS
<1> USE TransportAssumption DEF IInv, HwStart, NoSeq
<1>1. TypeOK'
  <2>1. depth' \in Nat
    BY DEF TypeOK, IrqInv
  <2>. QED
    BY <2>1 DEF TypeOK
<1>2. LockInv'
  BY DEF TypeOK, LockInv, Holding, Reader
<1>3. AckInv'
  BY DEF AckInv
<1>4. IrqInv'
  BY DEF IrqInv
<1>5. FwInv'
  BY DEF TypeOK, FwInv, ThreadQuiet
<1>6. CountInv'
  BY DEF CountInv, Clean, Pending, Expected, Owed, FwInv, LockInv, Holding, Reader
<1>. QED
  BY <1>1, <1>2, <1>3, <1>4, <1>5, <1>6

LEMMA HwStartReadStep == IInv /\ HwStartRead => IInv'
<1> SUFFICES ASSUME IInv, HwStartRead PROVE IInv'
  OBVIOUS
<1> USE TransportAssumption DEF IInv, HwStartRead, XferBegin, CountSent, NoSeq
<1>1. TypeOK'
  <2>1. request' \in BOOLEAN /\ req' \in BOOLEAN
    BY DEF TypeOK
  <2>2. seq' \in 0 .. SeqMod - 1 /\ left' \in 0 .. SeqMod
    BY DEF TypeOK
  <2>3. tries' \in 0 .. 4
    BY DEF TypeOK, LockInv
  <2>. QED
    BY <2>1, <2>2, <2>3 DEF TypeOK
<1>2. LockInv'
  BY DEF LockInv, Holding, Reader
<1>3. AckInv'
  <2> HIDE DEF XferBegin
  <2>1. xpc = "none" /\ cpc' # "boot" /\ ackOwn' = ackOwn /\ left' = left
    BY DEF LockInv, Reader, Holding
  <2>. QED
    BY <2>1, NextNumber
<1>4. IrqInv'
  BY DEF IrqInv
<1>5. FwInv'
  BY DEF FwInv, ThreadQuiet
<1>6. CountInv'
  BY DEF CountInv, Clean, Pending, Expected, Owed, LockInv, Holding, Reader
<1>. QED
  BY <1>1, <1>2, <1>3, <1>4, <1>5, <1>6

LEMMA HwStartResultStep == IInv /\ HwStartResult => IInv'
<1> SUFFICES ASSUME IInv, HwStartResult PROVE IInv'
  OBVIOUS
<1> USE TransportAssumption DEF IInv, HwStartResult, ResetFailed, NoSeq
<1>1. TypeOK'
  <2>1. reset_work' \in BOOLEAN
    BY DEF TypeOK
  <2>. QED
    BY <2>1 DEF TypeOK, MEI_MAX_CONSEC_RESET
<1>2. LockInv'
  BY DEF TypeOK, LockInv, Holding
<1>3. AckInv'
  BY DEF AckInv
<1>4. IrqInv'
  BY DEF TypeOK, IrqInv, FwInv
<1>5. FwInv'
  BY DEF FwInv, ThreadQuiet
<1>6. CountInv'
  BY DEF TypeOK, CountInv, Clean, Pending, Expected, Owed, FwInv, IrqInv
<1>. QED
  BY <1>1, <1>2, <1>3, <1>4, <1>5, <1>6

LEMMA StopReturnsStep == IInv /\ StopReturns => IInv'
<1> SUFFICES ASSUME IInv, StopReturns PROVE IInv'
  OBVIOUS
<1> USE TransportAssumption DEF IInv, StopReturns, NoSeq
<1>1. TypeOK'
  BY DEF TypeOK
<1>2. LockInv'
  BY DEF LockInv, Holding, Reader
<1>3. AckInv'
  BY DEF AckInv
<1>4. IrqInv'
  BY DEF IrqInv
<1>5. FwInv'
  BY DEF FwInv, ThreadQuiet
<1>6. CountInv'
  BY DEF CountInv, Clean, Pending, Expected, Owed
<1>. QED
  BY <1>1, <1>2, <1>3, <1>4, <1>5, <1>6

LEMMA FreeIrqStep == IInv /\ FreeIrq => IInv'
<1> SUFFICES ASSUME IInv, FreeIrq PROVE IInv'
  OBVIOUS
<1> USE TransportAssumption DEF IInv, FreeIrq, ThreadQuiet, NoSeq
<1>1. TypeOK'
  <2>1. requested' \in BOOLEAN /\ edge' \in BOOLEAN /\ reset_work' \in BOOLEAN
    OBVIOUS
  <2>. QED
    BY <2>1 DEF TypeOK
<1>2. LockInv'
  BY DEF LockInv, Holding, Reader
<1>3. AckInv'
  BY DEF AckInv
<1>4. IrqInv'
  BY DEF TypeOK, IrqInv
<1>5. FwInv'
  BY DEF FwInv
<1>6. CountInv'
  BY DEF TypeOK, CountInv, Clean, Pending, Expected, Owed, FwInv, IrqInv, LockInv, Reader
<1>. QED
  BY <1>1, <1>2, <1>3, <1>4, <1>5, <1>6

LEMMA mei_vsc_resumeStep == IInv /\ mei_vsc_resume => IInv'
<1> SUFFICES ASSUME IInv, mei_vsc_resume PROVE IInv'
  OBVIOUS
<1> USE TransportAssumption DEF IInv, mei_vsc_resume, NoSeq
<1>1. TypeOK'
  <2>1. requested' \in BOOLEAN /\ disconnect' \in BOOLEAN
    OBVIOUS
  <2>. QED
    BY <2>1 DEF TypeOK, MEI_MAX_CONSEC_RESET
<1>2. LockInv'
  BY DEF LockInv, Holding, Reader
<1>3. AckInv'
  BY DEF AckInv
<1>4. IrqInv'
  BY DEF IrqInv
<1>5. FwInv'
  BY DEF FwInv, ThreadQuiet
<1>6. CountInv'
  BY DEF CountInv, Clean, Pending, Expected, Owed
<1>. QED
  BY <1>1, <1>2, <1>3, <1>4, <1>5, <1>6

-----------------------------------------------------------------------------
(* The invariant, and the properties it implies.                           *)

LEMMA IInvInit == Init => IInv
<1> SUFFICES ASSUME Init PROVE IInv
  OBVIOUS
<1> USE TransportAssumption DEF Init, FwOff, NoSeq
<1>1. TypeOK
  <2>1. lock_cnt \in 0 .. MaxCnt /\ seq \in 0 .. SeqMod - 1 /\ left \in 0 .. SeqMod /\ sent \in 0 .. SeqMod
    OBVIOUS
  <2>2. fw \in [up : BOOLEAN, greeted : BOOLEAN, msgs : Nat] /\ resets \in 0 .. MaxResets /\ work \in 0 .. MaxWork
    OBVIOUS
  <2>3. /\ disconnect \in BOOLEAN /\ request \in BOOLEAN /\ wakeuphost \in BOOLEAN
        /\ edge \in BOOLEAN /\ requested \in BOOLEAN /\ woken \in BOOLEAN
    BY Zenon
  <2>4. /\ reset_work \in BOOLEAN /\ req \in BOOLEAN /\ served \in BOOLEAN
        /\ ackOwn \in BOOLEAN /\ late \in BOOLEAN /\ latched \in BOOLEAN
    BY Zenon
  <2>. QED
    BY <2>1, <2>2, <2>3, <2>4 DEF TypeOK, MEI_MAX_CONSEC_RESET
<1>2. LockInv
  BY DEF LockInv, Holding
<1>3. AckInv
  BY DEF AckInv
<1>4. IrqInv
  BY DEF IrqInv
<1>5. FwInv
  BY DEF FwInv, ThreadQuiet
<1>6. CountInv
  BY DEF CountInv, Clean
<1>. QED
  BY <1>1, <1>2, <1>3, <1>4, <1>5, <1>6 DEF IInv

LEMMA Invariance == Spec => []IInv
<1>1. IInv /\ [Next]_vars => IInv'
  <2> SUFFICES ASSUME IInv, [Next]_vars PROVE IInv'
    OBVIOUS
  <2>1. CASE mei_vsc_xfer
    BY <2>1, XferAssertedStep, XferTimeoutStep, XferReplyStep, XferStaleStep, XferBrokenStep,
       XferUnlockStep, XferReleaseStep DEF mei_vsc_xfer
  <2>2. CASE FwAssert \/ FwDeassert \/ FwMessage
    BY <2>2, FwAssertStep, FwDeassertStep, FwMessageStep
  <2>3. CASE mei_vsc_irq_quick_handler
    BY <2>3, mei_vsc_irq_quick_handlerStep
  <2>4. CASE mei_vsc_irq_thread_handler
    BY <2>4, ThreadRunsStep, ThreadLocksStep, ThreadLoopStep, ThreadReadStep
       DEF mei_vsc_irq_thread_handler
  <2>5. CASE mei_vsc_write
    BY <2>5, WriteBeginStep, WriteEndStep DEF mei_vsc_write
  <2>6. CASE CoreFlow
    BY <2>6, CoreBeginStep, CoreSyncStep, CoreLockStep, HwResetDisableStep, HwResetPinsStep,
       InitHwFailsStep, InitHwStep, HwStartStep, HwStartReadStep, HwStartResultStep,
       StopReturnsStep, FreeIrqStep, mei_vsc_resumeStep DEF CoreFlow
  <2>7. CASE UNCHANGED vars
    <3> USE <2>7 DEF vars
    <3>1. TypeOK' /\ LockInv' /\ AckInv'
      BY DEF IInv, TypeOK, LockInv, Reader, AckInv
    <3>2. IrqInv' /\ FwInv'
      BY DEF IInv, IrqInv, FwInv, ThreadQuiet
    <3>3. CountInv'
      BY DEF IInv, CountInv, Clean, Pending, Expected, Owed, ThreadQuiet
    <3>. QED
      BY <3>1, <3>2, <3>3 DEF IInv
  <2>. QED
    BY <2>1, <2>2, <2>3, <2>4, <2>5, <2>6, <2>7 DEF Next
<1>. QED
  BY IInvInit, <1>1, PTL DEF Spec

\* Every variable of the transport keeps its type: lock_cnt does not go below
\* zero at spi_xfer_unlock, nor the disable depth at enable_irq.
THEOREM TypeCorrect == Spec => []TypeOK
<1>1. IInv => TypeOK
  BY DEF IInv
<1>. QED
  BY Invariance, <1>1, PTL

\* spi_validate_packet: until the sequence numbers have come round since the
\* reset, a transfer that succeeds was answered by the reply to its own packet,
\* whatever transfers broke off before it. The increment of hw->seq, its reset
\* in mei_vsc_hw_reset and the reset pin together make the numbers fresh.
THEOREM RepliesOwn == Spec => []AckIsOwn
<1>1. IInv => AckIsOwn
  BY DEF IInv, AckInv, AckIsOwn
<1>. QED
  BY Invariance, <1>1, PTL

\* The quick handler, the thread's loop over spi_need_read and the transfers of
\* writers lose no message: while no transfer timed out since the reset, when an
\* enabled device is quiet no message waits behind wakeuphost, also if an
\* interrupt from before the reset was counted after it.
THEOREM MessagesTaken == Spec => []NoMessageWaits
<1>1. IInv => NoMessageWaits
  BY TransportAssumption DEF IInv, NoMessageWaits, CountInv, Clean, Owed, Quiet, IrqInv
<1>. QED
  BY Invariance, <1>1, PTL

\* While no transfer timed out since the reset, lock_cnt is back at zero when an
\* enabled device is quiet: each interrupt counted by mei_vsc_irq_quick_handler
\* is counted off by one spi_xfer_unlock. Only an interrupt from before the
\* reset, latched while it was disabled, can stay counted, and that one at most.
THEOREM CountsReturn == Spec => []CountReturns
<1> SUFFICES IInv => CountReturns
  BY Invariance, PTL
<1> SUFFICES ASSUME IInv, Quiet, dev_state = "ENABLED", ~late
             PROVE  lock_cnt <= (IF latched THEN 1 ELSE 0)
  BY DEF CountReturns
<1>1. Clean /\ ~Owed
  BY DEF IInv, Quiet, IrqInv, Clean, CountInv
<1>2. xpc = "none"
  BY DEF IInv, Quiet, LockInv, Reader
<1>. QED
  BY <1>1, <1>2 DEF IInv, Quiet, TypeOK, CountInv, Pending, Expected

\* While no transfer timed out since the reset, and no interrupt from before the
\* reset was latched across it, mei_vsc_irq_thread_handler never reads from a
\* firmware that has no message, which would reset the device.
THEOREM ReadsFindMessage == Spec => []ReadFindsMessage
<1> SUFFICES IInv => ReadFindsMessage
  BY Invariance, PTL
<1> SUFFICES ASSUME IInv, tpc = "read", ~late, ~latched PROVE ret # "empty"
  BY DEF ReadFindsMessage
<1>1. Clean
  BY DEF IInv, Clean, FwInv, LockInv, Holding, ThreadQuiet
<1>. QED
  BY <1>1 DEF IInv, CountInv

\* The first reset after a successful start, and every enabled device, has the
\* interrupt enabled, however many resets failed before.
THEOREM InterruptsBalanced == Spec => []IrqBalanced
<1>1. IInv => IrqBalanced
  BY DEF IInv, TypeOK, IrqInv, IrqBalanced
<1>. QED
  BY Invariance, <1>1, PTL
=============================================================================
