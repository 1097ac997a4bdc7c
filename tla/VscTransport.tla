---------------------------- MODULE VscTransport ----------------------------
(***************************************************************************)
(* The SPI transport of the Visual Sensing Controller: the transfers, the  *)
(* interrupt handlers and the reset of drivers/misc/mei/hw-vsc.c, and the  *)
(* lifecycle of spi-vsc.c that drives them through the MEI core.           *)
(*                                                                         *)
(* Three flows transfer packets, each under dev->device_lock: the core     *)
(* (probe, reset work, resume, suspend), a writer, and the interrupt       *)
(* thread. hw->mutex is only taken inside device_lock. The primary         *)
(* interrupt handler and the firmware run beside them.                     *)
(*                                                                         *)
(* Two lines connect host and firmware: wakeupfw (low: the host requests a *)
(* transfer) and wakeuphost (the firmware is ready for one; asserting it   *)
(* interrupts the host). init_hw is VscBoot.tla; here it succeeds or fails.*)
(***************************************************************************)
EXTENDS Integers

CONSTANTS
  MaxResets,  \* bound: resets
  MaxWork,    \* bound: host writes and firmware messages together
  MaxCnt,     \* bound: interrupts counted and not answered
  SeqMod      \* sequence numbers are modulo this; 2^32 in the code

ASSUME TransportAssumption ==
  MaxResets \in Nat /\ MaxWork \in Nat /\ MaxCnt \in Nat /\ SeqMod \in Nat \ {0}

MEI_MAX_CONSEC_RESET == 3

VARIABLES
  lock_cnt, seq, disconnect,  \* of struct mei_vsc_hw
  request,    \* wakeupfw is low
  wakeuphost, \* wakeuphost is asserted
  edge,       \* an interrupt waits to be taken
  requested, depth,   \* the irq: requested; its disable depth
  woken, tpc, \* the interrupt thread: to be run; where it is
  dev_state, lock, reset_work, reset_count,  \* of struct mei_device
  cpc, why,   \* the core's flow: where it is and what started it
  tries,      \* mei_vsc_hw_start: reads left
  wpc,        \* the writer
  xpc, ret,   \* mei_vsc_xfer of the lock's owner: its phase and its result
  fw,         \* firmware: running, greeted by the host, messages to send
  req, served,\* firmware: has seen the request; transferred since it asserted
  left,       \* firmware: sequence number of a reply it could not send, or NoSeq
  ackOwn,     \* ghost: the reply accepted was made for this packet
  sent,       \* ghost: packets sent since the reset, counted up to SeqMod
  late,       \* ghost: since the reset a transfer timed out
  latched,    \* ghost: at the reset an interrupt from before it was still to be
              \* taken
  resets, work

hwVars == <<lock_cnt, seq, disconnect>>
irqVars == <<requested, depth>>
thread == <<woken, tpc>>
meiVars == <<dev_state, reset_work, reset_count>>
core == <<cpc, why, tries>>
xfer == <<xpc, ret>>
firmware == <<fw, req, served, left>>
marks == <<ackOwn, late, latched>>
ghosts == <<marks, sent>>
bounds == <<resets, work>>
vars == <<lock_cnt, seq, disconnect, request, wakeuphost, edge, requested, depth, woken, tpc,
          dev_state, lock, reset_work, reset_count, cpc, why, tries, wpc, xpc, ret,
          fw, req, served, left, ackOwn, late, latched, sent, resets, work>>

TypeOK ==
  /\ lock_cnt \in 0 .. MaxCnt /\ seq \in 0 .. SeqMod - 1 /\ disconnect \in BOOLEAN
  /\ request \in BOOLEAN /\ wakeuphost \in BOOLEAN /\ edge \in BOOLEAN
  /\ requested \in BOOLEAN /\ depth \in Nat
  /\ woken \in BOOLEAN /\ tpc \in {"idle", "lock", "loop", "read"}
  /\ dev_state \in {"INITIALIZING", "RESETTING", "ENABLED", "POWER_DOWN", "DISABLED"}
  /\ lock \in {"none", "core", "irq", "writer"}
  /\ reset_work \in BOOLEAN /\ reset_count \in 0 .. MEI_MAX_CONSEC_RESET
  /\ cpc \in {"idle", "sync", "lock", "disable", "disabled", "boot", "start", "sleep", "read",
              "stopped", "release_irq", "suspended", "gone"}
  /\ why \in {"probe", "work", "resume", "stop"}
  /\ tries \in 0 .. 4
  /\ wpc \in {"idle", "write"}
  /\ xpc \in {"none", "wait", "xfer", "dec", "release"}
  /\ ret \in {"ok", "empty", "fail"}
  /\ fw \in [up : BOOLEAN, greeted : BOOLEAN, msgs : Nat]
  /\ req \in BOOLEAN /\ served \in BOOLEAN
  /\ left \in 0 .. SeqMod /\ sent \in 0 .. SeqMod
  /\ ackOwn \in BOOLEAN /\ late \in BOOLEAN /\ latched \in BOOLEAN
  /\ resets \in 0 .. MaxResets /\ work \in 0 .. MaxWork

\* No sequence number has this value.
NoSeq == SeqMod

FwOff == [up |-> FALSE, greeted |-> FALSE, msgs |-> 0]

\* mei_vsc_probe has requested the irq and scheduled probe_work.
Init ==
  /\ lock_cnt = 0 /\ seq = 0 /\ disconnect = FALSE
  /\ request = FALSE /\ wakeuphost = FALSE /\ edge = FALSE
  /\ requested = TRUE /\ depth = 0
  /\ woken = FALSE /\ tpc = "idle"
  /\ dev_state = "INITIALIZING" /\ lock = "none"
  /\ reset_work = FALSE /\ reset_count = 0
  /\ cpc = "lock" /\ why = "probe" /\ tries = 0
  /\ wpc = "idle" /\ xpc = "none" /\ ret = "ok"
  /\ fw = FwOff /\ req = FALSE /\ served = FALSE /\ left = NoSeq
  /\ ackOwn = TRUE /\ late = FALSE /\ latched = FALSE /\ sent = 0
  /\ resets = 0 /\ work = 0

-----------------------------------------------------------------------------
(* mei_vsc_xfer, for the owner of device_lock.                             *)

\* The firmware is ready and its interrupt has been taken.
spi_xfer_asserted == lock_cnt > 0 /\ wakeuphost

\* The same, and the host itself is not asking for a transfer.
spi_need_read == spi_xfer_asserted /\ ~request

CountSent == sent' = IF sent < SeqMod THEN sent + 1 ELSE sent

\* Mutant of XferBegin: the packet after a failed one has its number again.
XferBeginSame ==
  /\ seq' = seq
  /\ request' = TRUE
  /\ req' = fw.up
  /\ xpc' = "wait"
  /\ CountSent

\* ++hw->seq, and spi_wakeup_request pulls wakeupfw low.
XferBegin ==
  /\ seq' = (seq + 1) % SeqMod
  /\ request' = TRUE
  /\ req' = fw.up
  /\ xpc' = "wait"
  /\ CountSent

\* spi_xfer_wait_asserted ends because the firmware is ready.
XferAsserted ==
  /\ xpc = "wait" /\ spi_xfer_asserted
  /\ xpc' = "xfer"
  /\ UNCHANGED <<hwVars, request, wakeuphost, edge, irqVars, thread, meiVars, lock, core, wpc,
                 ret, firmware, ghosts, bounds>>

\* Two seconds have passed and the condition, tested again, does not hold.
XferTimeout ==
  /\ xpc = "wait" /\ ~spi_xfer_asserted
  /\ xpc' = "dec" /\ ret' = "fail"
  /\ late' = TRUE
  /\ UNCHANGED <<hwVars, request, wakeuphost, edge, irqVars, thread, meiVars, lock, core, wpc,
                 firmware, ackOwn, latched, sent, bounds>>

\* The command of the packet: only the writer's is CMD_SPI_WRITE.
Reading == lock # "writer"

\* The firmware takes the packet of the owner: a read gets a message, if there
\* is one, and the first write greets the firmware.
Serve ==
  /\ ret' = IF Reading /\ fw.msgs = 0 THEN "empty" ELSE "ok"
  /\ fw' = [fw EXCEPT !.msgs = IF Reading /\ @ > 0 THEN @ - 1 ELSE @,
                      !.greeted = @ \/ ~Reading]

\* A well-formed reply to the packet just sent; the firmware may give up an
\* older one it still holds.
XferReply ==
  /\ xpc = "xfer" /\ wakeuphost
  /\ xpc' = "dec"
  /\ served' = TRUE /\ left' \in {left, NoSeq}
  /\ Serve
  /\ UNCHANGED <<hwVars, request, wakeuphost, edge, irqVars, thread, meiVars, lock, core, wpc,
                 req, ghosts, bounds>>

\* A well-formed reply left over from a transfer that broke off. It is
\* refused unless it has the sequence number of this packet.
XferStale ==
  /\ xpc = "xfer" /\ wakeuphost /\ left # NoSeq
  /\ xpc' = "dec"
  /\ served' = TRUE /\ left' = NoSeq
  /\ ret' = IF left = seq THEN "ok" ELSE "fail"
  /\ ackOwn' = (left # seq)
  /\ UNCHANGED <<hwVars, request, wakeuphost, edge, irqVars, thread, meiVars, lock, core, wpc,
                 fw, req, late, latched, sent, bounds>>

\* The SPI controller fails, no synchronisation byte or not the whole reply
\* comes in MAX_XFER_COUNT transfers, its CRC is wrong, or the firmware says
\* NACK, BUSY or FATAL_ERR. The firmware may have taken the packet.
XferBroken ==
  /\ xpc = "xfer"
  /\ xpc' = "dec" /\ ret' = "fail"
  /\ served' = wakeuphost
  /\ left' \in {left, seq}
  /\ fw' \in {fw, [fw EXCEPT !.msgs = IF Reading /\ @ > 0 THEN @ - 1 ELSE @]}
  /\ UNCHANGED <<hwVars, request, wakeuphost, edge, irqVars, thread, meiVars, lock, core, wpc,
                 req, ghosts, bounds>>

\* Mutant of XferUnlock: the transfer's interrupt is not counted off.
XferUnlockKeeps ==
  /\ xpc = "dec"
  /\ xpc' = "release"
  /\ UNCHANGED <<lock_cnt, seq, disconnect, request, wakeuphost, edge, irqVars, thread, meiVars,
                 lock, core, wpc, ret, firmware, ghosts, bounds>>

\* Mutant of XferUnlock: atomic_dec.
XferUnlockNegative ==
  /\ xpc = "dec"
  /\ lock_cnt' = lock_cnt - 1
  /\ xpc' = "release"
  /\ UNCHANGED <<seq, disconnect, request, wakeuphost, edge, irqVars, thread, meiVars, lock, core,
                 wpc, ret, firmware, ghosts, bounds>>

\* spi_xfer_unlock: atomic_dec_if_positive, then wakeupfw goes high. An
\* interrupt may be taken between the two.
XferUnlock ==
  /\ xpc = "dec"
  /\ lock_cnt' = IF lock_cnt > 0 THEN lock_cnt - 1 ELSE 0
  /\ xpc' = "release"
  /\ UNCHANGED <<seq, disconnect, request, wakeuphost, edge, irqVars, thread, meiVars, lock, core,
                 wpc, ret, firmware, ghosts, bounds>>

XferRelease ==
  /\ xpc = "release"
  /\ request' = FALSE /\ req' = FALSE
  /\ xpc' = "none"
  /\ ackOwn' = TRUE
  /\ UNCHANGED <<hwVars, wakeuphost, edge, irqVars, thread, meiVars, lock, core, wpc, ret,
                 fw, served, left, late, latched, sent, bounds>>

mei_vsc_xfer ==
  \/ XferAsserted \/ XferTimeout \/ XferBroken \/ XferUnlock \/ XferRelease
  \/ XferReply \/ XferStale

-----------------------------------------------------------------------------
(* The firmware (external). It raises wakeuphost for a request or for a    *)
(* message and lowers it after the transfer, or when there is no longer a  *)
(* reason. It sends nothing before the host's first message.               *)

\* An edge on a disabled interrupt may be latched or lost.
FwAssert ==
  /\ fw.up /\ ~wakeuphost /\ lock_cnt < MaxCnt
  /\ req \/ fw.msgs > 0
  /\ wakeuphost' = TRUE /\ served' = FALSE
  /\ edge' \in IF depth = 0 /\ requested THEN {TRUE} ELSE {edge, requested}
  /\ UNCHANGED <<hwVars, request, irqVars, thread, meiVars, lock, core, wpc, xfer,
                 fw, req, left, ghosts, bounds>>

FwDeassert ==
  /\ wakeuphost
  /\ served \/ (~req /\ fw.msgs = 0)
  /\ wakeuphost' = FALSE /\ served' = FALSE
  /\ req' = (req /\ ~served)
  /\ UNCHANGED <<hwVars, request, edge, irqVars, thread, meiVars, lock, core, wpc, xfer,
                 fw, left, ghosts, bounds>>

FwMessage ==
  /\ fw.up /\ fw.greeted /\ work < MaxWork
  /\ work' = work + 1
  /\ fw' = [fw EXCEPT !.msgs = @ + 1]
  /\ UNCHANGED <<hwVars, request, wakeuphost, edge, irqVars, thread, meiVars, lock, core, wpc,
                 xfer, req, served, left, ghosts, resets>>

-----------------------------------------------------------------------------
(* The interrupt handlers.                                                 *)

\* While the device starts, the interrupt only releases the waiting transfer.
mei_vsc_irq_quick_handler ==
  /\ edge /\ requested /\ depth = 0
  /\ edge' = FALSE
  /\ lock_cnt' = lock_cnt + 1
  /\ woken' = (woken \/ dev_state \notin {"INITIALIZING", "RESETTING"})
  /\ UNCHANGED <<seq, disconnect, request, wakeuphost, irqVars, tpc, meiVars, lock, core, wpc,
                 xfer, firmware, ghosts, bounds>>

ThreadRuns ==
  /\ woken /\ tpc = "idle"
  /\ woken' = FALSE
  /\ tpc' = "lock"
  /\ UNCHANGED <<hwVars, request, wakeuphost, edge, irqVars, meiVars, lock, core, wpc, xfer,
                 firmware, ghosts, bounds>>

ThreadLocks ==
  /\ tpc = "lock" /\ lock = "none"
  /\ lock' = "irq"
  /\ tpc' = "loop"
  /\ UNCHANGED <<hwVars, request, wakeuphost, edge, irqVars, woken, meiVars, core, wpc, xfer,
                 firmware, ghosts, bounds>>

ThreadEnd ==
  /\ lock' = "none"
  /\ tpc' = "idle"

\* Mutant of ThreadLoop: a message is read once, not until none is left.
ThreadLoopOnce ==
  /\ tpc = "loop"
  /\ ThreadEnd
  /\ UNCHANGED <<hwVars, request, wakeuphost, edge, irqVars, woken, meiVars, core, wpc, xfer,
                 firmware, ghosts, bounds>>

\* The loop over spi_need_read. What the write handler behind it sends is a
\* write like any other, and the second test is the loop's again.
ThreadLoop ==
  /\ tpc = "loop"
  /\ \/ /\ spi_need_read
        /\ XferBegin
        /\ tpc' = "read"
        /\ UNCHANGED <<lock, served, fw, left>>
     \/ /\ ~spi_need_read
        /\ ThreadEnd
        /\ UNCHANGED <<seq, request, xpc, firmware, sent>>
  /\ UNCHANGED <<lock_cnt, disconnect, wakeuphost, edge, irqVars, woken, meiVars, core, wpc,
                 ret, marks, bounds>>

\* mei_vsc_read gives no header when the transfer failed or brought less than
\* one; mei_irq_read_handler calls that an error, and the device is reset.
ThreadRead ==
  /\ tpc = "read" /\ xpc = "none"
  /\ \/ /\ ret = "ok"
        /\ tpc' = "loop"
        /\ UNCHANGED <<lock, reset_work>>
     \/ /\ ret # "ok"
        /\ dev_state \notin {"RESETTING", "POWER_DOWN"}
        /\ reset_work' = TRUE
        /\ ThreadEnd
     \/ /\ ret # "ok"
        /\ dev_state \in {"RESETTING", "POWER_DOWN"}
        /\ tpc' = "loop"
        /\ UNCHANGED <<lock, reset_work>>
  /\ ret' = "ok"
  /\ UNCHANGED <<hwVars, request, wakeuphost, edge, irqVars, woken, dev_state, reset_count, core,
                 wpc, xpc, firmware, ghosts, bounds>>

mei_vsc_irq_thread_handler == ThreadRuns \/ ThreadLocks \/ ThreadLoop \/ ThreadRead

-----------------------------------------------------------------------------
(* mei_vsc_write, called by the MEI core under device_lock.                *)

WriteBegin ==
  /\ wpc = "idle" /\ lock = "none" /\ dev_state = "ENABLED"
  /\ work < MaxWork /\ work' = work + 1
  /\ lock' = "writer" /\ wpc' = "write"
  /\ XferBegin
  /\ UNCHANGED <<lock_cnt, disconnect, wakeuphost, edge, irqVars, thread, meiVars, core, ret,
                 fw, served, left, marks, resets>>

WriteEnd ==
  /\ wpc = "write" /\ xpc = "none"
  /\ lock' = "none" /\ wpc' = "idle"
  /\ ret' = "ok"
  /\ UNCHANGED <<hwVars, request, wakeuphost, edge, irqVars, thread, meiVars, core, xpc,
                 firmware, ghosts, bounds>>

mei_vsc_write == WriteBegin \/ WriteEnd

-----------------------------------------------------------------------------
(* The core's flow. mei_reset_work and mei_stop wait for the interrupt     *)
(* thread before they take device_lock.                                    *)

ThreadQuiet == ~woken /\ tpc = "idle"

CoreBegin ==
  /\ cpc = "idle" /\ resets < MaxResets
  /\ \/ /\ reset_work /\ dev_state # "DISABLED"
        /\ reset_work' = FALSE
        /\ why' = "work"
        /\ UNCHANGED <<dev_state, disconnect>>
     \/ /\ why' = "stop"         \* mei_vsc_suspend
        /\ disconnect' = TRUE
        /\ dev_state' = "POWER_DOWN"
        /\ reset_work' = FALSE
  /\ cpc' = "sync"
  /\ UNCHANGED <<lock_cnt, seq, request, wakeuphost, edge, irqVars, thread, reset_count, lock,
                 tries, wpc, xfer, firmware, ghosts, bounds>>

CoreSync ==
  /\ cpc = "sync" /\ ThreadQuiet
  /\ cpc' = "lock"
  /\ UNCHANGED <<hwVars, request, wakeuphost, edge, irqVars, thread, meiVars, lock, why, tries,
                 wpc, xfer, firmware, ghosts, bounds>>

\* mei_reset: more than MEI_MAX_CONSEC_RESET resets in a row disable the
\* device.
CoreLock ==
  /\ cpc = "lock" /\ lock = "none"
  /\ \/ /\ reset_count < MEI_MAX_CONSEC_RESET /\ resets < MaxResets
        /\ reset_count' = reset_count + 1 /\ resets' = resets + 1
        /\ dev_state' = "RESETTING"
        /\ cpc' = "disable"
        /\ lock' = "core"
     \/ /\ reset_count = MEI_MAX_CONSEC_RESET
        /\ dev_state' = "DISABLED"
        /\ cpc' = IF why = "stop" THEN "release_irq" ELSE "idle"
        /\ UNCHANGED <<lock, reset_count, resets>>
  /\ UNCHANGED <<hwVars, request, wakeuphost, edge, irqVars, thread, reset_work, why, tries, wpc,
                 xfer, firmware, ghosts, work>>

\* mei_vsc_hw_reset begins with disable_irq: no handler is started from now
\* on.
HwResetDisable ==
  /\ cpc = "disable"
  /\ depth' = depth + 1
  /\ cpc' = "disabled"
  /\ UNCHANGED <<hwVars, request, wakeuphost, edge, requested, thread, meiVars, lock, why, tries,
                 wpc, xfer, firmware, ghosts, bounds>>

\* disable_irq returns when the interrupt thread is through, then vsc_reset
\* toggles the reset pin.
HwResetPins ==
  /\ cpc = "disabled" /\ ThreadQuiet
  /\ fw' = FwOff /\ left' = NoSeq /\ served' = FALSE /\ req' = FALSE
  /\ request' = FALSE /\ wakeuphost' = FALSE
  /\ cpc' = IF disconnect THEN "stopped" ELSE "boot"
  /\ UNCHANGED <<hwVars, edge, irqVars, thread, meiVars, lock, why, tries, wpc, xfer,
                 ghosts, bounds>>

\* What becomes of a failed mei_reset: the work item tries again, the probe
\* gives up and releases the irq, a resume reports the error.
ResetFailed ==
  /\ lock' = "none"
  /\ cpc' = IF why = "probe" THEN "release_irq" ELSE "idle"
  /\ reset_work' = (why = "work")

InitHwFails ==
  /\ cpc = "boot"
  /\ ResetFailed
  /\ UNCHANGED <<hwVars, request, wakeuphost, edge, irqVars, thread, dev_state, reset_count, why,
                 tries, wpc, xfer, firmware, ghosts, bounds>>

\* init_hw boots the firmware; hw->seq starts again.
InitHw ==
  /\ cpc = "boot"
  /\ fw' = [up |-> TRUE, greeted |-> FALSE, msgs |-> 0]
  /\ seq' = 0 /\ sent' = 0
  /\ late' = FALSE /\ latched' = edge
  /\ cpc' = "start"
  /\ UNCHANGED <<lock_cnt, disconnect, request, wakeuphost, edge, irqVars, thread, meiVars, lock,
                 why, tries, wpc, xfer, req, served, left, ackOwn, bounds>>

\* Mutant of HwStart: the interrupt is not enabled.
HwStartMasked ==
  /\ cpc = "start"
  /\ lock_cnt' = 0
  /\ tries' = 4
  /\ cpc' = "sleep"
  /\ UNCHANGED <<seq, disconnect, request, wakeuphost, edge, irqVars, thread, meiVars, lock, why,
                 wpc, xfer, firmware, ghosts, bounds>>

\* mei_vsc_hw_start: enable_irq undoes one disable_irq.
HwStart ==
  /\ cpc = "start"
  /\ lock_cnt' = 0
  /\ depth' = depth - 1
  /\ tries' = 4
  /\ cpc' = "sleep"
  /\ UNCHANGED <<seq, disconnect, request, wakeuphost, edge, requested, thread, meiVars, lock, why,
                 wpc, xfer, firmware, ghosts, bounds>>

HwStartRead ==
  /\ cpc = "sleep"
  /\ tries' = tries - 1
  /\ XferBegin
  /\ cpc' = "read"
  /\ UNCHANGED <<lock_cnt, disconnect, wakeuphost, edge, irqVars, thread, meiVars, lock, why, wpc,
                 ret, fw, served, left, marks, bounds>>

\* The loop ends at the first read that succeeds; but when the last one does,
\* timeout is 0 as well and the result is -ENODEV.
HwStartResult ==
  /\ cpc = "read" /\ xpc = "none"
  /\ \/ /\ tries > 0 /\ ret = "fail"
        /\ cpc' = "sleep"
        /\ UNCHANGED <<tries, lock, reset_work, dev_state, reset_count>>
     \/ /\ tries > 0 /\ ret # "fail"
        /\ dev_state' = "ENABLED" /\ reset_count' = 0
        /\ lock' = "none"
        /\ cpc' = "idle" /\ tries' = 0
        /\ UNCHANGED reset_work
     \/ /\ tries = 0
        /\ ResetFailed
        /\ UNCHANGED <<tries, dev_state, reset_count>>
  /\ ret' = "ok"
  /\ UNCHANGED <<hwVars, request, wakeuphost, edge, irqVars, thread, why, wpc, xpc,
                 firmware, ghosts, bounds>>

\* mei_stop returns; mei_vsc_remove and mei_vsc_shutdown do the same as
\* mei_vsc_suspend and are not followed by a resume.
StopReturns ==
  /\ cpc = "stopped"
  /\ lock' = "none" /\ dev_state' = "DISABLED"
  /\ cpc' = "release_irq"
  /\ UNCHANGED <<hwVars, request, wakeuphost, edge, irqVars, thread, reset_work, reset_count, why,
                 tries, wpc, xfer, firmware, ghosts, bounds>>

\* After a failed probe or a stop: mei_disable_interrupts and free_irq.
FreeIrq ==
  /\ cpc = "release_irq" /\ ThreadQuiet
  /\ requested' = FALSE /\ depth' = depth + 1 /\ edge' = FALSE
  /\ reset_work' = FALSE
  /\ cpc' = IF why = "probe" THEN "gone" ELSE "suspended"
  /\ UNCHANGED <<hwVars, request, wakeuphost, thread, dev_state, reset_count, lock, why, tries,
                 wpc, xfer, firmware, ghosts, bounds>>

\* mei_vsc_resume: the irq is requested anew, and so enabled; mei_restart.
mei_vsc_resume ==
  /\ cpc = "suspended" /\ resets < MaxResets
  /\ requested' = TRUE /\ depth' = 0
  /\ disconnect' = FALSE
  /\ reset_count' = 0
  /\ why' = "resume"
  /\ cpc' = "lock"
  /\ UNCHANGED <<lock_cnt, seq, request, wakeuphost, edge, thread, dev_state, reset_work, lock,
                 tries, wpc, xfer, firmware, ghosts, bounds>>

CoreFlow ==
  \/ CoreBegin \/ CoreSync \/ CoreLock
  \/ HwResetDisable \/ HwResetPins \/ InitHwFails \/ InitHw
  \/ HwStart \/ HwStartRead \/ HwStartResult
  \/ StopReturns \/ FreeIrq \/ mei_vsc_resume

-----------------------------------------------------------------------------
Next ==
  \/ mei_vsc_xfer
  \/ FwAssert \/ FwDeassert \/ FwMessage
  \/ mei_vsc_irq_quick_handler
  \/ mei_vsc_irq_thread_handler
  \/ mei_vsc_write
  \/ CoreFlow

\* Handlers and flows that can go on do; the two-second wait of a transfer
\* ends. Nothing is assumed of the firmware.
Fairness ==
  /\ WF_vars(mei_vsc_xfer)
  /\ WF_vars(mei_vsc_irq_quick_handler)
  /\ WF_vars(mei_vsc_irq_thread_handler)
  /\ WF_vars(WriteEnd)
  /\ WF_vars(CoreSync) /\ WF_vars(CoreLock) /\ WF_vars(HwResetDisable) /\ WF_vars(HwResetPins)
  /\ WF_vars(InitHw \/ InitHwFails)
  /\ WF_vars(HwStart) /\ WF_vars(HwStartRead) /\ WF_vars(HwStartResult)

Spec == Init /\ [][Next]_vars
FairSpec == Spec /\ Fairness

-----------------------------------------------------------------------------
(* Properties.                                                             *)

\* Nobody is transferring, resetting or about to handle an interrupt.
Quiet ==
  /\ lock = "none" /\ cpc = "idle" /\ ~reset_work
  /\ ThreadQuiet /\ ~edge

\* A transfer that succeeds was answered by the reply to its own packet, however
\* many transfers broke off before it and whatever reply the firmware still
\* holds - until the sequence numbers have come round since the reset: a reply
\* that was held for that long would be taken for the new packet's.
AckIsOwn == (xpc = "dec" /\ ret # "fail" /\ sent < SeqMod) => ackOwn

\* When all is quiet on an enabled device, no message waits behind an asserted
\* wakeuphost: no interrupt was lost between the quick handler, the thread's
\* last look at spi_need_read and the transfers of a writer. An interrupt from
\* before the reset does no harm here. After a timeout this can fail:
\* spi_xfer_unlock then counts off the interrupt that came late, and no edge
\* follows.
NoMessageWaits ==
  (Quiet /\ dev_state = "ENABLED" /\ depth = 0 /\ ~late) =>
    ~(wakeuphost /\ ~served /\ fw.msgs > 0)

\* While no transfer timed out, lock_cnt counts the interrupts nobody has
\* answered with a transfer: none when all is quiet. An interrupt from before
\* the reset, latched while it was disabled, is counted after mei_vsc_hw_start
\* has zeroed lock_cnt and is never answered: it leaves the count at most one
\* too high, until the next reset.
CountReturns ==
  (Quiet /\ dev_state = "ENABLED" /\ ~late) => lock_cnt <= (IF latched THEN 1 ELSE 0)

\* While no transfer timed out and no interrupt from before the reset was
\* counted after it, the interrupt thread only reads when the firmware has a
\* message for it. In both other cases it may read from a firmware that has
\* none, and the empty answer resets the device.
ReadFindsMessage == (tpc = "read" /\ xpc = "none" /\ ~late /\ ~latched) => ret # "empty"

\* disable_irq and enable_irq are paired: a first reset starts the hardware
\* with the interrupt enabled. One whose init_hw failed leaves a disable behind,
\* so its retries start with the interrupt disabled - and cannot succeed: an
\* enabled device never has it disabled.
IrqBalanced ==
  /\ (cpc \in {"sleep", "read"} /\ reset_count <= 1) => depth = 0
  /\ (dev_state = "ENABLED" /\ cpc = "idle") => depth = 0

\* mei_vsc_hw_reset returns "0 on success an error code otherwise": it does
\* return.
ResetReturns == (cpc = "disabled") ~> (cpc # "disabled")
=============================================================================
