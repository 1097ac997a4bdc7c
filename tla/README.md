# TLA+ models of the IVSC drivers

The repository holds the Linux drivers of the Intel Visual Sensing Controller
(VSC), the chip between a laptop's camera sensor and its image processing unit
(IPU), and of the La Jolla Cove Adapter (LJCA), the USB bridge to which some
boards connect it. This directory models their concurrent core in TLA+, checks
it with TLC and proves with TLAPS, for every value of the constants, that the
bridge implements the abstract one its drivers are built on and that the bridge,
its drivers, the transport, the boot, the camera interface and the debug clients
keep their invariants.

## The system

| Part | State it keeps | Operations | Talks to |
|---|---|---|---|
| LJCA bridge, `drivers/mfd/ljca.c` | device state, one mutex, per stub: current command, answer buffer, `acked` | `ljca_transfer`, `ljca_transfer_noack`, URB completion, probe and enumeration, suspend, resume, disconnect, sysfs | adapter firmware over USB bulk; called by the GPIO, I2C and SPI drivers; event callback into GPIO |
| LJCA GPIO, `gpio-ljca.c` | bitmaps of unmasked, enabled and to-be-re-enabled pins, `irq_lock`, `trans_lock` | irq_chip callbacks, event callback, work item, get/set/config | bridge, irq core |
| LJCA I2C and SPI, `i2c-ljca.c`, `spi-ljca.c` | buffers; cached mode and speed | transfers as start, data, stop; chunked transfers | bridge |
| VSC transport, `mei/hw-vsc.c` | `lock_cnt`, sequence number, wake lines, irq depth | `mei_vsc_xfer`, quick and threaded interrupt handlers, write, read, reset, start | firmware over SPI, MEI core |
| VSC boot, `mei/hw-vsc.c` | silicon version, file names, fragments, image count | `init_hw`: silicon check, three parsers, bootloader and firmware download | boot ROM over SPI, firmware loader |
| SPI lifecycle, `mei/spi-vsc.c` | probe work, irq | probe, remove, shutdown, suspend, resume | MEI core |
| Camera interface, `ivsc/intel_vsc.c` | registered clients, `vsc.mutex` | acquire, release, register, unregister | IPU driver above, CSI and ACE clients below |
| CSI and ACE clients, `mei_csi.c`, `mei_ace.c` | `cmd_mutex`, completions, last answers, firmware id, privacy callback | one command at a time with timeouts, receive callbacks, probe, remove | firmware over the MEI bus |
| ACE debug and PSE clients, `mei_ace_debug.c`, `mei_pse.c` | `cmd_mutex`, completion, last answer, log files and positions, power data buffer with its fill position | debugfs commands, receive callbacks, probe, remove | firmware over the MEI bus, debugfs, log files |

What is hard here: answers that carry little or no identity and arrive after the
timeout of the call they belong to; interrupts that are counted, latched and
masked while transfers consume them; work items and callbacks that race with the
operations that cancel them; devices removed while a call is inside them; boots
that fail half way and are tried again. What makes each part correct is listed
with the runs below, and every hazard, with its line and the properties aimed at
it, in `PROJECT.json`.

## Modules

| Module | Models | Composition |
|---|---|---|
| `LjcaCalls` | abstract: what a call of the bridge promises a driver | |
| `Ljca` | bridge: writers, completion handler, power management, disconnect | implements `LjcaCalls` |
| `LjcaProofs` | invariants of `Ljca`, proved | extends `Ljca` |
| `LjcaRefinement` | `Ljca` implements `LjcaCalls`, proved | extends `LjcaProofs` |
| `LjcaProbe` | probe, enumeration and disconnect of the bridge | extends `LjcaCalls` |
| `LjcaI2c`, `LjcaSpi`, `LjcaPins` | the drivers of I2C, SPI and GPIO pins | extend `LjcaProbe` |
| `LjcaDevice` | a bridge with all of its drivers | composes the four above |
| `LjcaDeviceProofs` | invariants of the bridge with its drivers, proved | extends `LjcaDevice` |
| `LjcaGpio` | GPIO interrupts; a bridge command is one atomic step that may fail | uses what `Ljca` shows: a call returns |
| `VscTransport` | transfers, interrupts, reset and lifecycle | `init_hw` is one step that may fail |
| `VscBoot` | `init_hw` | the step of `VscTransport` in detail |
| `VscCamera` | camera interface with both clients and their removal | MEI bus as two queues per client |
| `VscDebug` | the PSE and the ACE debug client | one pattern, a variable says which driver |
| `LjcaGpioProofs`, `VscTransportProofs`, `VscBootProofs`, `VscCameraProofs`, `VscDebugProofs` | invariants of the five modules above, proved | each extends its module |
| `MC*` | constants for TLC | |

### Ljca

A thread calls `ljca_stub_write` in the steps `Enter` (checks, clears `ibuf_len`
*before* the mutex), `Lock`, `SendOk`/`SendFail`/`SendShort`,
`WaitAcked`/`WaitTimeout`, `Finish` or `Fail`. `SendShort` is the write of which the
bus took a part and reported no error: it leaves by the error path with `ret` still 0,
so the call returns success without a command, an answer or a length. The completion handler runs on another CPU and is split where
a writer can get in between: the comparison with `cur_cmd`, the load of the
pointer (`ParseLoad`), the copy, the ack. The data in a buffer is the identity of
the call whose answer it is, which the protocol itself does not carry. The
firmware answers outstanding requests in any order, late, or not at all.
`MaxCalls` bounds the calls of a thread; the proofs do not depend on it.

`Workers` are the threads no removal waits for: `ljca_gpio_async`, which
`ljca_gpio_remove` does not cancel. `DisconnectFree` can therefore come while one of
them is in a call. What such a call does in freed memory is undefined; the model lets
it run on as if nobody had reused the memory, and claims nothing of how it ends.

`Implements` is the refinement: with the mapping at the end of the module
(`Phase`, `Outcome`, `Length`, the requests the firmware or the handler still
holds as `open`, stubs on which a call left by the error path as `dirty`) every
behaviour of `Ljca` is one of `LjcaCalls`.

### LjcaCalls, LjcaProbe and the drivers

`LjcaCalls` has no mutex, flag, pointer or handler. A call is issued while no
other is, answered at most once, and returns; until a call on a stub fails or is cut
short it succeeds only with its own answer, and from then on possibly with any answer
that was still open on that stub, written to any buffer of the stub, or none at all.
`CutShort` is the short write: a success of which the firmware executes nothing. The
drivers are modelled over it, so that one call is a few steps and not fifteen.

`LjcaProbe` makes the management thread's calls in the order of `ljca_mng_link`.
The enumerations ignore failures, as the code does, and only GPIO's checks the
length. A board announces functions whose drivers are the other modules'
threads, or functions without a driver. A run starts before the probe of a board
in `Boards`, whose I2C controllers are bound once they are announced, or with a
board in `Ready`, which is probed and whose I2C controllers are bound.

`LjcaI2c` sends start, data and stop for each message of a transfer; all
controllers share a stub; a read checks the answer and then copies it, in two steps.
`LjcaSpi` decides whether to send INIT from its cache and
cuts a transfer into chunks; the controller's configuration and the chunks it
received are external state. Removal sends DEINIT from a thread of its own, while
the SPI core may still transfer. `LjcaPins` takes `trans_lock` for each command, so
one thread of the bridge stands for whoever holds it; a read returns the contents
of the shared buffer after the unlock. The GPIO work item (`Works`) is one of its
callers, which removal does not wait for; once the bridge is gone its next call is not
followed. `LjcaDevice` joins them and executes at the controllers what reaches the
firmware, including commands whose call fails, but not one that was cut short.

### VscDebug

A user begins a file operation, takes `cmd_mutex`, sends, waits and looks at the
stored answer; what it reads after the unlock (`ReadAnswer`, and the power data in
two passes) are steps of their own. The callback stores in one step and completes
in another. Power data comes in `Pieces`, appended at a position no command
resets. Assumed of debugfs: removing the files waits for operations under way; of
the MEI bus: `mei_cldev_disable` waits for the callback. The position of a log
file advances twice per piece, in `kernel_write` and in the callback, so half of
the log file is holes and a log is full at half of `MAX_LOG_SIZE`.

### LjcaGpio

Each step of `ljca_irq_bus_unlock` and each iteration of `ljca_gpio_async` is an
action, because the work item reads `unmasked_irqs` without the lock. Assumed:
one mask, unmask or set_type callback per bus-lock section, as the irq core does;
reporting an interrupt disarms the pin at the adapter, which is why the driver has
the work item at all. A command may fail (`faulty`), and so may the mapping of a
reported pin. The irq core starts a requested interrupt with `ljca_irq_startup` and ends
it with `ljca_irq_shutdown` *in the place of* unmask and mask; both only tell gpiolib and
change no bitmap, so that a pin that was only requested is not armed. The properties
speak of pins in `unmasked_irqs`.

### VscTransport

Three flows transfer packets under `device_lock`: the MEI core's reset and start,
a writer, and the interrupt thread. One transfer is `XferBegin` (wake the
firmware), `XferAsserted` or `XferTimeout`, a reply (`XferReply`), a stale reply
(`XferStale`) or a broken one (`XferBroken`), `XferUnlock` (count off an
interrupt) and `XferRelease`. The quick handler counts, the thread reads while
`spi_need_read`. `disable_irq` nests and waits for the handlers. Assumed of the
firmware: it raises wakeuphost for a request or a message and lowers it after a
transfer, and sends nothing before the host's first write. A reply it could not send
(`left`) it may keep as long as it likes: nothing in the driver discards it. An edge that
comes while the interrupt is disabled is latched or lost. Three ghosts mark what the
properties depend on, each since the last reset: `late`, a transfer timed out; `latched`,
an interrupt from before the reset was still to be taken when it ended; `sent`, the
packets sent, up to a full cycle of sequence numbers. Assumed of the MEI core: it holds `device_lock`
around transfers and resets, and retries a failed reset work up to
`MEI_MAX_CONSEC_RESET` times.

### VscBoot

One action per frame exchanged with the ROM or bootloader, one per file parsed. A
parser that fails in the middle has already written the fragments before that
point, and they survive into the next boot. Where an image stands in the main file
is `At`, which images a file of a given count holds is `Holds`; an empty image is
not downloaded. For TLC addresses are scaled to a word of 64 with pages of 4; the
proofs hold for any word and page. Assumed: the number of images in the main file
does not change while the driver is loaded. Sizes and locations are any `u32`
(`FilesAssumption`): the parsers check neither.

### VscCamera

Users acquire and release; `Start` checks readiness before `vsc.mutex`, `VscLock`
takes it, and each command is lock, send, wait. A message carries its command and
the owner it sets; the ghost `by` names the operation it was sent for. A send may fail
before the command is queued or, interrupted by a signal, after it; in the second case
the answers come to a later command, which counts as disturbed. The privacy callback is
set and cleared here; its call, which `privacy_notify` makes after dropping the spinlock
and which can therefore come after it was cleared, is the IPU driver's and not modelled.
Removal is one action per statement of `mei_csi_remove` and `mei_ace_remove`. A step that
would touch a freed client leads to `uaf`, where the thread ends.

## Runs

| Run | Instance | What it shows |
|---|---|---|
| `ljca` | 2 threads on one stub, one of them the work item, 2 commands, 1 call each | `AnswerIsOwn`: until a call on the stub leaves by the error path, a read returns its own data, with its length or, when the other thread cleared it, 0. `LentBuffer`: the handler's pointer belongs to the locked call or to one that left so. `FreedQuiescent`: after disconnect freed the device only the work item can be in a call. `AckNotLost`: no step withdraws an ack from its waiter. `CallReturns`: every call ends, whatever firmware, reader and bus do, unless it is the work item's and the bridge is freed under it. `Implements`: the bridge implements `LjcaCalls`. |
| `ljca_ack` | 1 thread, 1 command, 2 calls | violation: a late ack answers the next call |
| `gpio` | 1 pin, 2 threads, 2 queued events | `ArmedWhenSettled`, `SpuriousBounded` and `Rearmed`: adapter and irq core agree once things settle, a masked pin interrupts at most once more, a pin in `unmasked_irqs` is armed in the end |
| `boot` | 3 boots, 23 main, 7 sensor and 3 SKU files, all tokens | `MatchesSilicon`, `LiveData`, `DownloadComplete`, `NoOverlap` |
| `boot_loc` | 1 boot, 2 main files | violation: the file's location of ACEV is ignored |
| `transport` | 5 resets, 4 writes and messages, 3 counted interrupts, sequence numbers modulo 3 | `AckIsOwn`: a reply is taken for its own packet only, until the numbers come round. Until a transfer times out, `NoMessageWaits`: no message is left behind; `CountReturns`: `lock_cnt` is 0 at rest, or at most 1 after a reset with a latched interrupt; `ReadFindsMessage`: without one, the thread never reads an empty device. `IrqBalanced`: a first start and a device that is up have the interrupt enabled |
| `transport_reset` | 2 resets, 2 writes and messages | violation: reset and interrupt thread wait for each other |
| `camera` | 2 users, 1 operation each, both removals | `OwnershipAgrees` |
| `camera_live` | 1 user | `OperationReturns`, `RemovalEnds` |
| `camera_free` | 1 user | violation: a removed client is used after it was freed |
| `device` | 2 I2C controllers with 2 messages, or 1 SPI controller with 2 transfers and removal, or GPIO with 2 callers, the work item and 2 commands, or the probe of a board with one function of each kind or with an I2C controller that then makes one message (the constraint `OneMessage`); 1 call that fails or is cut short, 6 calls per thread, 2 open requests | `CellsAnnounced`, `DevicesServed`: devices are the announced ones and have a stub, and only the work item can be in a call when stubs are freed. `XferComplete`: a successful I2C transfer was executed whole, and took for each message the answer of the command that moved it. `ConfigAgrees`, `ChunksWhole`: SPI data goes out with the right mode and speed, in well-numbered chunks. `ValueNotStale`: a pin's value is never older than the read. |
| `debug` | 2 users, 2 commands, 2 pieces of power data, either driver | `AnswerOwn`: the version a user reads is its own command's, the time its own or a later one's, never an earlier one's. `PowerWhole`, `PowerFilled`: power data is that of the user's own command, but for what a later one overwrites, and never empty. `Quiescent`, `Terminates`: removal ends, every operation returns, and memory is freed when nobody uses it. |

Why the bounds suffice. An ack can be confused only between two calls on one stub.
In `ljca` these are calls of two threads, in `ljca_ack` two calls of one; for any
number of both the safety properties are proved. A board whose
drivers are bound has the functions of one kind in `device`, because calls on different stubs only meet at the bridge's
mutex, which `Issue` keeps; a word of 8 lengths makes a transfer of 9 bytes lose a bit, and chunks of 2 bytes make one of 3 bytes
end in a chunk that is not full and one of 2 in one that is. Identifiers that wrap need more chunks than
these transfers have: `ChunksAreWhole` proves the numbering for every `IdMod`.
One failing or short call is what makes a stub dirty; another one adds no kind of answer.
Sequence numbers modulo 3 come round within the packets of one run, so that `AckIsOwn`
is checked at the edge of its condition.
Two commands of `debug` are one that fails half way and the next, or two users of
one buffer. Pins are independent bits, and the work
item that passed a pin's position is represented by the position behind the only
pin. Three boots are a failure that leaves fragments, a second one that parses
less, and a success. Five resets contain the core's three retries and a later
suspend and resume. Two operations contain every pair of a half-done operation and
its successor.

Where properties are conditioned, the model says so and the code really does the
other thing. A short write that returns success cannot be noticed by any driver, so
every property of an answer or of what a controller executed ends with the first one on
its stub, as with the first failed call: `AnswerIsOwn` (`ljca_ack` shows what follows a
timeout), `XferComplete`, `ConfigAgrees`, `ValueNotStale`, and `CellsAnnounced` for the
management stub; `ChunksWhole` survives failures and ends with a short write only.
`AckIsOwn` holds for the first `SeqMod` packets after a reset, 2^32 in the code. The
transport's interrupt properties hold until a transfer times out (`spi_xfer_unlock` may
then count off the late interrupt, and the message waits for the next edge);
`ReadFindsMessage` also needs that no interrupt was latched across the reset, since
`mei_vsc_hw_start` zeroes `lock_cnt` before that one is delivered and counted:
the thread then reads an empty device, or the count stays at 1.
`OwnershipAgrees` holds while no message is lost, late or not waited for, the gpio
properties while no command fails, the properties of I2C, SPI and pins for lengths the code's integers hold and (`ConfigAgrees`) between the first
INIT and DEINIT, `AnswerOwn` and
`PowerWhole` until a command fails that the firmware may yet answer or removal
begins, `IrqBalanced` for a device whose `init_hw` has not failed (the retry starts
with the interrupt still disabled, and times out), `DownloadComplete`'s image count
for main files of six images, or of four with sensor files that hold only ACEV and
ACEC, and when no image is empty (otherwise `fw_cnt` counts images that are not
there, not listed, or one twice), its image list when the ACE has a runtime (without
one the driver downloads ACEV and ACEC unlisted), `NoOverlap` for an image that ends
at least a page below 2^32 (the alignment of `parse_main_fw` wraps).

Deadlock is checked in `gpio`. The others stop for good when their bounded calls,
boots or resets are used up or the device is gone.

## Fairness

- `Ljca`: a thread in the critical section is scheduled and its waits time out
  (`usb_bulk_msg` and `wait_event_timeout` both do); the mutex does not pass a
  waiter over for ever (kernel mutexes hand off). Nothing of firmware, reader or bus.
- `LjcaGpio`: scheduled work runs, a received event is handled, a bus-lock section ends.
- `VscCamera`: threads run and timed waits expire, mutexes hand over, a removal that
  started goes on. Nothing of the firmware; in particular `get_fw_id` may wait for
  ever, and `OperationReturns` is claimed once the id is known.
- `VscDebug`: as `VscCamera`; the callback's work item runs. All waits of these
  clients have timeouts, so `Terminates` needs nothing of the firmware.
- `VscTransport`: handlers and flows that can go on do, the two-second wait of a
  transfer ends. Nothing of the firmware. `ResetReturns` is violated under it.

## Proofs

Every theorem holds for all values of the constants that meet the named assumptions
of its module, in particular for any number of threads, users, pins, calls, resets
and boots. The layout is the same everywhere: the inductive invariant `IInv` in named
parts, one lemma per action that shows what the action keeps, `Invariance`, and the
theorems, which follow from `IInv` alone. Each `IInv` was checked with TLC before it
was proved. None of the properties is inductive as it stands; the parts that make
them so say how the code achieves them.

**`LjcaProofs`**: `TypeCorrect`, `AnswersAreOwn`, `BuffersAreLent`,
`FreedIsQuiescent`, and the action property `AcksAreKept`. Assumed: `StubOf` maps
threads to stubs, `Workers` are threads, `MaxCalls` is a natural number, `None` is no thread, command or
call. The parts:

- `LockInv`: the mutex's owner is exactly the thread in the section;
- `CallInv`, `OwnerInv`: calls under way are numbered, buffers belong to calls on
  the stub they are stored in, calls that left by the error path are past calls;
- `SectionInv`: the locked call has its own buffer in the stub;
- `OutstandingInv`: on a stub where no call failed, what the firmware or the handler
  holds is the one request of the waiting call. This is the heart of it: the code
  has no identity to compare, so an ack is right only because nothing else can be
  outstanding, and that ends with the first call that leaves by the error path;
- `DeliveryInv`: what the handler has stored so far is what that call will return;
- `DisconnectInv`: what disconnect has done stays done.

`AcksAreKept`: only `Lock` clears `acked`, and by `LockInv` nobody waits then.

**`LjcaRefinement`**: `Refinement`, that every behaviour of `Ljca` is one of
`LjcaCalls` under the mapping at the end of `Ljca`. `IInv` is not enough for the
steps: `RequestInv` says that what is outstanding, at the firmware or in the handler,
names a call that was issued, and `AckedInv` that a writer that sees `acked` does so
for an answer the abstract call has got. Each action then maps to one abstract action
or to a stutter; `SendShort` maps to `CutShort` (`ShortMapped`).

**`LjcaGpioProofs`**: `TypeCorrect`, `ArmingNotLost` (`ArmedWhenSettled`),
`OneSpurious` (`SpuriousBounded`). Assumed: there is a pin, `None` is no thread.
`LockInv` and `SyncInv` tie a thread's steps to `irq_lock` and to the bitmaps; `WorkInv`
says what the work item has already taken over from `reenable`; `ArmInv` is the reason no
arming is lost: an unmasked pin is armed, or the command, a queued event, a mark for the
work item or a bus unlock that will arm it is still to come. `SpuriousInv`
bounds how often the adapter can still be armed for a masked pin.

**`LjcaDeviceProofs`**: `TypeCorrect`, `OnlyAnnounced` (`CellsAnnounced`),
`StubsOutliveCalls` (`DevicesServed`), `TransfersComplete` (`XferComplete`), `ConfigIsCached` (`ConfigAgrees`), `ChunksAreWhole` (`ChunksWhole`),
`ReadsAreFresh` (`ValueNotStale`), for any board, controllers, callers, transfers, chunk
size and number of calls. Assumed: the threads are the ones of the drivers, each on the
stub of its kind; the i2c core passes no empty transfer and the SPI core no rate of 0;
bounds are natural numbers and moduli positive; the names standing for misread
descriptors are no functions. `CallInv`: on a stub where no call failed, a buffer is
empty or holds its own call's answer, and a successful read filled it. `ProbeInv`:
which phases of probe and disconnect have calls, devices and stubs - devices go before
stubs, and a device's call needs its device, but for the work item's, which is why no
other call is left when they are freed.
`PinInv`: the holder of `trans_lock` is the one caller in a call, and `ibuf` only moves on
to later answers. `I2cStepInv` and `I2cWireInv`: what remains to do is the end of the
transfer, and the controller has executed exactly the messages that are done, plus the
current one once its data command ran. `SpiConfigInv`: the cache is what the controller
was last set to, but between an INIT and its return. `SpiChunkInv`: the chunks received
are the first `idx` of the transfer, or one more; `ChunkFacts` and `ChunksFacts` are the
arithmetic of the loop, `SpeedFacts` that of the speed divisor. A driver's step makes one
call or none (`DriverStep`) and leaves the others' parts alone by the frames
(`ProbeFrame`, `PinFrame`, `I2cFrame`, `SpiFrame`), so that each action is only shown to
keep the part of its own driver. `DriversUseCalls` says that the whole is a behaviour of
`LjcaCalls`, the specification `Refinement` shows the bridge to implement: the drivers
call it in no other way, and rest on nothing it does not promise.

**`VscTransportProofs`**: `TypeCorrect`, `RepliesOwn` (`AckIsOwn`), `MessagesTaken`
(`NoMessageWaits`), `CountsReturn` (`CountReturns`), `ReadsFindMessage`,
`InterruptsBalanced`. Assumed: the bounds are natural numbers and sequence numbers have a
positive modulus. `LockInv`: who holds `device_lock`, and that only the holder
transfers. `AckInv`: until the numbers come round, a reply the firmware kept has the
number of an earlier packet than the one now under way. `IrqInv`: the depth of `disable_irq` in each phase of a reset, by
`reset_count`; with the interrupt disabled a start cannot succeed, which is what ends
the imbalance a failed `init_hw` leaves. `FwInv`: the phases of the firmware, and that no handler
runs while it is off. `CountInv`: until a transfer times out, `lock_cnt` and a pending
edge together are what the firmware is owed, plus one while a transfer ends, and at most
one more when an interrupt was latched across the reset. From it come the three interrupt
properties.

**`VscBootProofs`**: `TypeCorrect`, `ImagesMatchPart` (`MatchesSilicon`),
`SentDataLives` (`LiveData`), `BootsComplete` (`DownloadComplete`), `ImagesApart`
(`NoOverlap`). Assumed: positive page, word and chunk sizes, and `FilesAssumption`.
`AlignUp` is the lemma about the alignment in `u32` arithmetic. `IdentInv`: a file name
and a svn only exist for a part that was identified, in this boot or an earlier one;
`DataInv`: what has been parsed so far points into files held by this boot, and what
has not was empty before or will be overwritten - this needs the layout to be fixed;
`PlaceInv`: computed locations; `RomInv`: what the ROM has of each image, against
`next` and `remain`.

**`VscCameraProofs`**: `TypeCorrect`, `OwnersAgree` (`OwnershipAgrees`), for any number
of users and operations. While nothing is lost or late, `HolderInv` (only the holder
of `vsc.mutex` is inside a client), `CsiInv` and `AceInv` (the one command under way,
from its send to the wake-up of its waiter, and what the firmware then owns) and `ProgressInv`
(what the operation has achieved at each step) hold together with the property.

**`VscDebugProofs`**: `TypeCorrect`, `AnswersOwn` (`AnswerOwn`), `PowerDataWhole`
(`PowerWhole`), `PowerDataFilled` (`PowerFilled`), `FreedQuiescent` (`Quiescent`).
Assumed: finitely many users, at least one piece, `None` is no user and no piece. `QueueInv`
and `CountInv` bound the queues and the commands' numbers, `LockInv` is `cmd_mutex`,
`LifeInv` the order of probe and remove, `FilledInv` that success means a filled buffer.
`CleanInv` follows the one command under way through request, channel, callback and
fill position, until a command fails; its parts are claimed together because each rests
on the others.

Model-checked only:

- liveness (`CallReturns`, `OperationReturns`, `RemovalEnds`, `Rearmed`, `Terminates`,
  and the violated `ResetReturns`): fairness is outside the prover;
- `LocationFromFile` and the other properties of the violation runs, which are false.

## Not modelled, and the plan

Done: all drivers of the repository have a module, and every module with a passing run
its theorems: each invariant of a run is also proved. To come:

- the sysfs attributes of the bridge (`version`, `cmd`, `log`, `coredump`), which
  call it from further threads on the management and diagnostics stubs;
- `ljca_gpio_set_config`; unbinding the GPIO driver alone, with the bridge staying.

Left out for good: ACPI and GPIO lookup, the sensor's name, the text of sysfs and
debugfs files, `mei_ace_debug`'s `cmd_resp` and `response` (nothing reads them),
the buffer `ad_log_config_write` never frees, the offset at which a second SPI
chunk is copied (packets are their sequence numbers), build files and the
backported headers, which have no state of their own beyond what the modules
above use.
