------------------------------ MODULE LjcaSpi ------------------------------
(***************************************************************************)
(* The SPI driver of the LJCA bridge, drivers/spi/spi-ljca.c: a transfer   *)
(* is cut into numbered chunks, after an INIT command unless the cached    *)
(* mode and speed are the wanted ones. The SPI core runs one transfer at a *)
(* time; removal sends DEINIT while the master is still registered.        *)
(***************************************************************************)
EXTENDS LjcaProbe, Integers

CONSTANTS
  Spi,       \* the SPI core's thread in ljca_spi_transfer_one
  SpiRm,     \* the thread in ljca_spi_dev_remove
  SpiXfers,  \* transfers [mode, rate, len, dir]; rates in units of 100 kHz
  MaxSpi,    \* bound: transfers
  MaxChunk,  \* LJCA_SPI_MAX_XFER_SIZE
  IdMod,     \* number of values of a chunk's 6-bit identifier
  ShortMod   \* number of values of the u16 that carries a length

ASSUME SpiAssumption == StubOf[Spi] = "SPI" /\ StubOf[SpiRm] = "SPI"
ASSUME SpiWidthAssumption ==
  /\ MaxSpi \in Nat
  /\ MaxChunk \in Nat \ {0} /\ IdMod \in Nat \ {0} /\ ShortMod \in Nat \ {0}

VARIABLES
  sat,       \* the step of the driver
  cur,       \* the transfer under way
  off, idx,  \* offset and identifier of the next chunk
  cache,     \* ljca_spi->mode and ->speed
  sret,      \* what the last transfer returned
  ctl,       \* controller (external): mode and speed it is set to
  rcv,       \* controller (external): chunks received for the transfer
  spis       \* number of transfers made

spiDriverVars == <<sat, cur, off, idx, cache, sret, spis>>
spiVars == <<sat, cur, off, idx, cache, sret, ctl, rcv, spis>>

MaxRate == 480  \* LJCA_SPI_BUS_MAX_HZ
SpeedMin == 4   \* LJCA_SPI_BUS_SPEED_MIN
Dirs == {"rw", "w", "r", "none"}
Chunks == [id : 0 .. IdMod - 1, cmpl : BOOLEAN, len : 1 .. MaxChunk]
Configs == [mode : 0 .. 3, speed : 0 .. 255]
Reset == [mode |-> -1, speed |-> 0]

\* The SPI core (external) replaces a rate of 0 by the controller's.
ASSUME SpiXfersAssumption ==
  SpiXfers \subseteq [mode : 0 .. 3, rate : Nat \ {0}, len : Nat, dir : Dirs]

NoXfer == [mode |-> 0, rate |-> MaxRate, len |-> 0, dir |-> "none"]

SpiTypeOK ==
  /\ sat \in {"off", "idle", "init", "next", "data", "gone"}
  /\ cur \in SpiXfers \cup {NoXfer}
  /\ off \in Nat /\ idx \in Nat
  /\ cache \in Configs
  /\ sret \in {"none", "ok", "error"}
  /\ ctl \in Configs \cup {Reset}
  /\ rcv \in Seq(Chunks)
  /\ spis \in 0 .. MaxSpi

SpiInit0 ==
  /\ sat = "off" /\ cur = NoXfer /\ off = 0 /\ idx = 0 /\ sret = "none"
  /\ cache = [mode |-> 0, speed |-> 0]
  /\ ctl = Reset /\ rcv = <<>> /\ spis = 0

-----------------------------------------------------------------------------
\* DIV_ROUND_UP(max_speed_hz, speed_hz) / 2 - 1, at most SPEED_MIN: -1 for the
\* maximal rate.
Div(rate) ==
  LET d == ((MaxRate + rate - 1) \div rate) \div 2 - 1
  IN  IF d > SpeedMin THEN SpeedMin ELSE d

\* The clock a controller runs at for a value of enum LJCA_SPI_BUS_SPEED_*.
ClockOf(speed) == MaxRate \div (2 * (speed + 1))

\* The length ljca_spi_transfer is called with, and the chunk it cuts next.
Length(t) == t.len % ShortMod
Remaining == Length(cur) - off

\* Mutant of Complete: a last chunk that is full is not marked.
CompleteLess == Remaining < MaxChunk

CurLen == IF Remaining > MaxChunk THEN MaxChunk ELSE Remaining
Complete == ~(Remaining > MaxChunk)

SpiProbe ==
  /\ sat = "off" /\ Spi \in devs /\ probe = "done"
  /\ sat' = "idle"
  /\ UNCHANGED <<vars, probeVars, cur, off, idx, cache, sret, ctl, rcv, spis>>

\* speed is a u8, div an int: a div of -1 is never found in the cache.
Configured(t) == cache.mode = t.mode /\ cache.speed = Div(t.rate)

\* ljca_spi_transfer_one up to the answer of ljca_spi_init. The master stays
\* registered until ljca_spi_dev_remove has returned.
SpiTransferOne(t) ==
  /\ sat = "idle" /\ spis < MaxSpi
  /\ cur' = t /\ off' = 0 /\ idx' = 0 /\ rcv' = <<>>
  /\ sret' = "none"
  /\ spis' = spis + 1
  /\ IF Configured(t) THEN sat' = "next" /\ UNCHANGED vars
     ELSE sat' = "init" /\ Invoke(Spi, "SPI_INIT", "ack")
  /\ UNCHANGED <<probeVars, cache, ctl>>

\* Mutant of CacheOf: the speed is kept as an int.
CacheOfInt(t) == [mode |-> t.mode, speed |-> Div(t.rate)]

\* Mutant of CacheOf: the cached values are not updated.
CacheOfStale(t) == cache

CacheOf(t) == [mode |-> t.mode, speed |-> Div(t.rate) % 256]

SpiEnd(r) == sat' = "idle" /\ sret' = r

SpiInitReturn ==
  /\ sat = "init" /\ ph[Spi] = "idle"
  /\ IF ret[Spi] = "ok"
       THEN /\ cache' = CacheOf(cur)
            /\ sat' = "next" /\ UNCHANGED sret
       ELSE SpiEnd("error") /\ UNCHANGED cache
  /\ UNCHANGED <<vars, probeVars, cur, off, idx, ctl, rcv, spis>>

\* The loop of ljca_spi_transfer.
SpiNext ==
  /\ sat = "next"
  /\ \/ Remaining <= 0 /\ SpiEnd("ok") /\ UNCHANGED vars
     \/ Remaining > 0 /\ cur.dir = "none" /\ SpiEnd("error") /\ UNCHANGED vars
     \/ /\ Remaining > 0 /\ cur.dir # "none"
        /\ sat' = "data" /\ UNCHANGED sret
        /\ Invoke(Spi, CASE cur.dir = "rw" -> "SPI_WRITEREAD" [] cur.dir = "w" -> "SPI_WRITE"
                         [] OTHER -> "SPI_READ", "read")
  /\ UNCHANGED <<probeVars, cur, off, idx, cache, ctl, rcv, spis>>

\* The controller may answer that it failed.
SpiReadWriteReturn ==
  /\ sat = "data" /\ ph[Spi] = "idle"
  /\ \/ /\ ret[Spi] = "ok" /\ len[Spi] # "zero"
        /\ sat' = "next"
        /\ off' = off + CurLen /\ idx' = idx + 1
        /\ UNCHANGED sret
     \/ SpiEnd("error") /\ UNCHANGED <<off, idx>>
  /\ UNCHANGED <<vars, probeVars, cur, cache, ctl, rcv, spis>>

-----------------------------------------------------------------------------
\* ljca_spi_dev_remove, when the driver is unbound or the bridge goes; the
\* SPI core (external) then lets a transfer end and unregisters the master.
SpiRemove ==
  /\ n[SpiRm] = 0 /\ Spi \in devs /\ sat # "off"
  /\ probe \in {"done", "stopped"}
  /\ Invoke(SpiRm, "SPI_DEINIT", "ack")
  /\ UNCHANGED <<probeVars, spiVars>>

SpiRemoveReturn ==
  /\ n[SpiRm] > 0 /\ ph[SpiRm] = "idle"
  /\ sat = "idle" /\ probe # "killed"
  /\ sat' = "gone"
  /\ devs' = devs \ {Spi}
  /\ UNCHANGED <<vars, board, probe, reading, stubs, cells, cur, off, idx, cache, sret, ctl, rcv, spis>>

\* The device was never bound to the driver.
SpiRemoveUnbound ==
  /\ sat = "off" /\ Spi \in devs /\ probe = "stopped"
  /\ sat' = "gone"
  /\ devs' = devs \ {Spi}
  /\ UNCHANGED <<vars, board, probe, reading, stubs, cells, cur, off, idx, cache, sret, ctl, rcv, spis>>

\* The controller executes the command it received (external).
SpiExecute(t) ==
  /\ ctl' = CASE cmd[t] = "SPI_INIT" -> [mode |-> cur.mode, speed |-> Div(cur.rate) % 256]
              [] cmd[t] = "SPI_DEINIT" -> Reset
              [] OTHER -> ctl
  /\ rcv' = IF cmd[t] \in {"SPI_INIT", "SPI_DEINIT"} THEN rcv
            ELSE Append(rcv, [id |-> idx % IdMod, cmpl |-> Complete, len |-> CurLen])

SpiClient ==
  \/ SpiProbe \/ SpiInitReturn \/ SpiNext \/ SpiReadWriteReturn
  \/ \E t \in SpiXfers : SpiTransferOne(t)
  \/ SpiRemove \/ SpiRemoveReturn \/ SpiRemoveUnbound

-----------------------------------------------------------------------------
\* The rates enum LJCA_SPI_BUS_SPEED_* names.
NamedRates == {240, 120, 80, 60, 48}

\* Data is sent with the transfer's mode, and at its rate when that is one the
\* controller has: the cache agrees with the controller. Not claimed before the
\* first INIT (the cache starts as mode 0 at 24 MHz), after a failed call, or
\* once removal has sent DEINIT. A failed call includes one that was cut short:
\* it counts as a success and its values are cached.
ConfigAgrees ==
  (sat = "data" /\ ph[Spi] # "idle" /\ ctl # Reset /\ n[SpiRm] = 0
     /\ "SPI" \notin dirty /\ cur.rate \in NamedRates)
    => ctl.mode = cur.mode /\ ClockOf(ctl.speed) = cur.rate

\* The chunks a transfer of l bytes consists of.
ChunksOf(l) ==
  LET last == (l + MaxChunk - 1) \div MaxChunk
  IN  [i \in 1 .. last |->
         [id |-> (i - 1) % IdMod, cmpl |-> i = last,
          len |-> IF i = last THEN l - (last - 1) * MaxChunk ELSE MaxChunk]]

\* A transfer that returns success has sent every byte, in chunks numbered from
\* 0 of which the last alone is marked complete; one that failed has sent a
\* beginning of that. A length of 65536 and more loses its high bits.
ChunksSent ==
  /\ (sret = "ok" /\ cur.len < ShortMod) => rcv = ChunksOf(cur.len)
  /\ \A i \in DOMAIN rcv : i <= Len(ChunksOf(Length(cur))) /\ rcv[i] = ChunksOf(Length(cur))[i]
=============================================================================
