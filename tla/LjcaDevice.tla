----------------------------- MODULE LjcaDevice -----------------------------
(***************************************************************************)
(* An LJCA bridge with its drivers: probe and enumeration create the GPIO, *)
(* I2C and SPI devices, whose drivers call the bridge concurrently until   *)
(* they are removed. The bridge is LjcaCalls, which Ljca implements.       *)
(***************************************************************************)
EXTENDS LjcaI2c, LjcaSpi, LjcaPins, FiniteSets

CONSTANTS
  MaxFails,  \* bound: calls that fail
  MaxOpen    \* bound: requests unanswered at a time

ASSUME DeviceThreads ==
  /\ Threads = Adapters \cup {Mng, Gpio, Spi, SpiRm}
  /\ Functions \cap Threads = Adapters \cup {Gpio, Spi}
  /\ Spi # SpiRm
ASSUME BoundsAssumption == MaxCalls \in Nat /\ MaxFails \in Nat /\ None \notin Ids
ASSUME CmdsAssumption ==
  {"MNG_RESET_NOTIFY", "MNG_ENUM_GPIO", "MNG_ENUM_I2C", "MNG_ENUM_SPI",
   "GPIO_READ", "GPIO_WRITE", "GPIO_CONFIG", "GPIO_INT_UNMASK",
   "I2C_INIT", "I2C_START", "I2C_STOP", "I2C_READ", "I2C_WRITE",
   "SPI_INIT", "SPI_DEINIT", "SPI_READ", "SPI_WRITE", "SPI_WRITEREAD"} \subseteq Cmds

VARIABLES
  fails,     \* number of calls that failed
  cut        \* ghost: the stubs on which a command was cut short

deviceVars == <<vars, probeVars, pinVars, i2cVars, spiVars, fails, cut>>

TypeOKDevice ==
  /\ TypeOK /\ ProbeTypeOK /\ PinTypeOK /\ I2cTypeOK /\ SpiTypeOK
  /\ fails \in 0 .. MaxFails /\ cut \subseteq {StubOf[t] : t \in Threads}

DeviceInit == Init /\ ProbeInit /\ PinInit /\ I2cInit /\ SpiInit0 /\ fails = 0 /\ cut = {}

-----------------------------------------------------------------------------
\* A command that reaches the firmware is executed, also one whose call fails.
Execute(t) ==
  /\ IF t \in Adapters THEN I2cExecute(t) ELSE UNCHANGED <<wire, by, held>>
  /\ IF t \in {Spi, SpiRm} THEN SpiExecute(t) ELSE UNCHANGED <<ctl, rcv>>

Drivers == <<probeVars, pinVars, i2cDriverVars, spiDriverVars>>
Ghosts == <<fails, cut>>
Controllers == <<wire, by, held, ctl, rcv>>

BridgeIssue(t) ==
  /\ Cardinality(open) < MaxOpen
  /\ Issue(t) /\ Execute(t)
  /\ UNCHANGED <<Drivers, Ghosts>>

BridgeFail(t) ==
  /\ Fail(t)
  /\ fails < MaxFails /\ fails' = fails + 1
  /\ IF open' = open THEN UNCHANGED Controllers ELSE Execute(t)
  /\ UNCHANGED <<Drivers, cut>>

\* A command of which a part was sent is not executed, although its call
\* succeeds.
BridgeCut(t) ==
  /\ CutShort(t)
  /\ fails < MaxFails /\ fails' = fails + 1
  /\ cut' = cut \cup {StubOf[t]}
  /\ UNCHANGED <<Drivers, Controllers>>

BridgeOther ==
  /\ \/ \E t \in Threads : Answer(t) \/ Succeed(t)
     \/ \E i \in open : LateAnswer(i) \/ Drop(i)
  /\ UNCHANGED <<Drivers, Controllers, Ghosts>>

DeviceNext ==
  \/ \E t \in Threads : BridgeIssue(t) \/ BridgeFail(t) \/ BridgeCut(t)
  \/ BridgeOther
  \/ Probe /\ UNCHANGED <<pinVars, i2cVars, spiVars, Ghosts>>
  \/ GpioPins /\ UNCHANGED <<i2cVars, spiVars, Ghosts>>
  \/ I2c /\ UNCHANGED <<pinVars, spiVars, Ghosts>>
  \/ SpiClient /\ UNCHANGED <<pinVars, i2cVars, Ghosts>>

DeviceSpec == DeviceInit /\ [][DeviceNext]_deviceVars

-----------------------------------------------------------------------------
\* A device's calls always find a stub, and when the stubs are freed, after a
\* failed probe or by disconnect, the URB is dead and no call is under way but
\* one of the GPIO work item, which nobody cancels.
DevicesServed ==
  /\ \A d \in devs \ AllJunk : TypeOf[d] \in stubs
  /\ stubs = {} => /\ ~reading
                   /\ \A t \in Threads : ph[t] # "idle" => t = Gpio /\ trans_lock \in Works

\* Chunks are sent as ChunksSent says, as long as no command to the SPI
\* controller was cut short: the loop takes such a chunk for one that was sent.
ChunksWhole == "SPI" \notin cut => ChunksSent
=============================================================================
