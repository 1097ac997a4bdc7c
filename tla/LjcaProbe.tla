----------------------------- MODULE LjcaProbe -----------------------------
(***************************************************************************)
(* Probe, enumeration and disconnect of the LJCA bridge, drivers/mfd/      *)
(* ljca.c: the probing thread asks the firmware which functions it has,    *)
(* makes a stub for each kind and a platform device for each of them.      *)
(***************************************************************************)
EXTENDS LjcaCalls, Sequences

CONSTANTS
  Mng,       \* the thread of ljca_probe, on the management stub
  Boards,    \* the sets of functions a firmware may announce
  Ready,     \* sets of functions of bridges that are already probed
  TypeOf     \* the type of stub of each function

ASSUME MngAssumption == Mng \in Threads /\ StubOf[Mng] = "MNG"
ASSUME FunctionsAssumption ==
  /\ UNION (Boards \cup Ready) \subseteq DOMAIN TypeOf
  /\ \A d \in DOMAIN TypeOf : TypeOf[d] \in {"GPIO", "I2C", "SPI"}
  /\ \A d \in Threads \cap DOMAIN TypeOf : StubOf[d] = TypeOf[d]

VARIABLES
  board,     \* the functions of this board (external)
  probe,     \* how far ljca_probe and ljca_disconnect have come
  reading,   \* is the read URB submitted?
  stubs,     \* the types on stubs_list
  cells,     \* ljca->cells
  devs       \* the platform devices the mfd core has made of them

probeVars == <<board, probe, reading, stubs, cells, devs>>

\* What the probing thread asks for, in this order: its k-th call.
ProbeCmds == <<"MNG_RESET_NOTIFY", "MNG_ENUM_GPIO", "MNG_ENUM_I2C", "MNG_ENUM_SPI">>
ProbeTypes == <<"MNG", "GPIO", "I2C", "SPI">>

Functions == DOMAIN TypeOf
\* What a descriptor of another type makes of the k-th enumeration.
Junk == <<"", "junk-gpio", "junk-i2c", "junk-spi">>
AllJunk == {Junk[k] : k \in 2 .. 4}

ASSUME JunkAssumption == AllJunk \cap Functions = {}

ProbeTypeOK ==
  /\ board \in Boards \cup Ready
  /\ probe \in {"start", "call", "mfd", "done", "killed", "stopped", "gone", "failed"}
  /\ reading \in BOOLEAN
  /\ stubs \subseteq {"MNG", "GPIO", "I2C", "SPI", "DIAG"}
  /\ cells \subseteq Functions \cup AllJunk
  /\ devs \subseteq cells

\* Before ljca_probe, or after it found all functions of a board.
ProbeInit ==
  \/ /\ board \in Boards
     /\ probe = "start" /\ reading = FALSE
     /\ stubs = {} /\ cells = {} /\ devs = {}
  \/ /\ board \in Ready
     /\ probe = "done" /\ reading = TRUE
     /\ stubs = {"MNG", "DIAG"} \cup {TypeOf[d] : d \in board}
     /\ cells = board /\ devs = board

\* ljca_stub_write as a driver meets it: a stopped bridge refuses.
Invoke(t, c, k) == (probe # "stopped" /\ Call(t, c, k)) \/ Refuse(t, c, k)

-----------------------------------------------------------------------------
(* ljca_probe.                                                             *)

\* No ACPI match, memory, endpoints or URB: nothing has been set up.
ProbeFailsEarly ==
  /\ probe = "start"
  /\ probe' = "failed"
  /\ UNCHANGED <<vars, board, reading, stubs, cells, devs>>

ProbeStart ==
  /\ probe = "start"
  /\ reading' = TRUE
  /\ stubs' = {"MNG"}
  /\ probe' = "call"
  /\ Invoke(Mng, ProbeCmds[1], "read")
  /\ UNCHANGED <<board, cells, devs>>

\* error_stop: the URB is killed, the stubs and the cells are freed.
ProbeAbort ==
  /\ probe' = "failed"
  /\ reading' = FALSE
  /\ stubs' = {} /\ cells' = {}
  /\ UNCHANGED <<vars, board, devs>>

\* The command whose answer is in the buffer.
AnswerTo(b) == IF b = None THEN "none" ELSE ProbeCmds[b[2]]

\* The firmware must return the identifier it was sent. That of the first
\* handshake is 0, which the buffer holds already: a handshake that was cut
\* short succeeds when its undefined length happens to be right.
ResetHandshake ==
  /\ probe = "call" /\ n[Mng] = 1 /\ ph[Mng] = "idle"
  /\ \/ /\ ret[Mng] = "ok" /\ len[Mng] # "zero"
        /\ AnswerTo(buf[Mng]) \in {"none", ProbeCmds[1]}
        /\ Invoke(Mng, ProbeCmds[2], "read")
        /\ UNCHANGED probeVars
     \/ ProbeAbort

\* What the descriptor in the buffer says when it is read as one of type k:
\* an untouched buffer is all zero, no functions or a GPIO chip without pins,
\* and the descriptor of another type gives any number of functions with any
\* identifiers.
Described(k) ==
  CASE AnswerTo(buf[Mng]) = "none" -> IF ProbeTypes[k] = "GPIO" THEN {Junk[k]} ELSE {}
    [] AnswerTo(buf[Mng]) = ProbeCmds[k] -> {d \in board : TypeOf[d] = ProbeTypes[k]}
    [] OTHER -> {Junk[k]}

\* Only the GPIO enumeration compares the length with the descriptor.
DescriptorOk(k) ==
  /\ ret[Mng] = "ok"
  /\ ProbeTypes[k] = "GPIO" => len[Mng] # "zero" /\ AnswerTo(buf[Mng]) \in {"none", ProbeCmds[k]}

\* Mutant of StubInit: the loop runs once more than the count says.
StubInitOver(k) ==
  /\ stubs' = stubs \cup {ProbeTypes[k]}
  /\ cells' = cells \cup Described(k) \cup {Junk[k]}

\* A stub is listed first; adding the cells may fail at any of them.
StubInit(k) ==
  /\ stubs' = stubs \cup {ProbeTypes[k]}
  /\ \E new \in SUBSET Described(k) : cells' = cells \cup new

\* ljca_mng_link ignores how an enumeration ends.
EnumReturn ==
  LET k == n[Mng] IN
  /\ probe = "call" /\ k > 1 /\ ph[Mng] = "idle"
  /\ (DescriptorOk(k) /\ StubInit(k)) \/ UNCHANGED <<stubs, cells>>
  /\ IF k < Len(ProbeCmds)
       THEN Invoke(Mng, ProbeCmds[k + 1], "read") /\ UNCHANGED probe
       ELSE probe' = "mfd" /\ UNCHANGED vars
  /\ UNCHANGED <<board, reading, devs>>

\* The mfd core (external) makes all devices or removes them again.
ProbeMfd ==
  /\ probe = "mfd"
  /\ \/ /\ stubs' = stubs \cup {"DIAG"}
        /\ devs' = cells
        /\ probe' = "done"
        /\ UNCHANGED <<vars, board, reading, cells>>
     \/ ProbeAbort

-----------------------------------------------------------------------------
(* ljca_disconnect.                                                        *)

DisconnectStop ==
  /\ probe = "done"
  /\ probe' = "killed" /\ reading' = FALSE
  /\ UNCHANGED <<vars, board, stubs, cells, devs>>

DisconnectState ==
  /\ probe = "killed"
  /\ probe' = "stopped"
  /\ UNCHANGED <<vars, board, reading, stubs, cells, devs>>

\* A device without a driver in this model goes when the mfd core removes it.
RemoveOther(d) ==
  /\ probe = "stopped" /\ d \in devs \ Threads
  /\ devs' = devs \ {d}
  /\ UNCHANGED <<vars, board, probe, reading, stubs, cells>>

\* Mutant of DisconnectFree: the stubs are freed before the devices are removed.
DisconnectFreeEarly ==
  /\ probe = "stopped"
  /\ probe' = "gone"
  /\ stubs' = {} /\ cells' = {} /\ devs' = {}
  /\ UNCHANGED <<vars, board, reading>>

\* The drivers are unbound, but nobody has waited for the GPIO work item.
DisconnectFree ==
  /\ probe = "stopped" /\ devs = {}
  /\ probe' = "gone"
  /\ stubs' = {} /\ cells' = {}
  /\ UNCHANGED <<vars, board, reading, devs>>

Probe ==
  \/ ProbeFailsEarly \/ ProbeStart \/ ResetHandshake \/ EnumReturn \/ ProbeMfd
  \/ DisconnectStop \/ DisconnectState \/ DisconnectFree
  \/ \E d \in devs : RemoveOther(d)

-----------------------------------------------------------------------------
\* The devices made are functions the firmware announced, as long as no
\* management call timed out, failed to be sent or was cut short. After that the
\* late answer of an enumeration can be read as that of a later one.
CellsAnnounced == "MNG" \notin dirty => cells \subseteq board
=============================================================================
