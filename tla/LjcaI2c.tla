------------------------------ MODULE LjcaI2c ------------------------------
(***************************************************************************)
(* The I2C driver of the LJCA bridge, drivers/i2c/busses/i2c-ljca.c: each  *)
(* message is a start, a data and a stop command. All controllers share    *)
(* one stub; the identifier in an answer tells them apart.                 *)
(***************************************************************************)
EXTENDS LjcaProbe

CONSTANTS
  Adapters,  \* the threads in ljca_i2c_xfer, one per controller
  I2cXfers,  \* transfers: sequences of messages [rd, len]
  MaxI2c,    \* bound: messages of all controllers together
  MaxWrite,  \* data bytes that fit into a packet of the bridge
  ByteMod    \* number of values of the u8 that carries a length

ASSUME AdaptersAssumption == \A a \in Adapters : StubOf[a] = "I2C"
ASSUME I2cWidthAssumption == MaxI2c \in Nat /\ MaxWrite \in Nat /\ ByteMod \in Nat \ {0}

VARIABLES
  iat,       \* each adapter: the step of its driver
  msgs,      \* the messages of the current transfer still to do
  iret,      \* what the last transfer returned
  xfer,      \* ghost: the transfer
  got,       \* ghost: for each message, the call whose answer was taken for it
  wire,      \* controller (external): messages executed for the transfer
  by,        \* ghost: the calls by which they were executed
  held,      \* controller (external): started and not stopped
  i2cs       \* number of messages given to the driver

i2cDriverVars == <<iat, msgs, iret, xfer, got, i2cs>>
i2cVars == <<iat, msgs, iret, xfer, got, wire, by, held, i2cs>>

Messages == [rd : BOOLEAN, len : Nat]

\* The i2c core (external) refuses a transfer of no messages.
ASSUME I2cXfersAssumption == I2cXfers \subseteq Seq(Messages) \ {<<>>}

I2cTypeOK ==
  /\ iat \in [Adapters -> {"off", "init", "idle", "start", "data", "copy", "stop", "unbound", "gone"}]
  /\ msgs \in [Adapters -> Seq(Messages)]
  /\ iret \in [Adapters -> {"none", "ok", "error"}]
  /\ xfer \in [Adapters -> Seq(Messages)]
  /\ got \in [Adapters -> Seq(Ids \cup {None})]
  /\ wire \in [Adapters -> Seq(Messages)]
  /\ by \in [Adapters -> Seq(Ids)]
  /\ held \in [Adapters -> BOOLEAN]
  /\ i2cs \in 0 .. MaxI2c

\* The controllers of a bridge that is already probed have their driver.
I2cInit ==
  /\ iat = [a \in Adapters |-> IF a \in devs THEN "idle" ELSE "off"]
  /\ msgs = [a \in Adapters |-> <<>>]
  /\ iret = [a \in Adapters |-> "none"]
  /\ xfer = [a \in Adapters |-> <<>>]
  /\ got = [a \in Adapters |-> <<>>]
  /\ wire = [a \in Adapters |-> <<>>]
  /\ by = [a \in Adapters |-> <<>>]
  /\ held = [a \in Adapters |-> FALSE]
  /\ i2cs = 0

\* A u16 length is passed on as u8.
Truncated(m) == [m EXCEPT !.len = @ % ByteMod]

-----------------------------------------------------------------------------
\* ljca_i2c_probe up to the answer of ljca_i2c_init, and after it.
I2cProbe(a) ==
  /\ iat[a] = "off" /\ a \in devs /\ probe = "done"
  /\ iat' = [iat EXCEPT ![a] = "init"]
  /\ Invoke(a, "I2C_INIT", "ack")
  /\ UNCHANGED <<probeVars, msgs, iret, xfer, got, wire, by, held, i2cs>>

I2cProbeReturn(a) ==
  /\ iat[a] = "init" /\ ph[a] = "idle"
  /\ \/ ret[a] = "ok" /\ iat' = [iat EXCEPT ![a] = "idle"]
     \/ iat' = [iat EXCEPT ![a] = "unbound"]
  /\ UNCHANGED <<vars, probeVars, msgs, iret, xfer, got, wire, by, held, i2cs>>

\* i2c_del_adapter (external) waits for a transfer under way.
I2cRemove(a) ==
  /\ a \in devs /\ probe = "stopped"
  /\ iat[a] \in {"off", "idle", "unbound"}
  /\ iat' = [iat EXCEPT ![a] = "gone"]
  /\ devs' = devs \ {a}
  /\ UNCHANGED <<vars, board, probe, reading, stubs, cells, msgs, iret, xfer, got, wire, by, held, i2cs>>

-----------------------------------------------------------------------------
(* ljca_i2c_xfer.                                                          *)

Command(a, step, c) ==
  /\ iat' = [iat EXCEPT ![a] = step]
  /\ Invoke(a, c, "read")

XferEnd(a, r) ==
  /\ iat' = [iat EXCEPT ![a] = "idle"]
  /\ iret' = [iret EXCEPT ![a] = r]
  /\ UNCHANGED vars

\* Nothing is said of a transfer that failed: its record is cleared.
XferFail(a) ==
  /\ XferEnd(a, "error")
  /\ msgs' = [msgs EXCEPT ![a] = <<>>]
  /\ xfer' = [xfer EXCEPT ![a] = <<>>]
  /\ wire' = [wire EXCEPT ![a] = <<>>]
  /\ by' = [by EXCEPT ![a] = <<>>]
  /\ got' = [got EXCEPT ![a] = <<>>]

\* An answer of at least a header, with this controller's identifier. A late
\* answer can leave ibuf as it was: with an earlier answer in it.
Accept(a) ==
  /\ ret[a] = "ok" /\ len[a] # "zero"
  /\ buf[a] # None => buf[a][1] = a

I2cXfer(a, x) ==
  /\ iat[a] = "idle" /\ i2cs + Len(x) <= MaxI2c
  /\ i2cs' = i2cs + Len(x)
  /\ msgs' = [msgs EXCEPT ![a] = x]
  /\ xfer' = [xfer EXCEPT ![a] = x]
  /\ wire' = [wire EXCEPT ![a] = <<>>]
  /\ by' = [by EXCEPT ![a] = <<>>]
  /\ got' = [got EXCEPT ![a] = <<>>]
  /\ iret' = [iret EXCEPT ![a] = "none"]
  /\ Command(a, "start", "I2C_START")
  /\ UNCHANGED <<probeVars, held>>

\* A write that does not fit into a packet is refused, after the start.
I2cData(a, m) ==
  /\ iat' = [iat EXCEPT ![a] = "data"]
  /\ IF m.rd THEN Invoke(a, "I2C_READ", "read")
     ELSE IF m.len > MaxWrite THEN Refuse(a, "I2C_WRITE", "read")
     ELSE Invoke(a, "I2C_WRITE", "read")

\* The controller may report an error in any answer; an error ends the
\* transfer at once, without a stop.
I2cStartReturn(a) ==
  /\ iat[a] = "start" /\ ph[a] = "idle"
  /\ \/ /\ Accept(a)
        /\ I2cData(a, Truncated(Head(msgs[a])))
        /\ UNCHANGED <<msgs, iret, xfer, got, wire, by>>
     \/ XferFail(a)
  /\ UNCHANGED <<probeVars, held, i2cs>>

\* The answer of the data command is checked. A read then copies the data out
\* of the buffer, in which a late answer can arrive in between.
I2cDataReturn(a) ==
  /\ iat[a] = "data" /\ ph[a] = "idle"
  /\ \/ /\ Accept(a)
        /\ IF Head(msgs[a]).rd
             THEN /\ iat' = [iat EXCEPT ![a] = "copy"]
                  /\ UNCHANGED <<vars, got>>
             ELSE /\ got' = [got EXCEPT ![a] = Append(@, buf[a])]
                  /\ Command(a, "stop", "I2C_STOP")
        /\ UNCHANGED <<msgs, iret, xfer, wire, by>>
     \/ XferFail(a)
  /\ UNCHANGED <<probeVars, held, i2cs>>

I2cCopy(a) ==
  /\ iat[a] = "copy"
  /\ got' = [got EXCEPT ![a] = Append(@, buf[a])]
  /\ Command(a, "stop", "I2C_STOP")
  /\ UNCHANGED <<probeVars, msgs, iret, xfer, wire, by, held, i2cs>>

\* Mutant of StopOk: what the stop command returned is ignored.
StopIgnored(a) == TRUE

StopOk(a) == Accept(a)

I2cStopReturn(a) ==
  /\ iat[a] = "stop" /\ ph[a] = "idle"
  /\ \/ /\ StopOk(a)
        /\ msgs' = [msgs EXCEPT ![a] = Tail(@)]
        /\ IF Len(msgs[a]) > 1
             THEN Command(a, "start", "I2C_START") /\ UNCHANGED iret
             ELSE XferEnd(a, "ok")
        /\ UNCHANGED <<xfer, got, wire, by>>
     \/ XferFail(a)
  /\ UNCHANGED <<probeVars, held, i2cs>>

\* The controller executes the command it received (external).
I2cExecute(a) ==
  /\ held' = [held EXCEPT ![a] = IF cmd[a] = "I2C_START" THEN TRUE
                                 ELSE IF cmd[a] = "I2C_STOP" THEN FALSE ELSE @]
  /\ wire' = [wire EXCEPT ![a] = IF cmd[a] \in {"I2C_READ", "I2C_WRITE"}
                                   THEN Append(@, Truncated(Head(msgs[a]))) ELSE @]
  /\ by' = [by EXCEPT ![a] = IF cmd[a] \in {"I2C_READ", "I2C_WRITE"} THEN Append(@, Id(a)) ELSE @]

I2c ==
  \E a \in Adapters :
    \/ I2cProbe(a) \/ I2cProbeReturn(a) \/ I2cRemove(a)
    \/ \E x \in I2cXfers : I2cXfer(a, x)
    \/ I2cStartReturn(a) \/ I2cDataReturn(a) \/ I2cCopy(a) \/ I2cStopReturn(a)

-----------------------------------------------------------------------------
\* A transfer that returns success has moved all its messages, whole and in
\* order, took for each the answer to the command that moved it, and the
\* controller has released the bus - as long as no call on the stub timed out,
\* failed to be sent or was cut short, and no length is 256, which a u8 turns
\* into 0.
XferComplete ==
  \A a \in Adapters :
    (iat[a] = "idle" /\ iret[a] = "ok" /\ Clean(a)
       /\ \A i \in DOMAIN xfer[a] : xfer[a][i].len < ByteMod)
      => wire[a] = xfer[a] /\ got[a] = by[a] /\ ~held[a]
=============================================================================
