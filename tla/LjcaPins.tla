------------------------------ MODULE LjcaPins ------------------------------
(***************************************************************************)
(* Reading, writing and configuring pins with drivers/gpio/gpio-ljca.c:    *)
(* callers build a packet in the shared obuf and get the answer in the     *)
(* shared ibuf, under trans_lock; a read uses ibuf after releasing it. The *)
(* work item that unmasks interrupts is a caller that nobody stops; what   *)
(* it unmasks is LjcaGpio's. The holder of trans_lock is the bridge's     *)
(* thread Gpio.                                                            *)
(***************************************************************************)
EXTENDS LjcaProbe, FiniteSets

CONSTANTS
  Gpio,      \* the bridge's thread for whoever holds trans_lock
  Callers,   \* threads that use pins
  Works,     \* those of them that are the work item, ljca_gpio_async
  MaxPinOps  \* bound: operations

ASSUME GpioAssumption == StubOf[Gpio] = "GPIO" /\ None \notin Callers /\ Works \subseteq Callers

VARIABLES
  gat,       \* each caller: its step
  gop,       \* what it does: one of PinOps
  gout,      \* in direction_output: a write follows the configuration
  gret,      \* what its last operation returned
  value,     \* ghost: the call whose answer it returned as value
  mine,      \* ghost: the number of its own call
  trans_lock,\* its holder
  ibuf       \* the shared buffer: the call whose answer it holds

pinVars == <<gat, gop, gout, gret, value, mine, trans_lock, ibuf>>

PinOps == {"GPIO_READ", "GPIO_WRITE", "GPIO_CONFIG", "GPIO_INT_UNMASK"}

PinTypeOK ==
  /\ gat \in [Callers -> {"idle", "lock", "call", "read"}]
  /\ gop \in [Callers -> PinOps \cup {None}]
  /\ gout \in [Callers -> BOOLEAN]
  /\ gret \in [Callers -> {"none", "ok", "error"}]
  /\ value \in [Callers -> 0 .. MaxCalls] /\ mine \in [Callers -> 0 .. MaxCalls]
  /\ trans_lock \in Callers \cup {None}
  /\ ibuf \in 0 .. MaxCalls

PinInit ==
  /\ gat = [g \in Callers |-> "idle"]
  /\ gop = [g \in Callers |-> None]
  /\ gout = [g \in Callers |-> FALSE]
  /\ gret = [g \in Callers |-> "none"]
  /\ value = [g \in Callers |-> 0] /\ mine = [g \in Callers |-> 0]
  /\ trans_lock = None
  /\ ibuf = 0

-----------------------------------------------------------------------------
\* gpiolib (external) calls a bound driver; ljca_gpio_remove does not cancel
\* the work item, which may run until the bridge is gone, and then with the
\* driver's memory freed.
Reachable(g) ==
  \/ g \notin Works /\ Gpio \in devs
  \/ g \in Works /\ Gpio \in cells /\ probe \in {"done", "killed", "stopped"}

\* get, set, direction_input and direction_output, or the work item. An invalid
\* pin is refused here, with no effect.
PinBegin(g, o, out) ==
  /\ gat[g] = "idle" /\ Reachable(g)
  /\ (o = "GPIO_INT_UNMASK") <=> (g \in Works)
  /\ out => o = "GPIO_CONFIG"
  /\ n[Gpio] + Cardinality({h \in Callers : gat[h] = "lock"}) < MaxPinOps
  /\ gat' = [gat EXCEPT ![g] = "lock"]
  /\ gop' = [gop EXCEPT ![g] = o]
  /\ gout' = [gout EXCEPT ![g] = out]
  /\ gret' = [gret EXCEPT ![g] = "none"]
  /\ value' = [value EXCEPT ![g] = 0]
  /\ UNCHANGED <<vars, probeVars, mine, trans_lock, ibuf>>

\* The packet is built and sent under trans_lock. With the bridge gone there is
\* nothing to call: what a work item does then is undefined and not modelled.
PinCall(g) ==
  /\ gat[g] = "lock" /\ trans_lock = None /\ probe # "gone"
  /\ trans_lock' = g
  /\ gat' = [gat EXCEPT ![g] = "call"]
  /\ mine' = [mine EXCEPT ![g] = n[Gpio] + 1]
  /\ Invoke(Gpio, gop[g], IF gop[g] = "GPIO_READ" THEN "read" ELSE "ack")
  /\ UNCHANGED <<probeVars, gop, gout, gret, value, ibuf>>

\* The bridge wrote to ibuf before its call returned.
Received == IF buf[Gpio] = None THEN ibuf ELSE buf[Gpio][2]

\* Mutant of ReadOk: only the packet in ibuf is looked at.
ReadOkStale == Received # 0

\* The call succeeded, reported a length, and ibuf has an answer for one pin.
ReadOk == ret[Gpio] = "ok" /\ len[Gpio] # "zero" /\ Received # 0

PinEnd(g, to, r) ==
  /\ trans_lock' = None
  /\ gat' = [gat EXCEPT ![g] = to]
  /\ gret' = [gret EXCEPT ![g] = r]

PinReturn(g) ==
  /\ gat[g] = "call" /\ ph[Gpio] = "idle"
  /\ ibuf' = Received
  /\ \/ /\ gop[g] = "GPIO_READ"
        /\ IF ReadOk THEN PinEnd(g, "read", "ok") ELSE PinEnd(g, "idle", "error")
        /\ UNCHANGED <<gop, gout>>
     \/ /\ gop[g] = "GPIO_CONFIG" /\ gout[g] /\ ret[Gpio] = "ok"
        /\ PinEnd(g, "lock", "none")   \* direction_output: now the value
        /\ gop' = [gop EXCEPT ![g] = "GPIO_WRITE"]
        /\ UNCHANGED gout
     \/ /\ gop[g] # "GPIO_READ" /\ ~(gop[g] = "GPIO_CONFIG" /\ gout[g] /\ ret[Gpio] = "ok")
        /\ PinEnd(g, "idle", IF gop[g] = "GPIO_WRITE" THEN "ok" ELSE ret[Gpio])
        /\ UNCHANGED <<gop, gout>>
  /\ UNCHANGED <<vars, probeVars, value, mine>>

\* ack_packet->item[0].value, after mutex_unlock.
PinValue(g) ==
  /\ gat[g] = "read"
  /\ value' = [value EXCEPT ![g] = ibuf]
  /\ gat' = [gat EXCEPT ![g] = "idle"]
  /\ UNCHANGED <<vars, probeVars, gop, gout, gret, mine, trans_lock, ibuf>>

\* ljca_gpio_remove does nothing; gpiolib (external) lets operations end, but
\* knows nothing of the work item.
PinRemove ==
  /\ Gpio \in devs /\ probe = "stopped"
  /\ \A g \in Callers \ Works : gat[g] = "idle"
  /\ devs' = devs \ {Gpio}
  /\ UNCHANGED <<vars, board, probe, reading, stubs, cells, pinVars>>

GpioPins ==
  \/ \E g \in Callers :
       \/ \E o \in PinOps, out \in BOOLEAN : PinBegin(g, o, out)
       \/ PinCall(g) \/ PinReturn(g) \/ PinValue(g)
  \/ PinRemove

-----------------------------------------------------------------------------
\* The value a read returns is its own answer or, since ibuf is read after the
\* lock is released, that of a later read; never an earlier one's - as long as
\* no call on the stub timed out, failed to be sent or was cut short, also when
\* the bridge refuses calls.
ValueNotStale ==
  \A g \in Callers :
    (gat[g] = "idle" /\ gop[g] = "GPIO_READ" /\ gret[g] = "ok" /\ Clean(Gpio))
      => value[g] >= mine[g]
=============================================================================
