------------------------------ MODULE LjcaGpio ------------------------------
(***************************************************************************)
(* The interrupt side of drivers/gpio/gpio-ljca.c and the event path of    *)
(* ljca.c that feeds it. The adapter disarms a pin when it reports an      *)
(* interrupt; the driver arms it again from a work item, while irq core    *)
(* threads mask and unmask pins under irq_lock.                            *)
(*                                                                         *)
(* A command to the adapter is one step: trans_lock and the bridge's mutex *)
(* serialise them (Ljca.tla). The driver ignores whether they succeed.     *)
(***************************************************************************)
EXTENDS Naturals, Sequences, FiniteSets

CONSTANTS
  NPins,     \* number of pins (gc.ngpio)
  Threads,   \* threads of the irq core
  MaxQueue,  \* bound: event packets under way
  None

\* gpiochip_add_data (external) refuses a chip without pins.
ASSUME PinsAssumption == NPins \in Nat \ {0} /\ MaxQueue \in Nat
ASSUME ThreadsAssumption == None \notin Threads

Pins == 0 .. NPins - 1

VARIABLES
  unmasked, enabled, reenable,  \* the bitmaps of struct ljca_gpio_dev, as sets
  irq_lock,  \* its holder
  tpc, tpin, \* each irq core thread: where it is and for which pin
  pending,   \* ljca_gpio->work is queued
  wpc, wpos, \* the running work item: its phase and its place in the bitmap
  armed,     \* adapter: the pins that may raise an interrupt
  events,    \* packets from the adapter to ljca_gpio_event_cb
  spurious,  \* ghost: interrupts the adapter raised for a pin since it was masked
  faulty     \* ghost: a command failed or a packet named an unmapped pin

bitmaps == <<unmasked, enabled, reenable>>
threadVars == <<irq_lock, tpc, tpin>>
workVars == <<pending, wpc, wpos>>
vars == <<unmasked, enabled, reenable, irq_lock, tpc, tpin, pending, wpc, wpos,
          armed, events, spurious, faulty>>

\* The most interrupts counted for a masked pin.
Cap == 2

TypeOK ==
  /\ unmasked \subseteq Pins /\ enabled \subseteq Pins /\ reenable \subseteq Pins
  /\ irq_lock \in Threads \cup {None}
  /\ tpc \in [Threads -> {"idle", "locked", "sync", "config", "unmask", "mask", "set", "clear"}]
  /\ tpin \in [Threads -> Pins]
  /\ pending \in BOOLEAN
  /\ wpc \in {"idle", "scan", "send"} /\ wpos \in 0 .. NPins
  /\ armed \subseteq Pins
  /\ events \in Seq([pins : SUBSET Pins, bad : BOOLEAN])
  /\ spurious \in [Pins -> 0 .. Cap]
  /\ faulty \in BOOLEAN

\* After ljca_gpio_probe: every bitmap is zeroed, no pin is armed.
Init ==
  /\ unmasked = {} /\ enabled = {} /\ reenable = {}
  /\ irq_lock = None
  /\ tpc = [t \in Threads |-> "idle"]
  /\ tpin = [t \in Threads |-> 0]
  /\ pending = FALSE /\ wpc = "idle" /\ wpos = 0
  /\ armed = {} /\ events = <<>>
  /\ spurious = [p \in Pins |-> 0]
  /\ faulty = FALSE

-----------------------------------------------------------------------------
\* ljca_enable_irq(p, on): GPIO_INT_UNMASK or GPIO_INT_MASK. A transfer that
\* failed may have reached the adapter all the same.
ljca_enable_irq(p, on) ==
  LET after == IF on THEN armed \cup {p} ELSE armed \ {p} IN
    \/ armed' = after /\ UNCHANGED faulty
    \/ armed' \in {armed, after} /\ faulty' = TRUE

-----------------------------------------------------------------------------
(* The irq core (external): bus lock, one callback, bus sync unlock.       *)

ljca_irq_bus_lock(t, p) ==
  /\ tpc[t] = "idle" /\ irq_lock = None
  /\ irq_lock' = t
  /\ tpc' = [tpc EXCEPT ![t] = "locked"]
  /\ tpin' = [tpin EXCEPT ![t] = p]
  /\ UNCHANGED <<bitmaps, workVars, armed, events, spurious, faulty>>

ljca_irq_unmask(t) ==
  /\ tpc[t] = "locked"
  /\ unmasked' = unmasked \cup {tpin[t]}
  /\ tpc' = [tpc EXCEPT ![t] = "sync"]
  /\ UNCHANGED <<enabled, reenable, irq_lock, tpin, workVars, armed, events, spurious, faulty>>

ljca_irq_mask(t) ==
  /\ tpc[t] = "locked"
  /\ unmasked' = unmasked \ {tpin[t]}
  /\ tpc' = [tpc EXCEPT ![t] = "sync"]
  /\ UNCHANGED <<enabled, reenable, irq_lock, tpin, workVars, armed, events, spurious, faulty>>

\* Requesting an interrupt starts it and freeing it shuts it down, in the place
\* of unmask and mask. Both callbacks only tell the GPIO library that the pin is
\* in use as an interrupt, and leave the bitmaps alone.
ljca_irq_startup(t) ==
  /\ tpc[t] = "locked"
  /\ tpc' = [tpc EXCEPT ![t] = "sync"]
  /\ UNCHANGED <<bitmaps, irq_lock, tpin, workVars, armed, events, spurious, faulty>>

ljca_irq_shutdown(t) ==
  /\ tpc[t] = "locked"
  /\ tpc' = [tpc EXCEPT ![t] = "sync"]
  /\ UNCHANGED <<bitmaps, irq_lock, tpin, workVars, armed, events, spurious, faulty>>

\* ljca_irq_set_type only records the mode; gpio_config sends it later.
ljca_irq_set_type(t) ==
  /\ tpc[t] = "locked"
  /\ tpc' = [tpc EXCEPT ![t] = "sync"]
  /\ UNCHANGED <<bitmaps, irq_lock, tpin, workVars, armed, events, spurious, faulty>>

Unlock(t) ==
  /\ irq_lock' = None
  /\ tpc' = [tpc EXCEPT ![t] = "idle"]
  /\ tpin' = [tpin EXCEPT ![t] = 0]

\* Mutant of BusSync: the bitmaps are never compared, nothing is sent.
BusSyncNever(t) ==
  /\ tpc[t] = "sync"
  /\ Unlock(t)
  /\ UNCHANGED <<bitmaps, workVars, armed, events, spurious, faulty>>

\* ljca_irq_bus_unlock: nothing to send when enabled and unmasked agree.
BusSync(t) ==
  /\ tpc[t] = "sync"
  /\ LET p == tpin[t] IN
       \/ /\ p \in enabled <=> p \in unmasked
          /\ Unlock(t)
       \/ /\ ~(p \in enabled <=> p \in unmasked)
          /\ tpc' = [tpc EXCEPT ![t] = IF p \in unmasked THEN "config" ELSE "mask"]
          /\ UNCHANGED <<irq_lock, tpin>>
  /\ UNCHANGED <<bitmaps, workVars, armed, events, spurious, faulty>>

\* gpio_config(p, 0) sends the recorded mode; it may fail.
BusConfig(t) ==
  /\ tpc[t] = "config"
  /\ tpc' = [tpc EXCEPT ![t] = "unmask"]
  /\ UNCHANGED <<bitmaps, irq_lock, tpin, workVars, armed, events, spurious, faulty>>

BusUnmask(t) ==
  /\ tpc[t] = "unmask"
  /\ ljca_enable_irq(tpin[t], TRUE)
  /\ tpc' = [tpc EXCEPT ![t] = "set"]
  /\ UNCHANGED <<bitmaps, irq_lock, tpin, workVars, events, spurious>>

BusMask(t) ==
  /\ tpc[t] = "mask"
  /\ ljca_enable_irq(tpin[t], FALSE)
  /\ tpc' = [tpc EXCEPT ![t] = "clear"]
  /\ UNCHANGED <<bitmaps, irq_lock, tpin, workVars, events, spurious>>

BusSetEnabled(t) ==
  /\ tpc[t] = "set"
  /\ enabled' = enabled \cup {tpin[t]}
  /\ Unlock(t)
  /\ UNCHANGED <<unmasked, reenable, workVars, armed, events, spurious, faulty>>

BusClearEnabled(t) ==
  /\ tpc[t] = "clear"
  /\ enabled' = enabled \ {tpin[t]}
  /\ spurious' = [spurious EXCEPT ![tpin[t]] = 0]
  /\ Unlock(t)
  /\ UNCHANGED <<unmasked, reenable, workVars, armed, events, faulty>>

ljca_irq_bus_unlock(t) ==
  \/ BusSync(t) \/ BusConfig(t) \/ BusUnmask(t) \/ BusMask(t)
  \/ BusSetEnabled(t) \/ BusClearEnabled(t)

-----------------------------------------------------------------------------
(* The adapter (external): reporting an interrupt disarms its pin.         *)

RaiseEvent(S, bad) ==
  /\ Len(events) < MaxQueue
  /\ armed' = armed \ S
  /\ events' = Append(events, [pins |-> S, bad |-> bad])
  /\ spurious' = [p \in Pins |->
       IF p \in S \ (unmasked \cup enabled) /\ spurious[p] < Cap
         THEN spurious[p] + 1 ELSE spurious[p]]
  /\ UNCHANGED <<bitmaps, threadVars, workVars, faulty>>

\* Mutant of ljca_gpio_event_cb: the work item is never scheduled.
EventNoWork ==
  /\ events # <<>>
  /\ events' = Tail(events)
  /\ reenable' = reenable \cup Head(events).pins
  /\ UNCHANGED <<unmasked, enabled, threadVars, workVars, armed, spurious, faulty>>

\* ljca_stub_notify calls ljca_gpio_event_cb. An item whose pin is not mapped
\* ends it at once: the items after it are dropped, and the work item is not
\* scheduled for those before it.
ljca_gpio_event_cb ==
  /\ events # <<>>
  /\ events' = Tail(events)
  /\ LET e == Head(events) IN
       \/ /\ ~e.bad
          /\ reenable' = reenable \cup e.pins
          /\ pending' = TRUE
          /\ UNCHANGED faulty
       \/ /\ e.bad
          /\ \E handled \in SUBSET e.pins : reenable' = reenable \cup handled
          /\ faulty' = TRUE
          /\ UNCHANGED pending
  /\ UNCHANGED <<unmasked, enabled, threadVars, wpc, wpos, armed, spurious>>

-----------------------------------------------------------------------------
(* ljca_gpio_async, a work item that does not run concurrently with itself.*)

WorkStart ==
  /\ pending /\ wpc = "idle"
  /\ pending' = FALSE
  /\ wpc' = "scan"
  /\ UNCHANGED <<bitmaps, threadVars, wpos, armed, events, spurious, faulty>>

\* The next set bit is cleared and its pin looked up in unmasked_irqs.
NextSet(p) == p \in reenable /\ p >= wpos /\ \A q \in reenable : q >= wpos => q >= p

\* Mutant of WorkScan: unmasked_irqs is not consulted.
WorkScanAlways ==
  /\ wpc = "scan"
  /\ \/ \E p \in Pins :
          /\ NextSet(p)
          /\ reenable' = reenable \ {p}
          /\ wpos' = p
          /\ wpc' = "send"
     \/ /\ \A p \in reenable : p < wpos
        /\ wpc' = "idle" /\ wpos' = 0
        /\ UNCHANGED reenable
  /\ UNCHANGED <<unmasked, enabled, threadVars, pending, armed, events, spurious, faulty>>

WorkScan ==
  /\ wpc = "scan"
  /\ \/ \E p \in Pins :
          /\ NextSet(p)
          /\ reenable' = reenable \ {p}
          /\ IF p \in unmasked THEN wpos' = p /\ wpc' = "send"
                               ELSE wpos' = p + 1 /\ UNCHANGED wpc
     \/ /\ \A p \in reenable : p < wpos
        /\ wpc' = "idle" /\ wpos' = 0
        /\ UNCHANGED reenable
  /\ UNCHANGED <<unmasked, enabled, threadVars, pending, armed, events, spurious, faulty>>

\* Mutant of WorkSend: the search goes on one bit too far.
WorkSendSkips ==
  /\ wpc = "send"
  /\ ljca_enable_irq(wpos, TRUE)
  /\ wpc' = "scan" /\ wpos' = wpos + 2
  /\ UNCHANGED <<bitmaps, threadVars, pending, events, spurious>>

\* The pin may have been masked since it was looked up.
WorkSend ==
  /\ wpc = "send"
  /\ ljca_enable_irq(wpos, TRUE)
  /\ wpc' = "scan" /\ wpos' = wpos + 1
  /\ UNCHANGED <<bitmaps, threadVars, pending, events, spurious>>

ljca_gpio_async == WorkStart \/ WorkScan \/ WorkSend

-----------------------------------------------------------------------------
IrqCore(t) ==
  \/ \E p \in Pins : ljca_irq_bus_lock(t, p)
  \/ ljca_irq_unmask(t) \/ ljca_irq_mask(t) \/ ljca_irq_set_type(t)
  \/ ljca_irq_startup(t) \/ ljca_irq_shutdown(t)
  \/ ljca_irq_bus_unlock(t)

Adapter ==
  \E bad \in BOOLEAN, S \in SUBSET armed : (S # {} \/ bad) /\ RaiseEvent(S, bad)

Next ==
  \/ \E t \in Threads : IrqCore(t)
  \/ Adapter
  \/ ljca_gpio_event_cb
  \/ ljca_gpio_async

\* The work item runs, received events are handled, and a thread that holds
\* irq_lock releases it.
Fairness ==
  /\ WF_vars(ljca_gpio_async)
  /\ WF_vars(ljca_gpio_event_cb)
  /\ \A t \in Threads : WF_vars(ljca_irq_bus_unlock(t))

Spec == Init /\ [][Next]_vars
FairSpec == Spec /\ Fairness

-----------------------------------------------------------------------------
(* Properties.                                                             *)

\* Nothing that concerns pin p is under way.
Settled(p) ==
  /\ ~pending /\ wpc = "idle" /\ events = <<>>
  /\ \A t \in Threads : tpc[t] # "idle" => tpin[t] # p

\* While no command failed, a settled pin that ljca_irq_unmask unmasked is armed
\* and recorded as enabled: neither the event that disarmed it nor a work item
\* that raced with a mask and an unmask lost the arming command. Nothing is said
\* of a pin the irq core only started: it is in no bitmap and is not armed.
ArmedWhenSettled ==
  \A p \in Pins : (Settled(p) /\ ~faulty) =>
    /\ p \in unmasked => p \in armed
    /\ p \in enabled <=> p \in unmasked

\* Once ljca_irq_bus_unlock has masked a pin the adapter raises at most one
\* more interrupt for it: that of the work item which had looked at
\* unmasked_irqs before the mask and sent its GPIO_INT_UNMASK after it. The
\* event of that interrupt does not arm the pin again.
SpuriousBounded == faulty \/ \A p \in Pins : p \notin unmasked => spurious[p] <= 1

\* A pin in unmasked_irqs is armed in the end, unless it is masked again or a
\* command fails: whatever disarmed it, bus_unlock or the work item sends
\* GPIO_INT_UNMASK for it. A pin that ljca_irq_startup started is not in
\* unmasked_irqs unless ljca_irq_unmask was called for it too.
Rearmed ==
  \A p \in Pins :
    (p \in unmasked /\ p \notin armed) ~> (p \in armed \/ p \notin unmasked \/ faulty)
=============================================================================
