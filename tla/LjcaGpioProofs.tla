--------------------------- MODULE LjcaGpioProofs ---------------------------
(***************************************************************************)
(* Proofs about LjcaGpio, for every number of pins, every set of irq core  *)
(* threads and every length of the event queue.                            *)
(***************************************************************************)
EXTENDS LjcaGpio, SequenceTheorems, TLAPS

-----------------------------------------------------------------------------
(* The inductive invariant, in named parts.                                *)

\* irq_lock is held from bus lock to the end of bus sync unlock.
LockInv == \A t \in Threads : tpc[t] # "idle" <=> irq_lock = t

\* enabled and unmasked differ at most in the pin whose bus sync unlock is
\* under way, and that one is treated as its bit in unmasked says.
Syncing(t, p) == tpc[t] \notin {"idle", "locked"} /\ tpin[t] = p
SyncInv ==
  /\ \A p \in Pins : (\A t \in Threads : ~Syncing(t, p)) => (p \in enabled <=> p \in unmasked)
  /\ \A t \in Threads : tpc[t] \in {"config", "unmask", "set"} => tpin[t] \in unmasked \ enabled
  /\ \A t \in Threads : tpc[t] \in {"mask", "clear"} => tpin[t] \in enabled \ unmasked

WorkInv ==
  /\ wpc = "idle" => wpos = 0
  /\ wpc = "send" => wpos \in Pins

\* Pin p is armed, or something that will arm it is under way: a command of the
\* work item, its event, its bit where the work item is yet to look, or bus sync
\* unlock.
Sending(p) == wpc = "send" /\ wpos = p
Queued(p) == \E i \in 1 .. Len(events) : p \in events[i].pins
Marked(p) == p \in reenable /\ (pending \/ (wpc # "idle" /\ p >= wpos))
Unmasking(p) == p \notin enabled /\ \E t \in Threads : tpc[t] \in {"sync", "config", "unmask"} /\ tpin[t] = p
Covered(p) == p \in armed \/ Sending(p) \/ Queued(p) \/ Marked(p) \/ Unmasking(p)
ArmInv == ~faulty => \A p \in unmasked : Covered(p)

\* A masked pin can be armed only by the one command the work item was about to
\* send.
Once(p) == ~(p \in armed /\ Sending(p))
SpuriousInv == ~faulty => \A p \in Pins :
  /\ spurious[p] <= 1
  /\ p \notin unmasked \cup enabled => Once(p) /\ (p \in armed \/ Sending(p) => spurious[p] = 0)
  /\ (\E t \in Threads : tpc[t] = "clear" /\ tpin[t] = p) => Once(p)

IInv == TypeOK /\ LockInv /\ SyncInv /\ WorkInv /\ ArmInv /\ SpuriousInv

-----------------------------------------------------------------------------
(* It holds initially and every action preserves it.                       *)

\* After probe no pin is unmasked, enabled or armed.
LEMMA IInvInit == Init => IInv
<1> SUFFICES ASSUME Init PROVE IInv
  OBVIOUS
<1>1. TypeOK
  <2>1. tpin \in [Threads -> Pins] /\ wpos \in 0 .. NPins
    BY PinsAssumption DEF Init, Pins
  <2>2. events \in Seq([pins : SUBSET Pins, bad : BOOLEAN])
    BY EmptySeq DEF Init
  <2>3. spurious \in [Pins -> 0 .. Cap] /\ tpc \in [Threads -> {"idle"}]
    BY DEF Init, Cap
  <2>. QED
    BY <2>1, <2>2, <2>3 DEF Init, TypeOK
<1>2. LockInv /\ SyncInv /\ WorkInv
  BY ThreadsAssumption DEF Init, LockInv, SyncInv, Syncing, WorkInv
<1>3. ArmInv /\ SpuriousInv
  BY DEF Init, ArmInv, SpuriousInv, Once, Sending
<1>. QED
  BY <1>1, <1>2, <1>3 DEF IInv

\* A thread takes irq_lock for a pin.
LEMMA BusLockKeeps ==
  ASSUME NEW t \in Threads, NEW p \in Pins, IInv, ljca_irq_bus_lock(t, p) PROVE IInv'
<1> USE DEF bitmaps, threadVars, workVars
<1>1. TypeOK'
  BY PinsAssumption DEF IInv, TypeOK, ljca_irq_bus_lock
<1>2. LockInv'
  BY ThreadsAssumption DEF IInv, TypeOK, LockInv, ljca_irq_bus_lock
<1>3. SyncInv'
  BY ThreadsAssumption DEF IInv, TypeOK, LockInv, SyncInv, Syncing, ljca_irq_bus_lock
<1>4. WorkInv'
  BY DEF IInv, WorkInv, ljca_irq_bus_lock
<1>5. ArmInv'
  BY ThreadsAssumption DEF IInv, TypeOK, LockInv, SyncInv, Syncing, ArmInv, Covered, Sending, Queued, Marked, Unmasking, ljca_irq_bus_lock
<1>6. SpuriousInv'
  BY ThreadsAssumption DEF IInv, TypeOK, LockInv, SyncInv, Syncing, SpuriousInv, Once, Sending, ljca_irq_bus_lock
<1>. QED
  BY <1>1, <1>2, <1>3, <1>4, <1>5, <1>6 DEF IInv

\* A pin that is newly unmasked is left to bus sync unlock.
LEMMA UnmaskKeeps ==
  ASSUME NEW t \in Threads, IInv, ljca_irq_unmask(t) PROVE IInv'
<1> USE DEF bitmaps, threadVars, workVars
<1>1. TypeOK'
  BY PinsAssumption DEF IInv, TypeOK, ljca_irq_unmask
<1>2. LockInv'
  BY ThreadsAssumption DEF IInv, TypeOK, LockInv, ljca_irq_unmask
<1>3. SyncInv'
  BY SMTT(30), ThreadsAssumption DEF IInv, TypeOK, LockInv, SyncInv, Syncing, ljca_irq_unmask
<1>4. WorkInv'
  BY DEF IInv, WorkInv, ljca_irq_unmask
<1>5. ArmInv'
  BY ThreadsAssumption DEF IInv, TypeOK, LockInv, SyncInv, Syncing, ArmInv, Covered, Sending, Queued, Marked, Unmasking, ljca_irq_unmask
<1>6. SpuriousInv'
  BY ThreadsAssumption DEF IInv, TypeOK, LockInv, SyncInv, Syncing, SpuriousInv, Once, Sending, ljca_irq_unmask
<1>. QED
  BY <1>1, <1>2, <1>3, <1>4, <1>5, <1>6 DEF IInv

\* A pin that is masked stays enabled until bus sync unlock.
LEMMA MaskKeeps ==
  ASSUME NEW t \in Threads, IInv, ljca_irq_mask(t) PROVE IInv'
<1> USE DEF bitmaps, threadVars, workVars
<1>1. TypeOK'
  BY PinsAssumption DEF IInv, TypeOK, ljca_irq_mask
<1>2. LockInv'
  BY ThreadsAssumption DEF IInv, TypeOK, LockInv, ljca_irq_mask
<1>3. SyncInv'
  BY ThreadsAssumption DEF IInv, TypeOK, LockInv, SyncInv, Syncing, ljca_irq_mask
<1>4. WorkInv'
  BY DEF IInv, WorkInv, ljca_irq_mask
<1>5. ArmInv'
  BY ThreadsAssumption DEF IInv, TypeOK, LockInv, SyncInv, Syncing, ArmInv, Covered, Sending, Queued, Marked, Unmasking, ljca_irq_mask
<1>6. SpuriousInv'
  BY ThreadsAssumption DEF IInv, TypeOK, LockInv, SyncInv, Syncing, SpuriousInv, Once, Sending, ljca_irq_mask
<1>. QED
  BY <1>1, <1>2, <1>3, <1>4, <1>5, <1>6 DEF IInv

\* The recorded mode is not part of the invariant.
LEMMA SetTypeKeeps ==
  ASSUME NEW t \in Threads, IInv, ljca_irq_set_type(t) PROVE IInv'
<1> USE DEF bitmaps, threadVars, workVars
<1>1. TypeOK'
  BY PinsAssumption DEF IInv, TypeOK, ljca_irq_set_type
<1>2. LockInv'
  BY ThreadsAssumption DEF IInv, TypeOK, LockInv, ljca_irq_set_type
<1>3. SyncInv'
  BY ThreadsAssumption DEF IInv, TypeOK, LockInv, SyncInv, Syncing, ljca_irq_set_type
<1>4. WorkInv'
  BY DEF IInv, WorkInv, ljca_irq_set_type
<1>5. ArmInv'
  BY ThreadsAssumption DEF IInv, TypeOK, LockInv, SyncInv, Syncing, ArmInv, Covered, Sending, Queued, Marked, Unmasking, ljca_irq_set_type
<1>6. SpuriousInv'
  BY ThreadsAssumption DEF IInv, TypeOK, LockInv, SyncInv, Syncing, SpuriousInv, Once, Sending, ljca_irq_set_type
<1>. QED
  BY <1>1, <1>2, <1>3, <1>4, <1>5, <1>6 DEF IInv

\* Startup and shutdown leave the bitmaps alone: they make the step of set_type.
LEMMA StartupKeeps ==
  ASSUME NEW t \in Threads, IInv, ljca_irq_startup(t) \/ ljca_irq_shutdown(t) PROVE IInv'
<1>1. ljca_irq_set_type(t)
  BY DEF ljca_irq_startup, ljca_irq_shutdown, ljca_irq_set_type
<1>. QED
  BY <1>1, SetTypeKeeps

\* Nothing is left to do when the bitmaps agree on the pin.
LEMMA BusSyncKeeps ==
  ASSUME NEW t \in Threads, IInv, BusSync(t) PROVE IInv'
<1> USE DEF bitmaps, threadVars, workVars
<1>1. TypeOK'
  <2>1. tpin' \in [Threads -> Pins] /\ irq_lock' \in Threads \cup {None}
    BY PinsAssumption DEF IInv, TypeOK, BusSync, Unlock, Pins
  <2>. QED
    BY <2>1 DEF IInv, TypeOK, BusSync, Unlock, Cap
<1>2. LockInv'
  BY ThreadsAssumption DEF IInv, TypeOK, LockInv, BusSync, Unlock
<1>3. SyncInv'
  <2>1. /\ \A v \in Threads \ {t} : tpc[v] = "idle" /\ tpc'[v] = "idle" /\ tpin'[v] = tpin[v]
        /\ tpin[t] \in Pins /\ tpc[t] = "sync"
    BY ThreadsAssumption DEF IInv, TypeOK, LockInv, BusSync, Unlock
  <2>2. \A p \in Pins : p # tpin[t] => (p \in enabled <=> p \in unmasked)
    BY <2>1 DEF IInv, SyncInv, Syncing
  <2>3. CASE (tpin[t] \in enabled <=> tpin[t] \in unmasked) /\ Unlock(t)
    <3>1. tpc'[t] = "idle"
      BY <2>3 DEF IInv, TypeOK, Unlock
    <3>. QED
      BY <2>1, <2>2, <2>3, <3>1 DEF SyncInv, Syncing, BusSync
  <2>4. CASE ~(tpin[t] \in enabled <=> tpin[t] \in unmasked)
    <3>1. tpc'[t] = (IF tpin[t] \in unmasked THEN "config" ELSE "mask") /\ tpin' = tpin
      BY <2>4 DEF IInv, TypeOK, BusSync
    <3>. QED
      BY <2>1, <2>2, <2>4, <3>1 DEF SyncInv, Syncing, BusSync
  <2>. QED
    BY <2>3, <2>4 DEF BusSync
<1>4. WorkInv'
  BY DEF IInv, WorkInv, BusSync, Unlock
<1>5. ArmInv'
  BY ThreadsAssumption DEF IInv, TypeOK, LockInv, SyncInv, Syncing, ArmInv, Covered, Sending, Queued, Marked, Unmasking, BusSync, Unlock
<1>6. SpuriousInv'
  BY ThreadsAssumption DEF IInv, TypeOK, LockInv, SyncInv, Syncing, SpuriousInv, Once, Sending, BusSync, Unlock
<1>. QED
  BY <1>1, <1>2, <1>3, <1>4, <1>5, <1>6 DEF IInv

\* The mode is sent first.
LEMMA BusConfigKeeps ==
  ASSUME NEW t \in Threads, IInv, BusConfig(t) PROVE IInv'
<1> USE DEF bitmaps, threadVars, workVars
<1>1. TypeOK'
  BY PinsAssumption DEF IInv, TypeOK, BusConfig, Unlock
<1>2. LockInv'
  BY ThreadsAssumption DEF IInv, TypeOK, LockInv, BusConfig, Unlock
<1>3. SyncInv'
  BY ThreadsAssumption DEF IInv, TypeOK, LockInv, SyncInv, Syncing, BusConfig, Unlock
<1>4. WorkInv'
  BY DEF IInv, WorkInv, BusConfig, Unlock
<1>5. ArmInv'
  BY ThreadsAssumption DEF IInv, TypeOK, LockInv, SyncInv, Syncing, ArmInv, Covered, Sending, Queued, Marked, Unmasking, BusConfig, Unlock
<1>6. SpuriousInv'
  BY ThreadsAssumption DEF IInv, TypeOK, LockInv, SyncInv, Syncing, SpuriousInv, Once, Sending, BusConfig, Unlock
<1>. QED
  BY <1>1, <1>2, <1>3, <1>4, <1>5, <1>6 DEF IInv

\* The command that arms the pin.
LEMMA BusUnmaskKeeps ==
  ASSUME NEW t \in Threads, IInv, BusUnmask(t) PROVE IInv'
<1> USE DEF bitmaps, threadVars, workVars
<1>1. TypeOK'
  BY PinsAssumption DEF IInv, TypeOK, BusUnmask, ljca_enable_irq
<1>2. LockInv'
  BY ThreadsAssumption DEF IInv, TypeOK, LockInv, BusUnmask, ljca_enable_irq
<1>3. SyncInv'
  BY ThreadsAssumption DEF IInv, TypeOK, LockInv, SyncInv, Syncing, BusUnmask, ljca_enable_irq
<1>4. WorkInv'
  BY DEF IInv, WorkInv, BusUnmask, ljca_enable_irq
<1>5. ArmInv'
  BY ThreadsAssumption DEF IInv, TypeOK, LockInv, SyncInv, Syncing, ArmInv, Covered, Sending, Queued, Marked, Unmasking, BusUnmask, ljca_enable_irq
<1>6. SpuriousInv'
  BY ThreadsAssumption DEF IInv, TypeOK, LockInv, SyncInv, Syncing, SpuriousInv, Once, Sending, BusUnmask, ljca_enable_irq
<1>. QED
  BY <1>1, <1>2, <1>3, <1>4, <1>5, <1>6 DEF IInv

\* The command that disarms the pin: only the work item can arm it again.
LEMMA BusMaskKeeps ==
  ASSUME NEW t \in Threads, IInv, BusMask(t) PROVE IInv'
<1> USE DEF bitmaps, threadVars, workVars
<1>1. TypeOK'
  BY PinsAssumption DEF IInv, TypeOK, BusMask, ljca_enable_irq
<1>2. LockInv'
  BY ThreadsAssumption DEF IInv, TypeOK, LockInv, BusMask, ljca_enable_irq
<1>3. SyncInv'
  BY ThreadsAssumption DEF IInv, TypeOK, LockInv, SyncInv, Syncing, BusMask, ljca_enable_irq
<1>4. WorkInv'
  BY DEF IInv, WorkInv, BusMask, ljca_enable_irq
<1>5. ArmInv'
  BY ThreadsAssumption DEF IInv, TypeOK, LockInv, SyncInv, Syncing, ArmInv, Covered, Sending, Queued, Marked, Unmasking, BusMask, ljca_enable_irq
<1>6. SpuriousInv'
  BY ThreadsAssumption DEF IInv, TypeOK, LockInv, SyncInv, Syncing, SpuriousInv, Once, Sending, BusMask, ljca_enable_irq
<1>. QED
  BY <1>1, <1>2, <1>3, <1>4, <1>5, <1>6 DEF IInv

\* The pin is recorded as enabled: it is armed, or was disarmed by its event.
LEMMA BusSetKeeps ==
  ASSUME NEW t \in Threads, IInv, BusSetEnabled(t) PROVE IInv'
<1> USE DEF bitmaps, threadVars, workVars
<1>1. TypeOK'
  <2>1. tpin' \in [Threads -> Pins] /\ irq_lock' \in Threads \cup {None}
    BY PinsAssumption DEF IInv, TypeOK, BusSetEnabled, Unlock, Pins
  <2>. QED
    BY <2>1 DEF IInv, TypeOK, BusSetEnabled, Unlock, Cap
<1>2. LockInv'
  BY ThreadsAssumption DEF IInv, TypeOK, LockInv, BusSetEnabled, Unlock
<1>3. SyncInv'
  <2>1. /\ \A v \in Threads : tpc'[v] = IF v = t THEN "idle" ELSE tpc[v]
        /\ \A v \in Threads \ {t} : tpc[v] = "idle" /\ tpin'[v] = tpin[v]
        /\ tpin[t] \in Pins
    BY ThreadsAssumption DEF IInv, TypeOK, LockInv, BusSetEnabled, Unlock
  <2>2. \A p \in Pins : p # tpin[t] => (p \in enabled <=> p \in unmasked)
    BY <2>1 DEF IInv, SyncInv, Syncing
  <2>. QED
    BY <2>1, <2>2 DEF IInv, SyncInv, Syncing, BusSetEnabled, Unlock
<1>4. WorkInv'
  BY DEF IInv, WorkInv, BusSetEnabled, Unlock
<1>5. ArmInv'
  <2>1. SUFFICES ASSUME ~faulty, NEW p \in unmasked PROVE Covered(p)'
    BY DEF ArmInv, BusSetEnabled
  <2>2. Covered(p)
    BY <2>1 DEF IInv, ArmInv
  <2>3. ~Unmasking(p)
    BY ThreadsAssumption DEF IInv, TypeOK, LockInv, Unmasking, BusSetEnabled
  <2>. QED
    BY <2>2, <2>3 DEF Covered, Sending, Queued, Marked, BusSetEnabled
<1>6. SpuriousInv'
  BY ThreadsAssumption DEF IInv, TypeOK, LockInv, SyncInv, Syncing, SpuriousInv, Once, Sending, BusSetEnabled, Unlock
<1>. QED
  BY <1>1, <1>2, <1>3, <1>4, <1>5, <1>6 DEF IInv

\* The count of a masked pin's interrupts starts.
LEMMA BusClearKeeps ==
  ASSUME NEW t \in Threads, IInv, BusClearEnabled(t) PROVE IInv'
<1> USE DEF bitmaps, threadVars, workVars
<1>1. TypeOK'
  <2>1. tpin' \in [Threads -> Pins] /\ irq_lock' \in Threads \cup {None}
    BY PinsAssumption DEF IInv, TypeOK, BusClearEnabled, Unlock, Pins
  <2>. QED
    BY <2>1 DEF IInv, TypeOK, BusClearEnabled, Unlock, Cap
<1>2. LockInv'
  BY ThreadsAssumption DEF IInv, TypeOK, LockInv, BusClearEnabled, Unlock, Cap
<1>3. SyncInv'
  BY ThreadsAssumption DEF IInv, TypeOK, LockInv, SyncInv, Syncing, BusClearEnabled, Unlock, Cap
<1>4. WorkInv'
  BY DEF IInv, WorkInv, BusClearEnabled, Unlock, Cap
<1>5. ArmInv'
  BY ThreadsAssumption DEF IInv, TypeOK, LockInv, SyncInv, Syncing, ArmInv, Covered, Sending, Queued, Marked, Unmasking, BusClearEnabled, Unlock, Cap
<1>6. SpuriousInv'
  BY ThreadsAssumption DEF IInv, TypeOK, LockInv, SyncInv, Syncing, SpuriousInv, Once, Sending, BusClearEnabled, Unlock, Cap
<1>. QED
  BY <1>1, <1>2, <1>3, <1>4, <1>5, <1>6 DEF IInv

\* A packet that joins the queue, or leaves it.
LEMMA QueuedAppend ==
  ASSUME IInv, NEW e \in [pins : SUBSET Pins, bad : BOOLEAN], events' = Append(events, e)
  PROVE  events' \in Seq([pins : SUBSET Pins, bad : BOOLEAN]) /\ \A p \in Pins : Queued(p)' <=> Queued(p) \/ p \in e.pins
<1>1. events \in Seq([pins : SUBSET Pins, bad : BOOLEAN]) /\ Len(events) \in Nat
  BY LenProperties DEF IInv, TypeOK
<1>2. /\ events' \in Seq([pins : SUBSET Pins, bad : BOOLEAN]) /\ Len(events') = Len(events) + 1
      /\ (\A i \in 1 .. Len(events) : events'[i] = events[i]) /\ events'[Len(events) + 1] = e
  BY <1>1, AppendProperties
<1>3. ASSUME NEW p \in Pins, Queued(p)' PROVE Queued(p) \/ p \in e.pins
  <2>1. PICK i \in 1 .. Len(events') : p \in events'[i].pins
    BY <1>3 DEF Queued
  <2>2. i \in 1 .. Len(events) \/ i = Len(events) + 1
    BY <1>1, <1>2
  <2>. QED
    BY <1>2, <2>1, <2>2 DEF Queued
<1>4. ASSUME NEW p \in Pins, Queued(p) PROVE Queued(p)'
  BY <1>1, <1>2, <1>4 DEF Queued
<1>5. ASSUME NEW p \in Pins, p \in e.pins PROVE Queued(p)'
  <2>1. Len(events) + 1 \in 1 .. Len(events')
    BY <1>1, <1>2
  <2>. QED
    BY <1>2, <1>5, <2>1 DEF Queued
<1>. QED
  BY <1>2, <1>3, <1>4, <1>5

LEMMA QueuedTail ==
  ASSUME IInv, events # <<>>, events' = Tail(events)
  PROVE  /\ events' \in Seq([pins : SUBSET Pins, bad : BOOLEAN]) /\ Head(events) \in [pins : SUBSET Pins, bad : BOOLEAN]
         /\ \A p \in Pins : Queued(p) => Queued(p)' \/ p \in Head(events).pins
<1>1. events \in Seq([pins : SUBSET Pins, bad : BOOLEAN]) /\ Len(events) \in Nat
  BY LenProperties DEF IInv, TypeOK
<1>2. /\ Head(events) \in [pins : SUBSET Pins, bad : BOOLEAN]
      /\ events' \in Seq([pins : SUBSET Pins, bad : BOOLEAN]) /\ Len(events') = Len(events) - 1
      /\ \A i \in 1 .. Len(events') : events'[i] = events[i + 1]
  BY <1>1, HeadTailProperties
<1>3. Head(events) = events[1]
  BY <1>1
<1>4. ASSUME NEW p \in Pins, Queued(p) PROVE Queued(p)' \/ p \in Head(events).pins
  <2>1. PICK i \in 1 .. Len(events) : p \in events[i].pins
    BY <1>4 DEF Queued
  <2>2. CASE i = 1
    BY <1>3, <2>1, <2>2
  <2>3. CASE i # 1
    <3>1. i - 1 \in 1 .. Len(events') /\ (i - 1) + 1 = i
      BY <1>1, <1>2, <2>3
    <3>2. events'[i - 1] = events[i]
      BY <1>2, <3>1
    <3>. QED
      BY <2>1, <3>1, <3>2 DEF Queued
  <2>. QED
    BY <2>2, <2>3
<1>. QED
  BY <1>2, <1>4

\* The adapter disarms the pins of an event, which covers them until it is
\* handled; a masked pin it reports was armed, so that none was counted for it.
LEMMA RaiseEventKeeps ==
  ASSUME NEW S \in SUBSET armed, NEW bad \in BOOLEAN, IInv, RaiseEvent(S, bad) PROVE IInv'
<1> USE DEF bitmaps, threadVars, workVars
<1>1. [pins |-> S, bad |-> bad] \in [pins : SUBSET Pins, bad : BOOLEAN]
  BY DEF IInv, TypeOK
<1>2. events' \in Seq([pins : SUBSET Pins, bad : BOOLEAN]) /\ \A p \in Pins : Queued(p)' <=> Queued(p) \/ p \in S
  BY <1>1, QueuedAppend DEF RaiseEvent
<1>3. TypeOK'
  <2>1. spurious' \in [Pins -> 0 .. Cap]
    BY DEF IInv, TypeOK, RaiseEvent, Cap
  <2>. QED
    BY <1>2, <2>1 DEF IInv, TypeOK, RaiseEvent
<1>4. LockInv' /\ SyncInv' /\ WorkInv'
  BY DEF IInv, LockInv, SyncInv, Syncing, WorkInv, RaiseEvent
<1>5. ArmInv'
  BY <1>2 DEF IInv, TypeOK, ArmInv, Covered, Sending, Marked, Unmasking, RaiseEvent
<1>6. SpuriousInv'
  <2> SUFFICES ASSUME ~faulty, NEW p \in Pins
               PROVE  /\ spurious'[p] <= 1
                      /\ p \notin unmasked \cup enabled =>
                           Once(p)' /\ (p \in armed' \/ Sending(p)' => spurious'[p] = 0)
                      /\ (\E t \in Threads : tpc[t] = "clear" /\ tpin[t] = p) => Once(p)'
    BY DEF SpuriousInv, RaiseEvent
  <2>1. /\ spurious[p] <= 1 /\ spurious[p] \in Nat
        /\ p \notin unmasked \cup enabled => Once(p) /\ (p \in armed \/ Sending(p) => spurious[p] = 0)
        /\ (\E t \in Threads : tpc[t] = "clear" /\ tpin[t] = p) => Once(p)
    BY DEF IInv, TypeOK, SpuriousInv
  <2>2. Once(p) => Once(p)'
    BY DEF Once, Sending, RaiseEvent
  <2>3. CASE p \in S \ (unmasked \cup enabled)
    <3>1. spurious[p] = 0 /\ ~Sending(p) /\ spurious'[p] = 1 /\ p \notin armed' /\ ~Sending(p)'
      BY <2>1, <2>3 DEF RaiseEvent, Cap, Once, Sending
    <3>. QED
      BY <2>1, <2>2, <2>3, <3>1
  <2>4. CASE p \notin S \ (unmasked \cup enabled)
    <3>1. spurious'[p] = spurious[p] /\ (p \in armed' => p \in armed) /\ (Sending(p)' <=> Sending(p))
      BY <2>4 DEF RaiseEvent, Sending
    <3>. QED
      BY <2>1, <2>2, <3>1
  <2>. QED
    BY <2>3, <2>4
<1>. QED
  BY <1>3, <1>4, <1>5, <1>6 DEF IInv

\* The callback marks the pins of the event and schedules the work item.
LEMMA EventKeeps == IInv /\ ljca_gpio_event_cb => IInv'
<1> SUFFICES ASSUME IInv, ljca_gpio_event_cb PROVE IInv'
  OBVIOUS
<1> USE DEF bitmaps, threadVars, workVars
<1>1. /\ events' \in Seq([pins : SUBSET Pins, bad : BOOLEAN]) /\ Head(events) \in [pins : SUBSET Pins, bad : BOOLEAN]
      /\ \A p \in Pins : Queued(p) => Queued(p)' \/ p \in Head(events).pins
  BY QueuedTail DEF ljca_gpio_event_cb
<1>2. TypeOK'
  <2>1. reenable' \subseteq Pins
    BY <1>1 DEF IInv, TypeOK, ljca_gpio_event_cb
  <2>2. pending' \in BOOLEAN /\ faulty' \in BOOLEAN
    BY DEF IInv, TypeOK, ljca_gpio_event_cb
  <2>. QED
    BY <1>1, <2>1, <2>2 DEF IInv, TypeOK, ljca_gpio_event_cb
<1>3. LockInv' /\ SyncInv' /\ WorkInv'
  BY DEF IInv, LockInv, SyncInv, Syncing, WorkInv, ljca_gpio_event_cb
<1>4. ArmInv'
  <2> SUFFICES ASSUME ~faulty', NEW p \in unmasked PROVE Covered(p)'
    BY DEF ArmInv, ljca_gpio_event_cb
  <2>1. ~faulty /\ reenable' = reenable \cup Head(events).pins /\ pending'
    BY DEF ljca_gpio_event_cb
  <2>2. Covered(p) /\ p \in Pins
    BY <2>1 DEF IInv, TypeOK, ArmInv
  <2>. QED
    BY <1>1, <2>1, <2>2 DEF Covered, Sending, Marked, Unmasking, ljca_gpio_event_cb
<1>5. SpuriousInv'
  <2>1. faulty => faulty'
    BY DEF ljca_gpio_event_cb
  <2>. QED
    BY <2>1 DEF IInv, SpuriousInv, Once, Sending, ljca_gpio_event_cb
<1>. QED
  BY <1>2, <1>3, <1>4, <1>5 DEF IInv

\* The work item starts at the first pin, so that no mark is behind it.
LEMMA WorkStartKeeps == IInv /\ WorkStart => IInv'
<1> SUFFICES ASSUME IInv, WorkStart PROVE IInv'
  OBVIOUS
<1> USE DEF bitmaps, threadVars
<1>1. TypeOK' /\ LockInv' /\ SyncInv' /\ WorkInv'
  BY DEF IInv, TypeOK, LockInv, SyncInv, Syncing, WorkInv, WorkStart
<1>2. ArmInv'
  <2>1. reenable \subseteq Pins /\ wpos' = 0
    BY DEF IInv, TypeOK, WorkInv, WorkStart
  <2>2. \A p \in reenable : p >= wpos'
    BY <2>1 DEF Pins
  <2>. QED
    BY <2>2 DEF IInv, ArmInv, Covered, Sending, Queued, Marked, Unmasking, WorkStart
<1>3. SpuriousInv'
  BY DEF IInv, SpuriousInv, Once, Sending, WorkStart
<1>. QED
  BY <1>1, <1>2, <1>3 DEF IInv

\* The next mark is taken: its pin gets a command if it is unmasked, the marks
\* beyond it stay ahead.
LEMMA WorkScanKeeps == IInv /\ WorkScan => IInv'
<1> SUFFICES ASSUME IInv, WorkScan PROVE IInv'
  OBVIOUS
<1> USE DEF threadVars
<1>1. CASE \E p \in Pins :
             /\ NextSet(p)
             /\ reenable' = reenable \ {p}
             /\ IF p \in unmasked THEN wpos' = p /\ wpc' = "send"
                                  ELSE wpos' = p + 1 /\ UNCHANGED wpc
  <2>1. PICK p \in Pins :
             /\ NextSet(p)
             /\ reenable' = reenable \ {p}
             /\ IF p \in unmasked THEN wpos' = p /\ wpc' = "send"
                                  ELSE wpos' = p + 1 /\ UNCHANGED wpc
    BY <1>1
  <2>2. wpc = "scan" /\ UNCHANGED <<unmasked, enabled, threadVars, pending, armed, events, spurious, faulty>>
    BY DEF WorkScan
  <2>3. /\ wpos' \in 0 .. NPins /\ wpc' \in {"scan", "send"} /\ (wpc' = "send" => wpos' = p /\ p \in unmasked)
        /\ p \in Nat /\ p \in reenable
    BY <2>1, <2>2, PinsAssumption DEF Pins, NextSet
  <2>4. TypeOK' /\ LockInv' /\ SyncInv' /\ WorkInv'
    BY <2>1, <2>2, <2>3 DEF IInv, TypeOK, LockInv, SyncInv, Syncing, WorkInv
  <2>5. ASSUME NEW q \in reenable, q >= wpos, q # p PROVE q \in reenable' /\ q >= wpos'
    <3>1. q \in Nat /\ q >= p
      BY <2>1, <2>5 DEF NextSet, IInv, TypeOK, Pins
    <3>. QED
      BY <2>1, <2>3, <2>5, <3>1
  <2>6. ArmInv'
    <3> SUFFICES ASSUME ~faulty, NEW q \in unmasked PROVE Covered(q)'
      BY <2>2 DEF ArmInv
    <3>1. Covered(q) /\ ~Sending(q)
      BY <2>2 DEF IInv, ArmInv, Sending
    <3>2. CASE q = p
      BY <2>1, <3>2 DEF Covered, Sending
    <3>3. CASE q # p
      BY <2>1, <2>2, <2>3, <2>5, <3>1, <3>3 DEF Covered, Queued, Marked, Unmasking
    <3>. QED
      BY <3>2, <3>3
  <2>7. SpuriousInv'
    <3>1. \A q \in Pins : q \notin unmasked => ~Sending(q)'
      BY <2>3 DEF Sending
    <3>2. \A t \in Threads : tpc[t] = "clear" => tpin[t] \notin unmasked
      BY DEF IInv, SyncInv
    <3>. QED
      BY <2>2, <3>1, <3>2 DEF IInv, SpuriousInv, Once
  <2>. QED
    BY <2>4, <2>6, <2>7 DEF IInv
<1>2. CASE (\A p \in reenable : p < wpos) /\ wpc' = "idle" /\ wpos' = 0 /\ UNCHANGED reenable
  <2>1. wpc = "scan" /\ UNCHANGED <<unmasked, enabled, threadVars, pending, armed, events, spurious, faulty>>
    BY DEF WorkScan
  <2>2. TypeOK' /\ LockInv' /\ SyncInv' /\ WorkInv'
    BY <1>2, <2>1, PinsAssumption DEF IInv, TypeOK, LockInv, SyncInv, Syncing, WorkInv
  <2>3. ArmInv'
    <3>1. \A p \in reenable : ~(p >= wpos)
      BY <1>2 DEF IInv, TypeOK, Pins
    <3>. QED
      BY <1>2, <2>1, <3>1 DEF IInv, ArmInv, Covered, Sending, Queued, Marked, Unmasking
  <2>4. SpuriousInv'
    BY <1>2, <2>1 DEF IInv, SpuriousInv, Once, Sending
  <2>. QED
    BY <2>2, <2>3, <2>4 DEF IInv
<1>. QED
  BY <1>1, <1>2 DEF WorkScan

\* The command arms the pin, even if it was masked since.
LEMMA WorkSendKeeps == IInv /\ WorkSend => IInv'
<1> SUFFICES ASSUME IInv, WorkSend PROVE IInv'
  OBVIOUS
<1> USE DEF bitmaps, threadVars
<1>1. /\ wpc = "send" /\ wpc' = "scan" /\ wpos \in Pins /\ wpos' = wpos + 1 /\ wpos \in Nat
      /\ UNCHANGED <<unmasked, enabled, reenable, irq_lock, tpc, tpin, pending, events, spurious>>
  BY PinsAssumption DEF IInv, WorkInv, WorkSend, Pins
<1>2. armed' \in {armed, armed \cup {wpos}} /\ faulty' \in BOOLEAN /\ (faulty => faulty')
      /\ (~faulty' => armed' = armed \cup {wpos})
  BY DEF IInv, TypeOK, WorkSend, ljca_enable_irq
<1>3. TypeOK'
  <2>1. wpos' \in 0 .. NPins
    BY <1>1, PinsAssumption DEF Pins
  <2>. QED
    BY <1>1, <1>2, <2>1 DEF IInv, TypeOK
<1>4. LockInv' /\ SyncInv' /\ WorkInv'
  BY <1>1 DEF IInv, LockInv, SyncInv, Syncing, WorkInv
<1>5. ArmInv'
  <2> SUFFICES ASSUME ~faulty', NEW p \in unmasked PROVE Covered(p)'
    BY <1>1 DEF ArmInv
  <2>1. Covered(p) /\ armed' = armed \cup {wpos} /\ p \in Nat
    BY <1>2 DEF IInv, TypeOK, ArmInv, Pins
  <2>2. CASE p = wpos
    BY <2>1, <2>2 DEF Covered
  <2>3. CASE p # wpos
    <3>1. p >= wpos => p >= wpos'
      BY <1>1, <2>1, <2>3
    <3>. QED
      BY <1>1, <2>1, <2>3, <3>1 DEF Covered, Sending, Queued, Marked, Unmasking
  <2>. QED
    BY <2>2, <2>3
<1>6. SpuriousInv'
  <2> SUFFICES ASSUME ~faulty' PROVE SpuriousInv'
    BY DEF SpuriousInv
  <2>1. ~faulty /\ \A p \in Pins : ~Sending(p)' /\ (p \in armed' => p \in armed \/ Sending(p))
    BY <1>1, <1>2 DEF Sending
  <2>. QED
    BY <1>1, <2>1 DEF IInv, SpuriousInv, Once
<1>. QED
  BY <1>3, <1>4, <1>5, <1>6 DEF IInv

LEMMA StutterKeeps == IInv /\ UNCHANGED vars => IInv'
<1> SUFFICES ASSUME IInv, UNCHANGED vars PROVE IInv'
  OBVIOUS
<1>1. TypeOK' /\ LockInv' /\ SyncInv' /\ WorkInv'
  BY DEF IInv, vars, TypeOK, LockInv, SyncInv, Syncing, WorkInv
<1>2. ArmInv' /\ SpuriousInv'
  BY DEF IInv, vars, ArmInv, Covered, Sending, Queued, Marked, Unmasking, SpuriousInv, Once
<1>. QED
  BY <1>1, <1>2 DEF IInv

-----------------------------------------------------------------------------
(* The theorems.                                                           *)

LEMMA Invariance == Spec => []IInv
<1>1. IInv /\ [Next]_vars => IInv'
  <2> SUFFICES ASSUME IInv, [Next]_vars PROVE IInv'
    OBVIOUS
  <2>1. ASSUME NEW t \in Threads, IrqCore(t) PROVE IInv'
    BY <2>1, BusLockKeeps, UnmaskKeeps, MaskKeeps, SetTypeKeeps, StartupKeeps, BusSyncKeeps, BusConfigKeeps, BusUnmaskKeeps,
       BusMaskKeeps, BusSetKeeps, BusClearKeeps DEF IrqCore, ljca_irq_bus_unlock
  <2>2. CASE Adapter
    BY <2>2, RaiseEventKeeps DEF Adapter
  <2>3. CASE ljca_gpio_event_cb
    BY <2>3, EventKeeps
  <2>4. CASE ljca_gpio_async
    BY <2>4, WorkStartKeeps, WorkScanKeeps, WorkSendKeeps DEF ljca_gpio_async
  <2>5. CASE UNCHANGED vars
    BY <2>5, StutterKeeps
  <2>. QED
    BY <2>1, <2>2, <2>3, <2>4, <2>5 DEF Next
<1>. QED
  BY <1>1, IInvInit, PTL DEF Spec

\* The bitmaps only name pins of the chip, and the work item never looks beyond
\* its last one.
THEOREM TypeCorrect == Spec => []TypeOK
<1>1. IInv => TypeOK
  BY DEF IInv
<1>. QED
  BY <1>1, Invariance, PTL

\* While no command failed, a pin in unmasked_irqs is armed and recorded as
\* enabled when nothing that concerns it is under way, whatever events, masks,
\* unmasks and work items raced before. A pin that was only started is not in
\* unmasked_irqs, and the theorem does not speak of it.
THEOREM ArmingNotLost == Spec => []ArmedWhenSettled
<1>1. IInv => ArmedWhenSettled
  <2> SUFFICES ASSUME IInv, NEW p \in Pins, Settled(p), ~faulty
               PROVE  (p \in unmasked => p \in armed) /\ (p \in enabled <=> p \in unmasked)
    BY DEF ArmedWhenSettled
  <2>1. p \in enabled <=> p \in unmasked
    BY DEF IInv, SyncInv, Syncing, Settled
  <2>2. ~Sending(p) /\ ~Marked(p) /\ ~Unmasking(p)
    BY DEF Settled, Sending, Marked, Unmasking
  <2>3. ~Queued(p)
    BY EmptySeq DEF Settled, Queued
  <2>. QED
    BY <2>1, <2>2, <2>3 DEF IInv, ArmInv, Covered
<1>. QED
  BY <1>1, Invariance, PTL

\* After a mask the adapter raises at most one more interrupt for the pin.
THEOREM OneSpurious == Spec => []SpuriousBounded
<1>1. IInv => SpuriousBounded
  BY DEF IInv, SpuriousInv, SpuriousBounded
<1>. QED
  BY <1>1, Invariance, PTL
=============================================================================
