-------------------------- MODULE LjcaDeviceProofs --------------------------
(***************************************************************************)
(* The drivers over the bridge keep their invariants, for any board,       *)
(* controllers, callers, transfers and numbers of calls, and whatever      *)
(* calls fail.                                                             *)
(***************************************************************************)
EXTENDS LjcaDevice, SequenceTheorems, TLAPS

-----------------------------------------------------------------------------
(* The inductive invariant, in named parts.                                *)

\* The calls: they are numbered from 1, an answer that can still arrive is not
\* that of a call to come, and on a clean stub, where no call failed or was cut
\* short, a buffer holds its own call's answer.
Begun == \A t \in Threads : ph[t] # "idle" => n[t] >= 1
Fresh == \A i \in open : i[2] <= n[i[1]]
OwnBuffer(t) ==
  /\ buf[t] \in {None, Id(t)}
  /\ kind[t] = "read" /\ (ph[t] = "answered" \/ (ph[t] = "idle" /\ ret[t] = "ok")) => buf[t] = Id(t)
CallInv == Begun /\ Fresh /\ \A t \in Threads : Clean(t) => OwnBuffer(t)

\* The firmware has executed the last command of t.
Ran(t) == ph[t] \in {"sent", "answered"} \/ (ph[t] = "idle" /\ ret[t] = "ok")

\* The phases of ljca_probe.
Probing == {"start", "call", "mfd"}

\* Probe and disconnect: which phases have calls, devices and stubs.
ProbeInv ==
  /\ probe = "start" => n[Mng] = 0 /\ stubs = {}
  /\ probe = "call" => n[Mng] \in 1 .. 4 /\ kind[Mng] = "read"
  /\ ph[Mng] # "idle" => probe = "call"
  /\ probe \in Probing \cup {"failed", "gone"} => devs = {}
  /\ probe \in {"start", "failed", "killed", "stopped", "gone"} => ~reading
  /\ probe \notin {"start", "failed", "gone"} => "MNG" \in stubs
  /\ \A d \in cells \ AllJunk : TypeOf[d] \in stubs
  /\ CellsAnnounced

\* trans_lock, and how old ibuf may be. A work item needs no device.
PinInv ==
  /\ \A g \in Callers : gat[g] = "call" <=> trans_lock = g
  /\ ph[Gpio] # "idle" => trans_lock # None
  /\ \A g \in Callers : gat[g] # "idle" => gop[g] \in PinOps /\ (g \notin Works => Gpio \in devs)
  /\ \A g \in Callers : gat[g] = "call" =>
       mine[g] = n[Gpio] /\ (gop[g] = "GPIO_READ" => kind[Gpio] = "read")
  /\ Clean(Gpio) => /\ ibuf <= n[Gpio]
                    /\ \A g \in Callers : gat[g] = "read" => ibuf >= mine[g]
  /\ ValueNotStale

\* An adapter's step and its call; the messages still to do are the end of the
\* transfer.
Busy == {"start", "data", "stop"}
Suffix(s, x) == Len(s) <= Len(x) /\ \A i \in 1 .. Len(s) : s[i] = x[Len(x) - Len(s) + i]
I2cStepInv(a) ==
  /\ ph[a] # "idle" => iat[a] \in Busy \cup {"init"}
  /\ iat[a] \notin {"off", "gone"} => a \in devs
  /\ iat[a] \in {"off", "init"} => iret[a] = "none"
  /\ iat[a] = "init" => cmd[a] = "I2C_INIT"
  /\ iat[a] = "start" => cmd[a] = "I2C_START"
  /\ iat[a] = "data" => cmd[a] \in {"I2C_READ", "I2C_WRITE"}
  /\ iat[a] = "stop" => cmd[a] = "I2C_STOP"
  /\ iat[a] = "copy" => cmd[a] \in {"I2C_READ", "I2C_WRITE"} /\ Ran(a)
  /\ iat[a] \in Busy \cup {"copy"} =>
       kind[a] = "read" /\ msgs[a] # <<>> /\ Suffix(msgs[a], xfer[a])

\* On a clean stub the controller has executed the messages that are done, and
\* the current one once its data command ran; the answers taken for those that
\* are done are those of the calls that moved them.
Done(a) == Len(xfer[a]) - Len(msgs[a])
I2cWireInv(a) == Clean(a) =>
  /\ \A i \in 1 .. Len(wire[a]) : i <= Len(xfer[a]) /\ wire[a][i] = Truncated(xfer[a][i])
  /\ iat[a] = "start" => Len(wire[a]) = Done(a)
  /\ iat[a] = "data" /\ ph[a] = "called" => Len(wire[a]) = Done(a)
  /\ iat[a] \in {"data", "copy"} /\ Ran(a) => Len(wire[a]) = Done(a) + 1
  /\ iat[a] = "stop" => Len(wire[a]) = Done(a) + 1
  /\ iat[a] = "stop" /\ Ran(a) => ~held[a]
  /\ iat[a] = "idle" /\ iret[a] = "ok" => Len(wire[a]) = Len(xfer[a]) /\ ~held[a]
  /\ iat[a] \in {"start", "stop"} => by[a] = got[a]
  /\ iat[a] = "data" /\ ph[a] = "called" => by[a] = got[a]
  /\ iat[a] \in {"data", "copy"} /\ Ran(a) => by[a] = Append(got[a], Id(a))
  /\ iat[a] = "idle" /\ iret[a] = "ok" => by[a] = got[a]
I2cInv == \A a \in Adapters : I2cStepInv(a) /\ I2cWireInv(a)

\* The SPI driver's step and its two threads' calls.
SpiStepInv ==
  /\ ph[Spi] # "idle" => sat \in {"init", "data"}
  /\ sat \notin {"off", "gone"} => Spi \in devs
  /\ sat = "gone" => Spi \notin devs /\ probe \notin Probing
  /\ ph[SpiRm] # "idle" => n[SpiRm] > 0 /\ sat \notin {"off", "gone"} /\ cmd[SpiRm] = "SPI_DEINIT"
  /\ sat = "off" => n[SpiRm] = 0
  /\ sat \in {"init", "next", "data"} => sret = "none"
  /\ sat = "init" => cmd[Spi] = "SPI_INIT" /\ off = 0 /\ idx = 0 /\ rcv = <<>>
  /\ sat = "data" => cmd[Spi] \notin {"SPI_INIT", "SPI_DEINIT"}

\* The cache holds what the controller was last set to.
SpiConfigInv ==
  /\ sat \in {"next", "data"} => cache = CacheOf(cur)
  /\ Clean(Spi) /\ n[SpiRm] = 0 /\ ctl # Reset =>
       ctl = IF sat = "init" /\ Ran(Spi) THEN CacheOf(cur) ELSE cache

\* The chunks sent are the first ones of the transfer, unless a command was cut
\* short.
ChunkCount(l) == (l + MaxChunk - 1) \div MaxChunk
Total == ChunkCount(Length(cur))
SpiOffsetInv ==
  /\ sat \in {"init", "next", "data"} =>
       idx <= Total /\ off = IF idx = Total THEN Length(cur) ELSE idx * MaxChunk
  /\ sat = "data" => idx < Total
SpiChunkInv == "SPI" \notin cut =>
  /\ Len(rcv) <= Total
  /\ \A i \in 1 .. Len(rcv) : rcv[i] = ChunksOf(Length(cur))[i]
  /\ sat = "next" => Len(rcv) = idx
  /\ sat = "data" /\ ph[Spi] = "called" => Len(rcv) = idx
  /\ sat = "data" /\ Ran(Spi) => Len(rcv) = idx + 1
  /\ sret = "ok" => Len(rcv) = Total
SpiInv == SpiStepInv /\ SpiConfigInv /\ SpiOffsetInv /\ SpiChunkInv

IInv == TypeOKDevice /\ CallInv /\ ProbeInv /\ PinInv /\ I2cInv /\ SpiInv

-----------------------------------------------------------------------------
(* The calls.                                                              *)

\* The threads are different ones, because their stubs are.
LEMMA ThreadFacts ==
  /\ Mng \in Threads /\ Gpio \in Threads /\ Spi \in Threads /\ SpiRm \in Threads
  /\ Adapters \subseteq Threads
  /\ Mng \notin Adapters /\ Gpio \notin Adapters /\ Spi \notin Adapters /\ SpiRm \notin Adapters
  /\ Gpio # Mng /\ Spi # Mng /\ SpiRm # Mng /\ Spi # Gpio /\ SpiRm # Gpio /\ Spi # SpiRm
  /\ Clean(Spi) <=> "SPI" \notin dirty
  /\ Clean(SpiRm) <=> "SPI" \notin dirty
  /\ Clean(Mng) <=> "MNG" \notin dirty
BY DeviceThreads, MngAssumption, GpioAssumption, SpiAssumption, AdaptersAssumption DEF Clean

\* What a step leaves alone of the call of u.
Kept(u) ==
  /\ ph'[u] = ph[u] /\ cmd'[u] = cmd[u] /\ kind'[u] = kind[u] /\ n'[u] = n[u]
  /\ ret'[u] = ret[u] /\ len'[u] = len[u]

\* What a driver's step does to the calls: nothing, or a new one.
NewCall(t, c, k) ==
  /\ ph[t] = "idle"
  /\ cmd'[t] = c /\ kind'[t] = k /\ n'[t] = n[t] + 1
  /\ (ph'[t] = "called" /\ ret'[t] = "none") \/ (ph'[t] = "idle" /\ ret'[t] = "error")
  /\ dirty' = dirty
  /\ \A u \in Threads \ {t} : Kept(u)

LEMMA InvokeStep ==
  ASSUME TypeOK, NEW t \in Threads, NEW c, NEW k, Invoke(t, c, k) \/ Refuse(t, c, k)
  PROVE  NewCall(t, c, k)
BY DEF TypeOK, Invoke, Call, Refuse, Begin, Return, NewCall, Kept

LEMMA InvokeKeeps ==
  ASSUME TypeOK, CallInv, NEW t \in Threads, NEW c \in Cmds, NEW k \in Kinds,
         Invoke(t, c, k) \/ Refuse(t, c, k)
  PROVE  TypeOK' /\ CallInv'
<1>1. TypeOK'
  <2>1. n' \in [Threads -> 0 .. MaxCalls]
    BY BoundsAssumption DEF TypeOK, Invoke, Call, Refuse, Begin
  <2>. QED
    BY <2>1 DEF TypeOK, Invoke, Call, Refuse, Begin, Return
<1>2. /\ open' = open /\ dirty' = dirty
      /\ n' = [n EXCEPT ![t] = @ + 1] /\ n[t] \in Nat /\ buf' = [buf EXCEPT ![t] = None]
  BY BoundsAssumption DEF TypeOK, Invoke, Call, Refuse, Begin
<1>3. Begun' /\ Fresh'
  <2>1. Begun'
    BY <1>2, InvokeStep DEF CallInv, Begun, NewCall, Kept, TypeOK
  <2>2. Fresh'
    BY <1>2, BoundsAssumption DEF CallInv, Fresh, TypeOK, Ids
  <2>. QED
    BY <2>1, <2>2
<1>4. ASSUME NEW u \in Threads, Clean(u)' PROVE OwnBuffer(u)'
  <2>1. Clean(u)
    BY <1>2, <1>4 DEF Clean
  <2>2. CASE u = t
    BY <1>2, <2>2, InvokeStep DEF OwnBuffer, NewCall, TypeOK
  <2>3. CASE u # t
    BY <1>2, <2>1, <2>3, InvokeStep DEF CallInv, OwnBuffer, NewCall, Kept, Id, TypeOK
  <2>. QED
    BY <2>2, <2>3
<1>. QED
  BY <1>1, <1>3, <1>4 DEF CallInv

LEMMA IssueKeeps ==
  ASSUME TypeOK, CallInv, NEW t \in Threads, Issue(t)
  PROVE  TypeOK' /\ CallInv'
<1>1. Id(t) \in Ids /\ n[t] \in Nat
  BY BoundsAssumption DEF TypeOK, CallInv, Begun, Issue, Id, Ids
<1>2. /\ ph' = [ph EXCEPT ![t] = "sent"] /\ open' \subseteq open \cup {Id(t)} /\ ph[t] = "called"
      /\ UNCHANGED <<callVars, buf, ret, len, dirty>>
  BY DEF Issue
<1>3. TypeOK'
  BY <1>1, <1>2 DEF TypeOK, callVars
<1>4. Begun' /\ Fresh'
  BY <1>1, <1>2 DEF CallInv, Begun, Fresh, callVars, TypeOK, Id
<1>5. ASSUME NEW u \in Threads, Clean(u)' PROVE OwnBuffer(u)'
  BY <1>2, <1>5 DEF CallInv, OwnBuffer, callVars, Clean, Id, TypeOK
<1>. QED
  BY <1>3, <1>4, <1>5 DEF CallInv

LEMMA AnswerKeeps ==
  ASSUME TypeOK, CallInv, NEW t \in Threads, Answer(t)
  PROVE  TypeOK' /\ CallInv'
<1>1. TypeOK'
  BY DEF TypeOK, Answer, callVars
<1>2. Begun' /\ Fresh'
  BY DEF CallInv, Begun, Fresh, Answer, callVars, TypeOK
<1>3. ASSUME NEW u \in Threads, Clean(u)' PROVE OwnBuffer(u)'
  BY <1>3 DEF CallInv, OwnBuffer, Answer, callVars, Clean, Id, TypeOK
<1>. QED
  BY <1>1, <1>2, <1>3 DEF CallInv

LEMMA SucceedKeeps ==
  ASSUME TypeOK, CallInv, NEW t \in Threads, Succeed(t)
  PROVE  TypeOK' /\ CallInv'
<1>1. PICK l \in {"some", "zero"} : Return(t, "ok", l)
  BY DEF Succeed, Lens
<1>2. TypeOK'
  BY <1>1 DEF TypeOK, Succeed, Return, callVars
<1>3. Begun' /\ Fresh'
  BY <1>1 DEF CallInv, Begun, Fresh, Succeed, Return, callVars, TypeOK
<1>4. ASSUME NEW u \in Threads, Clean(u)' PROVE OwnBuffer(u)'
  BY <1>1, <1>4 DEF CallInv, OwnBuffer, Succeed, Return, callVars, Clean, Id, TypeOK
<1>. QED
  BY <1>2, <1>3, <1>4 DEF CallInv

LEMMA FailKeeps ==
  ASSUME TypeOK, CallInv, NEW t \in Threads, Fail(t)
  PROVE  TypeOK' /\ CallInv'
<1>1. Id(t) \in Ids /\ n[t] \in Nat
  BY BoundsAssumption DEF TypeOK, CallInv, Begun, Fail, Id, Ids
<1>2. /\ Return(t, "error", "zero") /\ dirty' = dirty \cup {StubOf[t]}
      /\ open' \subseteq open \cup {Id(t)} /\ UNCHANGED <<callVars, buf>>
  BY DEF Fail
<1>3. TypeOK'
  BY <1>1, <1>2 DEF TypeOK, Return, callVars
<1>4. Begun' /\ Fresh'
  BY <1>1, <1>2 DEF CallInv, Begun, Fresh, Return, callVars, TypeOK, Id
<1>5. ASSUME NEW u \in Threads, Clean(u)' PROVE OwnBuffer(u)'
  BY <1>2, <1>5 DEF CallInv, OwnBuffer, Return, callVars, Clean, Id, TypeOK
<1>. QED
  BY <1>3, <1>4, <1>5 DEF CallInv

LEMMA CutKeeps ==
  ASSUME TypeOK, CallInv, NEW t \in Threads, CutShort(t)
  PROVE  TypeOK' /\ CallInv'
<1>1. PICK l \in {"some", "zero"} : Return(t, "ok", l)
  BY DEF CutShort
<1>2. dirty' = dirty \cup {StubOf[t]} /\ UNCHANGED <<callVars, buf, open>>
  BY DEF CutShort
<1>3. TypeOK'
  BY <1>1, <1>2 DEF TypeOK, Return, callVars
<1>4. Begun' /\ Fresh'
  BY <1>1, <1>2 DEF CallInv, Begun, Fresh, Return, callVars, TypeOK
<1>5. ASSUME NEW u \in Threads, Clean(u)' PROVE OwnBuffer(u)'
  BY <1>1, <1>2, <1>5 DEF CallInv, OwnBuffer, Return, callVars, Clean, Id, TypeOK
<1>. QED
  BY <1>3, <1>4, <1>5 DEF CallInv

LEMMA LateKeeps ==
  ASSUME TypeOK, CallInv, NEW i \in open, LateAnswer(i) \/ Drop(i)
  PROVE  TypeOK' /\ CallInv'
<1>1. TypeOK'
  BY DEF TypeOK, LateAnswer, Drop, callVars
<1>2. Begun' /\ Fresh'
  BY DEF CallInv, Begun, Fresh, LateAnswer, Drop, callVars
<1>3. ASSUME NEW u \in Threads, Clean(u)' PROVE OwnBuffer(u)'
  BY <1>3 DEF CallInv, OwnBuffer, LateAnswer, Drop, callVars, Clean, Id, Stub, TypeOK
<1>. QED
  BY <1>1, <1>2, <1>3 DEF CallInv

-----------------------------------------------------------------------------
(* What the parts need a step of another part to leave alone.              *)

ProbeFrame ==
  /\ UNCHANGED <<board, probe, reading, stubs, cells>>
  /\ devs' \subseteq devs /\ dirty \subseteq dirty'
  /\ n'[Mng] = n[Mng] /\ kind'[Mng] = kind[Mng] /\ (ph'[Mng] # "idle" => ph[Mng] # "idle")

PinFrame ==
  /\ UNCHANGED pinVars
  /\ Gpio \in devs => Gpio \in devs'
  /\ dirty \subseteq dirty'
  /\ n'[Gpio] = n[Gpio] /\ kind'[Gpio] = kind[Gpio] /\ (ph'[Gpio] # "idle" => ph[Gpio] # "idle")

I2cFrame(a) ==
  /\ iat'[a] = iat[a] /\ msgs'[a] = msgs[a] /\ iret'[a] = iret[a] /\ xfer'[a] = xfer[a]
  /\ got'[a] = got[a] /\ wire'[a] = wire[a] /\ by'[a] = by[a] /\ held'[a] = held[a]
  /\ a \in devs => a \in devs'
  /\ dirty \subseteq dirty'
  /\ ph'[a] = ph[a] /\ ret'[a] = ret[a] /\ cmd'[a] = cmd[a] /\ kind'[a] = kind[a] /\ n'[a] = n[a]

SpiFrame ==
  /\ UNCHANGED <<sat, cur, off, idx, cache, sret, ctl, rcv>>
  /\ Spi \in devs => Spi \in devs'
  /\ probe \notin Probing => devs' \subseteq devs /\ probe' \notin Probing
  /\ dirty \subseteq dirty' /\ cut \subseteq cut'
  /\ ph'[Spi] = ph[Spi] /\ ret'[Spi] = ret[Spi] /\ cmd'[Spi] = cmd[Spi]
  /\ n'[SpiRm] = n[SpiRm] /\ cmd'[SpiRm] = cmd[SpiRm] /\ (ph'[SpiRm] # "idle" => ph[SpiRm] # "idle")

LEMMA ProbeKept ==
  ASSUME ProbeTypeOK, ProbeInv, ProbeFrame
  PROVE  ProbeTypeOK' /\ ProbeInv'
BY DEF ProbeTypeOK, ProbeInv, ProbeFrame, CellsAnnounced

LEMMA PinKept ==
  ASSUME PinInv, PinFrame
  PROVE  PinInv'
BY DEF PinInv, PinFrame, pinVars, ValueNotStale, Clean

LEMMA I2cKept ==
  ASSUME NEW a \in Adapters, I2cStepInv(a), I2cWireInv(a), I2cFrame(a)
  PROVE  I2cStepInv(a)' /\ I2cWireInv(a)'
<1>1. I2cStepInv(a)'
  BY DEF I2cStepInv, I2cFrame, Ran
<1>2. I2cWireInv(a)'
  BY DEF I2cWireInv, I2cFrame, Clean, Done, Ran, Id
<1>. QED
  BY <1>1, <1>2

LEMMA SpiKept ==
  ASSUME SpiInv, SpiFrame
  PROVE  SpiInv'
<1>1. SpiStepInv'
  BY DEF SpiInv, SpiStepInv, SpiFrame
<1>2. SpiConfigInv'
  BY DEF SpiInv, SpiConfigInv, SpiFrame, Clean, Ran, CacheOf
<1>3. SpiOffsetInv' /\ SpiChunkInv'
  <2>1. /\ Total' = Total /\ Length(cur)' = Length(cur) /\ cut \subseteq cut'
        /\ UNCHANGED <<sat, off, idx, sret, rcv>> /\ ph'[Spi] = ph[Spi] /\ ret'[Spi] = ret[Spi]
    BY DEF SpiFrame, Total, Length
  <2>. QED
    BY <2>1 DEF SpiInv, SpiOffsetInv, SpiChunkInv, Ran
<1>. QED
  BY <1>1, <1>2, <1>3 DEF SpiInv

\* A step of a driver with thread t, which may remove device d.
DriverStep(t, d) ==
  /\ UNCHANGED vars \/ \E c \in Cmds, k \in Kinds : Invoke(t, c, k) \/ Refuse(t, c, k)
  /\ \A e \in devs \cap Threads : e # d => e \in devs'
  /\ probe \notin Probing => devs' \subseteq devs /\ probe' \notin Probing

LEMMA DriverCalls ==
  ASSUME TypeOK, CallInv, NEW t \in Threads, NEW d, DriverStep(t, d)
  PROVE  /\ TypeOK' /\ CallInv'
         /\ dirty' = dirty /\ \A u \in Threads \ {t} : Kept(u)
<1>1. CASE UNCHANGED vars
  <2>1. TypeOK'
    BY <1>1 DEF vars, TypeOK
  <2>2. CallInv'
    BY <1>1 DEF vars, CallInv, Begun, Fresh, Clean, OwnBuffer, Id
  <2>. QED
    BY <1>1, <2>1, <2>2 DEF vars, Kept
<1>2. ASSUME NEW c \in Cmds, NEW k \in Kinds, Invoke(t, c, k) \/ Refuse(t, c, k)
      PROVE  /\ TypeOK' /\ CallInv'
             /\ dirty' = dirty /\ \A u \in Threads \ {t} : Kept(u)
  BY <1>2, InvokeKeeps, InvokeStep DEF NewCall
<1>. QED
  BY <1>1, <1>2 DEF DriverStep

LEMMA DriverFrames ==
  ASSUME TypeOK, CallInv, NEW t \in Threads, NEW d, DriverStep(t, d)
  PROVE  /\ t # Mng /\ UNCHANGED <<board, probe, reading, stubs, cells>> /\ devs' \subseteq devs => ProbeFrame
         /\ t # Gpio /\ d # Gpio /\ UNCHANGED pinVars => PinFrame
         /\ \A a \in Adapters : t # a /\ d # a /\ UNCHANGED i2cVars => I2cFrame(a)
         /\ t \notin {Spi, SpiRm} /\ d # Spi /\ UNCHANGED spiVars /\ cut' = cut => SpiFrame
BY DriverCalls, ThreadFacts DEF DriverStep, Kept, ProbeFrame, PinFrame, I2cFrame, i2cVars, SpiFrame, spiVars

-----------------------------------------------------------------------------
(* Facts about chunks and speeds.                                          *)

\* The i-th chunk of l bytes begins within them, and is the last one exactly
\* when no more than MaxChunk bytes are left.
LEMMA ChunkFacts ==
  ASSUME NEW l \in Nat
  PROVE  /\ ChunkCount(l) \in Nat
         /\ ChunkCount(l) = 0 <=> l = 0
         /\ \A i \in Nat : i < ChunkCount(l) =>
              /\ i * MaxChunk \in Nat
              /\ l - i * MaxChunk > 0
              /\ l - i * MaxChunk > MaxChunk <=> i + 1 < ChunkCount(l)
              /\ (i + 1) * MaxChunk = i * MaxChunk + MaxChunk
<1>. DEFINE N == ChunkCount(l)
<1>1. N \in Nat /\ N * MaxChunk <= l + MaxChunk - 1 /\ N * MaxChunk > l - 1
  BY SpiWidthAssumption DEF ChunkCount
<1>2. N = 0 <=> l = 0
  BY <1>1, SpiWidthAssumption
<1>3. ASSUME NEW i \in Nat, i < N
      PROVE  /\ i * MaxChunk \in Nat
             /\ l - i * MaxChunk > 0
             /\ l - i * MaxChunk > MaxChunk <=> i + 1 < N
             /\ (i + 1) * MaxChunk = i * MaxChunk + MaxChunk
  <2>. HIDE DEF N
  <2>1. i * MaxChunk \in Nat /\ (i + 1) * MaxChunk = i * MaxChunk + MaxChunk
    BY SpiWidthAssumption
  <2>2. PICK j \in Nat : N = i + 1 + j
    <3>1. N - i - 1 \in Nat /\ N = i + 1 + (N - i - 1)
      BY <1>1, <1>3
    <3>. QED
      BY <3>1
  <2>3. N * MaxChunk = i * MaxChunk + MaxChunk + j * MaxChunk /\ j * MaxChunk \in Nat
    BY <2>2, SpiWidthAssumption
  <2>4. CASE j = 0
    BY <1>1, <2>1, <2>2, <2>3, <2>4, SpiWidthAssumption
  <2>5. CASE j # 0
    <3>1. j * MaxChunk >= MaxChunk
      BY <2>5, SpiWidthAssumption
    <3>. QED
      BY <1>1, <2>1, <2>2, <2>3, <3>1, SpiWidthAssumption
  <2>. QED
    BY <2>4, <2>5
<1>. QED
  BY <1>1, <1>2, <1>3

\* The chunks of l bytes.
LEMMA ChunksFacts ==
  ASSUME NEW l \in Nat
  PROVE  /\ Len(ChunksOf(l)) = ChunkCount(l)
         /\ DOMAIN ChunksOf(l) = 1 .. ChunkCount(l)
         /\ ChunksOf(l) \in Seq(Chunks)
         /\ \A i \in Nat : i < ChunkCount(l) =>
              ChunksOf(l)[i + 1] = [id |-> i % IdMod, cmpl |-> ~(l - i * MaxChunk > MaxChunk),
                                    len |-> IF l - i * MaxChunk > MaxChunk THEN MaxChunk
                                            ELSE l - i * MaxChunk]
<1>. DEFINE N == ChunkCount(l)
            C(i) == [id |-> (i - 1) % IdMod, cmpl |-> i = N,
                     len |-> IF i = N THEN l - (N - 1) * MaxChunk ELSE MaxChunk]
<1>1. ChunksOf(l) = [i \in 1 .. N |-> C(i)]
  BY DEF ChunksOf, ChunkCount
<1>2. N \in Nat
  BY ChunkFacts
<1>. HIDE DEF N
<1>3. ASSUME NEW i \in Nat, i < N
      PROVE  C(i + 1) = [id |-> i % IdMod, cmpl |-> ~(l - i * MaxChunk > MaxChunk),
                         len |-> IF l - i * MaxChunk > MaxChunk THEN MaxChunk
                                 ELSE l - i * MaxChunk]
  <2>1. l - i * MaxChunk > MaxChunk <=> i + 1 < N
    BY <1>3, ChunkFacts DEF N
  <2>2. (i + 1) - 1 = i /\ (i + 1 = N => N - 1 = i) /\ (i + 1 < N <=> i + 1 # N)
    BY <1>2, <1>3
  <2>. QED
    BY <2>1, <2>2
<1>4. ASSUME NEW i \in Nat, i < N PROVE C(i + 1) \in Chunks
  <2>1. i % IdMod \in 0 .. IdMod - 1
    BY SpiWidthAssumption
  <2>2. l - i * MaxChunk > 0 /\ i * MaxChunk \in Nat
    BY <1>4, ChunkFacts DEF N
  <2>3. CASE l - i * MaxChunk > MaxChunk
    <3>1. C(i + 1) = [id |-> i % IdMod, cmpl |-> FALSE, len |-> MaxChunk]
      BY <1>3, <1>4, <2>3
    <3>. QED
      BY <2>1, <3>1, SpiWidthAssumption DEF Chunks
  <2>4. CASE ~(l - i * MaxChunk > MaxChunk)
    <3>1. C(i + 1) = [id |-> i % IdMod, cmpl |-> TRUE, len |-> l - i * MaxChunk]
      BY <1>3, <1>4, <2>4
    <3>2. l - i * MaxChunk \in 1 .. MaxChunk
      BY <2>2, <2>4, SpiWidthAssumption
    <3>. QED
      BY <2>1, <3>1, <3>2 DEF Chunks
  <2>. QED
    BY <2>3, <2>4
<1>. HIDE DEF C
<1>5. \A i \in 1 .. N : C(i) \in Chunks
  <2> TAKE i \in 1 .. N
  <2>1. i - 1 \in Nat /\ i - 1 < N /\ (i - 1) + 1 = i
    BY <1>2
  <2>2. C((i - 1) + 1) \in Chunks
    BY <1>4, <2>1
  <2>. QED
    BY <2>1, <2>2
<1>6. ChunksOf(l) \in Seq(Chunks) /\ Len(ChunksOf(l)) = N /\ DOMAIN ChunksOf(l) = 1 .. N
  BY <1>1, <1>2, <1>5
<1>7. \A i \in Nat : i < N => ChunksOf(l)[i + 1] = C(i + 1)
  BY <1>1, <1>2
<1>. QED
  BY <1>3, <1>6, <1>7 DEF N

\* The speed of a transfer's rate as the u8 the driver keeps.
LEMMA SpeedFacts ==
  ASSUME NEW t \in SpiXfers \cup {NoXfer}
  PROVE  /\ t.len \in Nat /\ t.dir \in Dirs /\ Length(t) \in Nat /\ (t.len < ShortMod => Length(t) = t.len)
         /\ Div(t.rate) \in Int
         /\ CacheOf(t) \in Configs /\ CacheOf(t).mode = t.mode /\ CacheOf(t) # Reset
         /\ t.rate \in NamedRates => ClockOf(CacheOf(t).speed) = t.rate
<1>1. t \in [mode : 0 .. 3, rate : Nat \ {0}, len : Nat, dir : Dirs]
  BY SpiXfersAssumption DEF NoXfer, MaxRate, Dirs
<1>2. Length(t) \in Nat /\ (t.len < ShortMod => Length(t) = t.len)
  BY <1>1, SpiWidthAssumption DEF Length
<1>3. Div(t.rate) \in Int
  <2>1. ((MaxRate + t.rate - 1) \div t.rate) \in Int
    BY <1>1 DEF MaxRate
  <2>. QED
    BY <2>1 DEF Div, SpeedMin
<1>4. Div(t.rate) % 256 \in 0 .. 255
  BY <1>3
<1>5. CacheOf(t) = [mode |-> t.mode, speed |-> Div(t.rate) % 256]
  BY DEF CacheOf
<1>6. ASSUME t.rate \in NamedRates PROVE ClockOf(CacheOf(t).speed) = t.rate
  <2>1. t.rate \in {240, 120, 80, 60, 48}
    BY <1>6 DEF NamedRates
  <2>. QED
    BY <1>5, <2>1 DEF ClockOf, Div, MaxRate, SpeedMin
<1>7. CacheOf(t) # Reset
  BY <1>1, <1>5 DEF Reset
<1>. QED
  BY <1>1, <1>2, <1>3, <1>4, <1>5, <1>6, <1>7 DEF Configs

-----------------------------------------------------------------------------
(* Steps of the bridge.                                                    *)

Moves(t) ==
  \/ /\ Issue(t) /\ ph[t] = "called" /\ ph'[t] = "sent" /\ dirty' = dirty
  \/ /\ Answer(t) \/ Succeed(t)
     /\ ph[t] \in {"sent", "answered"} /\ dirty' = dirty
     /\ ph'[t] = "answered" \/ (ph'[t] = "idle" /\ ret'[t] = "ok")
  \/ /\ Fail(t) /\ ph'[t] = "idle" /\ ret'[t] = "error" /\ dirty' = dirty \cup {StubOf[t]}
  \/ /\ CutShort(t) /\ ph'[t] = "idle" /\ dirty' = dirty \cup {StubOf[t]}

LEMMA BridgeMoves ==
  ASSUME TypeOK, NEW t \in Threads, Issue(t) \/ Answer(t) \/ Succeed(t) \/ Fail(t) \/ CutShort(t)
  PROVE  /\ Moves(t)
         /\ UNCHANGED callVars /\ dirty \subseteq dirty' /\ ph[t] # "idle"
         /\ \A u \in Threads \ {t} : Kept(u)
<1>1. CASE Issue(t)
  BY <1>1 DEF TypeOK, Issue, Moves, Kept, callVars
<1>2. CASE Answer(t)
  BY <1>2 DEF TypeOK, Answer, Moves, Kept, callVars
<1>3. CASE Succeed(t)
  <2>1. PICK l \in {"some", "zero"} : Return(t, "ok", l)
    BY <1>3 DEF Succeed, Lens
  <2>. QED
    BY <1>3, <2>1 DEF TypeOK, Succeed, Return, Moves, Kept, callVars
<1>4. CASE Fail(t)
  BY <1>4 DEF TypeOK, Fail, Return, Moves, Kept, callVars
<1>5. CASE CutShort(t)
  <2>1. PICK l \in {"some", "zero"} : Return(t, "ok", l)
    BY <1>5 DEF CutShort
  <2>. QED
    BY <1>5, <2>1 DEF TypeOK, CutShort, Return, Moves, Kept, callVars
<1>. QED
  BY <1>1, <1>2, <1>3, <1>4, <1>5

\* Answers that are late or dropped change buffers only.
LEMMA LateMoves ==
  ASSUME NEW i \in open, LateAnswer(i) \/ Drop(i)
  PROVE  UNCHANGED <<ph, cmd, kind, n, ret, len, dirty>>
BY DEF LateAnswer, Drop, callVars

LEMMA ExecuteI2c ==
  ASSUME TypeOK, CallInv, I2cTypeOK, NEW a \in Adapters, I2cStepInv(a), ph[a] = "called", I2cExecute(a)
  PROVE  /\ wire' \in [Adapters -> Seq(Messages)] /\ held' \in [Adapters -> BOOLEAN]
         /\ by' \in [Adapters -> Seq(Ids)]
         /\ \A b \in Adapters \ {a} : wire'[b] = wire[b] /\ by'[b] = by[b] /\ held'[b] = held[b]
         /\ wire'[a] = IF iat[a] = "data" THEN Append(wire[a], Truncated(msgs[a][1])) ELSE wire[a]
         /\ by'[a] = IF iat[a] = "data" THEN Append(by[a], Id(a)) ELSE by[a]
         /\ iat[a] = "stop" => ~held'[a]
<1>0. cmd[a] \in {"I2C_READ", "I2C_WRITE"} <=> iat[a] = "data"
  BY DEF I2cStepInv, Busy, Ran
<1>1. wire' = [wire EXCEPT ![a] = IF iat[a] = "data" THEN Append(@, Truncated(msgs[a][1])) ELSE @]
  <2>2. iat[a] = "data" => Head(msgs[a]) = msgs[a][1]
    BY DEF I2cStepInv, Busy, I2cTypeOK
  <2>. QED
    BY <1>0, <2>2 DEF I2cExecute
<1>2. iat[a] = "data" => Truncated(msgs[a][1]) \in Messages
  <2> HAVE iat[a] = "data"
  <2>1. msgs[a] \in Seq(Messages) /\ Len(msgs[a]) >= 1
    BY DEF I2cTypeOK, I2cStepInv, Busy
  <2>2. msgs[a][1] \in Messages
    BY <2>1
  <2>3. msgs[a][1].len % ByteMod \in Nat
    BY <2>2, I2cWidthAssumption DEF Messages
  <2>. QED
    BY <2>2, <2>3 DEF Truncated, Messages
<1>3. \A m \in Messages : Append(wire[a], m) \in Seq(Messages)
  BY AppendProperties DEF I2cTypeOK
<1>4. wire' \in [Adapters -> Seq(Messages)]
  BY <1>1, <1>2, <1>3 DEF I2cTypeOK
<1>5. held' \in [Adapters -> BOOLEAN] /\ \A b \in Adapters \ {a} : held'[b] = held[b]
  BY DEF I2cExecute, I2cTypeOK
<1>6. iat[a] = "stop" => ~held'[a]
  BY DEF I2cExecute, I2cStepInv, I2cTypeOK
<1>7. by' = [by EXCEPT ![a] = IF iat[a] = "data" THEN Append(@, Id(a)) ELSE @]
  BY <1>0 DEF I2cExecute
<1>8. Append(by[a], Id(a)) \in Seq(Ids)
  <2>1. Id(a) \in Ids
    BY ThreadFacts, BoundsAssumption DEF CallInv, Begun, Id, Ids, TypeOK
  <2>. QED
    BY <2>1, AppendProperties DEF I2cTypeOK
<1>9. by' \in [Adapters -> Seq(Ids)]
  BY <1>7, <1>8 DEF I2cTypeOK
<1>. QED
  BY <1>1, <1>4, <1>5, <1>6, <1>7, <1>9 DEF I2cTypeOK

\* Adapter a's own call moves on.
LEMMA I2cMoves ==
  ASSUME TypeOK, CallInv, I2cTypeOK, NEW a \in Adapters, I2cStepInv(a), I2cWireInv(a),
         UNCHANGED <<i2cDriverVars, devs, callVars>>, Moves(a), ph[a] # "idle",
         Issue(a) => I2cExecute(a),
         Answer(a) \/ Succeed(a) => UNCHANGED <<wire, by, held>>
  PROVE  I2cStepInv(a)' /\ I2cWireInv(a)'
<1>. USE DEF i2cDriverVars, callVars
<1>1. I2cStepInv(a)'
  BY DEF I2cStepInv, Moves, Busy, Ran
<1>2. ASSUME Issue(a), Clean(a)' PROVE I2cWireInv(a)'
  <2>1. ph[a] = "called" /\ ph'[a] = "sent" /\ dirty' = dirty
    <3>1. ph[a] = "called" /\ dirty' = dirty /\ ph' = [ph EXCEPT ![a] = "sent"]
      BY <1>2 DEF Issue
    <3>2. a \in DOMAIN ph
      BY ThreadFacts DEF TypeOK
    <3>. QED
      BY <3>1, <3>2
  <2>2. Clean(a) /\ iat[a] \in Busy \cup {"init"}
    BY <1>2, <2>1 DEF Clean, I2cStepInv
  <2>3. CASE iat[a] = "data"
    <3>1. /\ wire'[a] = Append(wire[a], Truncated(msgs[a][1]))
          /\ by'[a] = Append(by[a], Id(a))
      BY <1>2, <2>1, <2>3, ExecuteI2c
    <3>2. /\ wire[a] \in Seq(Messages) /\ msgs[a] \in Seq(Messages) /\ xfer[a] \in Seq(Messages)
      BY DEF I2cTypeOK
    <3>3. /\ msgs[a] # <<>> /\ Len(msgs[a]) <= Len(xfer[a])
          /\ \A i \in 1 .. Len(msgs[a]) : msgs[a][i] = xfer[a][Len(xfer[a]) - Len(msgs[a]) + i]
      BY <2>3 DEF I2cStepInv, Busy, Suffix
    <3>4. Len(msgs[a]) >= 1 /\ msgs[a][1] = xfer[a][Done(a) + 1] /\ Done(a) + 1 \in 1 .. Len(xfer[a])
      <4>1. Len(msgs[a]) \in Nat /\ Len(xfer[a]) \in Nat /\ Len(msgs[a]) >= 1
        BY <3>2, <3>3
      <4>2. 1 \in 1 .. Len(msgs[a])
        BY <4>1
      <4>3. msgs[a][1] = xfer[a][Len(xfer[a]) - Len(msgs[a]) + 1]
        BY <3>3, <4>2
      <4>4. Len(msgs[a]) <= Len(xfer[a])
        BY <3>3
      <4>5. Done(a) = Len(xfer[a]) - Len(msgs[a])
        BY DEF Done
      <4>6. Done(a) + 1 \in 1 .. Len(xfer[a])
        <5>1. \A l, m \in Nat : m >= 1 /\ m <= l => l - m + 1 \in 1 .. l
          OBVIOUS
        <5>. QED
          BY <4>1, <4>4, <4>5, <5>1
      <4>. QED
        BY <4>1, <4>3, <4>5, <4>6
    <3>5. Len(wire[a]) = Done(a) /\ \A i \in 1 .. Len(wire[a]) : wire[a][i] = Truncated(xfer[a][i])
      BY <2>1, <2>2, <2>3 DEF I2cWireInv
    <3>6. /\ Len(wire'[a]) = Done(a) + 1
          /\ \A i \in 1 .. Done(a) : wire'[a][i] = wire[a][i]
          /\ wire'[a][Done(a) + 1] = Truncated(msgs[a][1])
      BY <3>1, <3>2, <3>5, AppendProperties
    <3>7. \A i \in 1 .. Len(wire'[a]) : i <= Len(xfer[a]) /\ wire'[a][i] = Truncated(xfer[a][i])
      <4> TAKE i \in 1 .. Len(wire'[a])
      <4>1. CASE i \in 1 .. Done(a)
        BY <3>2, <3>4, <3>5, <3>6, <4>1
      <4>2. CASE i = Done(a) + 1
        BY <3>4, <3>6, <4>2
      <4>. QED
        BY <3>2, <3>5, <3>6, <4>1, <4>2
    <3>8. Done(a)' = Done(a) /\ Id(a)' = Id(a)
      BY DEF Done, Id
    <3>9. by'[a] = Append(got[a], Id(a))
      BY <2>1, <2>2, <2>3, <3>1 DEF I2cWireInv
    <3>. QED
      BY <2>1, <2>3, <3>6, <3>7, <3>8, <3>9 DEF I2cWireInv
  <2>4. CASE iat[a] # "data"
    <3>1. wire'[a] = wire[a] /\ by'[a] = by[a] /\ (iat[a] = "stop" => ~held'[a])
      BY <1>2, <2>1, <2>4, ExecuteI2c
    <3>. QED
      BY <2>1, <2>2, <2>4, <3>1 DEF I2cWireInv, Done, Busy
  <2>. QED
    BY <2>3, <2>4
<1>3. ASSUME Answer(a) \/ Succeed(a), Clean(a)' PROVE I2cWireInv(a)'
  <2>1. /\ ph[a] \in {"sent", "answered"} /\ dirty' = dirty /\ UNCHANGED <<wire, by, held>>
        /\ ph'[a] # "called"
    BY <1>3 DEF Moves, Issue, Fail, CutShort, Answer, Succeed, TypeOK
  <2>2. Clean(a) /\ Ran(a)
    BY <1>3, <2>1 DEF Clean, Ran
  <2>3. iat[a] # "copy"
    BY DEF I2cStepInv, Busy
  <2>. QED
    BY <2>1, <2>2, <2>3 DEF I2cWireInv, I2cStepInv, Done, Busy, Id
<1>4. ASSUME Fail(a) \/ CutShort(a) PROVE ~Clean(a)'
  BY <1>4 DEF Fail, CutShort, Clean
<1>. QED
  BY <1>1, <1>2, <1>3, <1>4 DEF Moves, I2cWireInv

\* The controller receives the next chunk of the transfer, or its
\* configuration.
LEMMA ExecuteSpi ==
  ASSUME SpiTypeOK, SpiInv, ph[Spi] = "called", SpiExecute(Spi)
  PROVE  /\ ctl' \in Configs \cup {Reset} /\ rcv' \in Seq(Chunks)
         /\ sat = "init" => ctl' = CacheOf(cur) /\ rcv' = rcv
         /\ sat = "data" => ctl' = ctl
         /\ sat = "data" /\ "SPI" \notin cut =>
              /\ Len(rcv') = idx + 1 /\ idx + 1 <= Total
              /\ \A i \in 1 .. idx + 1 : rcv'[i] = ChunksOf(Length(cur))[i]
<1>1. sat \in {"init", "data"}
  BY DEF SpiInv, SpiStepInv
<1>2. CacheOf(cur) \in Configs /\ Length(cur) \in Nat
  BY SpeedFacts DEF SpiTypeOK
<1>3. CASE sat = "init"
  <2>1. ctl' = CacheOf(cur) /\ rcv' = rcv
    BY <1>3 DEF SpiInv, SpiStepInv, SpiExecute, CacheOf
  <2>. QED
    BY <1>2, <1>3, <2>1 DEF SpiTypeOK
<1>4. CASE sat = "data"
  <2>. DEFINE l == Length(cur)
              c == [id |-> idx % IdMod, cmpl |-> Complete, len |-> CurLen]
  <2>1. ctl' = ctl /\ rcv' = Append(rcv, c)
    BY <1>4 DEF SpiInv, SpiStepInv, SpiExecute
  <2>2. idx \in Nat /\ idx < ChunkCount(l) /\ off = idx * MaxChunk
    <3>1. /\ idx \in Nat /\ idx <= Total /\ idx < Total
          /\ off = IF idx = Total THEN Length(cur) ELSE idx * MaxChunk
      BY <1>4 DEF SpiTypeOK, SpiInv, SpiOffsetInv
    <3>2. Total = ChunkCount(Length(cur)) /\ Total \in Nat
      BY <1>2, ChunkFacts DEF Total
    <3>. QED
      BY <3>1, <3>2
  <2>3. c = ChunksOf(l)[idx + 1]
    <3>1. ChunksOf(l)[idx + 1] = [id |-> idx % IdMod, cmpl |-> ~(l - idx * MaxChunk > MaxChunk),
                                  len |-> IF l - idx * MaxChunk > MaxChunk THEN MaxChunk
                                          ELSE l - idx * MaxChunk]
      BY <1>2, <2>2, ChunksFacts
    <3>. QED
      BY <2>2, <3>1 DEF Complete, CurLen, Remaining
  <2>0. l \in Nat
    BY <1>2
  <2>10. "SPI" \notin cut => Len(rcv) = idx /\ \A i \in 1 .. idx : rcv[i] = ChunksOf(l)[i]
    BY <1>4 DEF SpiInv, SpiChunkInv
  <2>. HIDE DEF c, l
  <2>4. ChunkCount(l) \in Nat /\ idx + 1 \in 1 .. ChunkCount(l)
    <3>1. ChunkCount(l) \in Nat
      BY <2>0, ChunkFacts
    <3>. QED
      BY <2>2, <3>1
  <2>5. c \in Chunks
    <3>1. ChunksOf(l) \in Seq(Chunks) /\ Len(ChunksOf(l)) = ChunkCount(l)
      BY <2>0, ChunksFacts
    <3>2. ChunksOf(l)[idx + 1] \in Chunks
      BY <2>4, <3>1
    <3>. QED
      BY <2>3, <3>2
  <2>6. rcv \in Seq(Chunks)
    BY DEF SpiTypeOK
  <2>7. /\ rcv' \in Seq(Chunks) /\ Len(rcv') = Len(rcv) + 1
        /\ \A i \in 1 .. Len(rcv) : rcv'[i] = rcv[i]
        /\ rcv'[Len(rcv) + 1] = c
    BY <2>1, <2>5, <2>6, AppendProperties
  <2>8. ASSUME "SPI" \notin cut PROVE Len(rcv') = idx + 1 /\ \A i \in 1 .. idx + 1 : rcv'[i] = ChunksOf(l)[i]
    <3>1. \A i \in 1 .. idx + 1 : i \in 1 .. idx \/ i = idx + 1
      BY <2>2
    <3>. QED
      BY <2>3, <2>7, <2>8, <2>10, <3>1
  <2>9. idx + 1 <= ChunkCount(l)
    BY <2>2, <2>4
  <2>. QED
    BY <1>4, <2>1, <2>7, <2>8, <2>9 DEF SpiTypeOK, Total, l
<1>. QED
  BY <1>1, <1>3, <1>4

\* The SPI core's call moves on.
LEMMA SpiMoves ==
  ASSUME TypeOK, SpiTypeOK, SpiInv,
         UNCHANGED <<spiDriverVars, probeVars, callVars>>, Moves(Spi), ph[Spi] # "idle", Kept(SpiRm),
         cut \subseteq cut', CutShort(Spi) => "SPI" \in cut',
         \/ ph[Spi] = "called" /\ SpiExecute(Spi) /\ (Issue(Spi) \/ Fail(Spi))
         \/ UNCHANGED <<ctl, rcv>> /\ ~Issue(Spi)
  PROVE  SpiTypeOK' /\ SpiInv'
<1>. USE DEF spiDriverVars, callVars, probeVars
<1>. DEFINE ran == ph[Spi] = "called" /\ SpiExecute(Spi) /\ (Issue(Spi) \/ Fail(Spi))
<1>1. sat \in {"init", "data"} /\ idx \in Nat /\ Length(cur) \in Nat
  BY SpeedFacts DEF SpiInv, SpiStepInv, SpiTypeOK
<1>2. SpiTypeOK'
  BY ExecuteSpi DEF SpiTypeOK
<1>3. SpiStepInv'
  BY ExecuteSpi DEF SpiInv, SpiStepInv, Moves, Kept
<1>4. SpiConfigInv'
  <2>1. (sat \in {"next", "data"} => cache = CacheOf(cur))'
    BY DEF SpiInv, SpiConfigInv, CacheOf
  <2>2. ASSUME Clean(Spi)', n[SpiRm] = 0, ctl' # Reset
        PROVE  ctl' = IF sat = "init" /\ Ran(Spi)' THEN CacheOf(cur) ELSE cache
    <3>1. ~Fail(Spi) /\ ~CutShort(Spi) /\ Clean(Spi)
      BY <2>2 DEF Fail, CutShort, Clean, Moves
    <3>2. Ran(Spi)'
      BY <3>1 DEF Ran, Moves
    <3>3. CASE ran
      BY <1>1, <2>1, <2>2, <3>1, <3>2, <3>3, ExecuteSpi DEF SpiInv, SpiConfigInv, Ran
    <3>4. CASE UNCHANGED <<ctl, rcv>> /\ ~Issue(Spi)
      <4>1. Ran(Spi)
        BY <3>1, <3>4 DEF Ran, Moves
      <4>. QED
        BY <1>1, <2>2, <3>1, <3>2, <3>4, <4>1 DEF SpiInv, SpiConfigInv
    <3>. QED
      BY <3>3, <3>4
  <2>. QED
    BY <2>1, <2>2 DEF SpiConfigInv, Kept, CacheOf
<1>5. SpiOffsetInv' /\ SpiChunkInv'
  <2>1. /\ Total' = Total /\ Length(cur)' = Length(cur) /\ UNCHANGED <<sat, off, idx, sret>>
        /\ cut \subseteq cut'
    BY DEF Total, Length
  <2>2. ph'[Spi] # "called" /\ sret # "ok"
    BY <1>1 DEF Moves, Issue, Fail, Answer, Succeed, TypeOK, SpiInv, SpiStepInv
  <2>5. SpiOffsetInv'
    BY <2>1 DEF SpiInv, SpiOffsetInv
  <2>3. CASE ran
    <3>1. CASE sat = "data"
      BY <2>1, <2>2, <2>3, <2>5, <3>1, ExecuteSpi DEF SpiInv, SpiChunkInv
    <3>2. CASE sat = "init"
      BY <2>1, <2>2, <2>3, <2>5, <3>2, ExecuteSpi DEF SpiInv, SpiChunkInv
    <3>. QED
      BY <1>1, <2>5, <3>1, <3>2
  <2>4. CASE UNCHANGED <<ctl, rcv>> /\ ~Issue(Spi)
    <3>1. CASE CutShort(Spi)
      BY <2>5, <3>1 DEF SpiChunkInv
    <3>2. CASE ~CutShort(Spi)
      <4>1. Ran(Spi)' => Ran(Spi)
        BY <2>4, <3>2 DEF Ran, Moves
      <4>. QED
        BY <2>1, <2>2, <2>4, <2>5, <4>1 DEF SpiInv, SpiChunkInv
    <3>. QED
      BY <3>1, <3>2
  <2>. QED
    BY <2>3, <2>4
<1>. QED
  BY <1>2, <1>3, <1>4, <1>5 DEF SpiInv

\* The call of the removing thread moves on.
LEMMA SpiRmMoves ==
  ASSUME TypeOK, SpiTypeOK, SpiInv,
         UNCHANGED <<spiDriverVars, probeVars, callVars>>, dirty \subseteq dirty', cut \subseteq cut',
         ph[SpiRm] # "idle", Kept(Spi), SpiExecute(SpiRm) \/ UNCHANGED <<ctl, rcv>>
  PROVE  SpiTypeOK' /\ SpiInv'
<1>. USE DEF spiDriverVars, callVars, probeVars
<1>1. n[SpiRm] > 0 /\ cmd[SpiRm] = "SPI_DEINIT"
  BY DEF SpiInv, SpiStepInv
<1>2. rcv' = rcv /\ ctl' \in {ctl, Reset}
  BY <1>1 DEF SpiExecute
<1>3. SpiTypeOK'
  BY <1>2 DEF SpiTypeOK
<1>4. SpiStepInv'
  BY <1>1, <1>2 DEF SpiInv, SpiStepInv, Kept
<1>5. SpiConfigInv'
  BY <1>1 DEF SpiInv, SpiConfigInv, CacheOf, TypeOK
<1>6. SpiOffsetInv' /\ SpiChunkInv'
  <2>1. Total' = Total /\ Length(cur)' = Length(cur) /\ UNCHANGED <<sat, off, idx, sret>>
    BY DEF Total, Length
  <2>. QED
    BY <1>2, <2>1 DEF SpiInv, SpiOffsetInv, SpiChunkInv, Ran, Kept
<1>. QED
  BY <1>3, <1>4, <1>5, <1>6 DEF SpiInv

\* A call of t moves on and its command may be executed.
CallStep(t) ==
  /\ Issue(t) \/ Answer(t) \/ Succeed(t) \/ Fail(t) \/ CutShort(t)
  /\ UNCHANGED Drivers
  /\ fails' \in 0 .. MaxFails
  /\ cut' = cut \/ cut' = cut \cup {StubOf[t]}
  /\ CutShort(t) => StubOf[t] \in cut'
  /\ \/ ph[t] = "called" /\ Execute(t) /\ (Issue(t) \/ Fail(t))
     \/ UNCHANGED Controllers /\ ~Issue(t)

LEMMA CallStepKeeps ==
  ASSUME IInv, NEW t \in Threads, CallStep(t)
  PROVE  IInv'
<1>. USE DEF Drivers, probeVars, pinVars, i2cDriverVars, spiDriverVars, Controllers
<1>1. TypeOK' /\ CallInv'
  BY IssueKeeps, AnswerKeeps, SucceedKeeps, FailKeeps, CutKeeps DEF CallStep, IInv, TypeOKDevice
<1>2. /\ Moves(t) /\ UNCHANGED callVars /\ dirty \subseteq dirty' /\ ph[t] # "idle"
      /\ \A u \in Threads \ {t} : Kept(u)
  BY BridgeMoves DEF CallStep, IInv, TypeOKDevice
<1>3. \A u \in Threads : ph'[u] # "idle" => ph[u] # "idle"
  BY <1>2 DEF Kept
<1>4. ProbeTypeOK' /\ ProbeInv'
  <2>1. ProbeFrame
    BY <1>2, <1>3, ThreadFacts DEF ProbeFrame, CallStep, callVars
  <2>. QED
    BY <2>1, ProbeKept DEF IInv, TypeOKDevice
<1>5. PinTypeOK' /\ PinInv'
  <2>1. PinFrame
    BY <1>2, <1>3, ThreadFacts DEF PinFrame, CallStep, callVars
  <2>2. PinTypeOK'
    BY DEF CallStep, IInv, TypeOKDevice, PinTypeOK
  <2>. QED
    BY <2>1, <2>2, PinKept DEF IInv
<1>6. I2cTypeOK' /\ I2cInv'
  <2>1. UNCHANGED <<i2cDriverVars, devs>>
    BY DEF CallStep
  <2>2. CASE t \in Adapters
    <3>1. /\ I2cTypeOK /\ TypeOK /\ CallInv /\ I2cStepInv(t) /\ I2cWireInv(t)
          /\ \A b \in Adapters : I2cStepInv(b) /\ I2cWireInv(b)
      BY <2>2 DEF IInv, TypeOKDevice, I2cInv
    <3>2. \/ ph[t] = "called" /\ I2cExecute(t)
          \/ UNCHANGED <<wire, by, held>> /\ ~Issue(t)
      BY <2>2 DEF CallStep, Execute
    <3>3. /\ wire' \in [Adapters -> Seq(Messages)] /\ held' \in [Adapters -> BOOLEAN]
          /\ by' \in [Adapters -> Seq(Ids)]
          /\ \A b \in Adapters \ {t} : wire'[b] = wire[b] /\ by'[b] = by[b] /\ held'[b] = held[b]
      BY <2>2, <3>1, <3>2, ExecuteI2c DEF I2cTypeOK
    <3>4. I2cTypeOK'
      BY <2>1, <3>1, <3>3 DEF I2cTypeOK
    <3>5. I2cStepInv(t)' /\ I2cWireInv(t)'
      <4>1. Issue(t) => I2cExecute(t)
        BY <3>2
      <4>2. Answer(t) \/ Succeed(t) => UNCHANGED <<wire, by, held>>
        BY <1>2, <2>2 DEF CallStep, Moves, Answer, Succeed, Issue, Fail, IInv, TypeOKDevice, TypeOK
      <4>. QED
        BY <1>2, <2>1, <2>2, <3>1, <4>1, <4>2, I2cMoves
    <3>6. ASSUME NEW b \in Adapters, b # t PROVE I2cStepInv(b)' /\ I2cWireInv(b)'
      <4>1. I2cFrame(b)
        BY <1>2, <2>1, <3>3, <3>6, ThreadFacts DEF I2cFrame, Kept, callVars
      <4>. QED
        BY <3>1, <4>1, I2cKept
    <3>. QED
      BY <3>4, <3>5, <3>6 DEF I2cInv
  <2>3. CASE t \notin Adapters
    <3>1. UNCHANGED <<wire, by, held>>
      BY <2>3 DEF CallStep, Execute
    <3>2. I2cTypeOK'
      BY <2>1, <3>1 DEF IInv, TypeOKDevice, I2cTypeOK
    <3>3. ASSUME NEW b \in Adapters PROVE I2cStepInv(b)' /\ I2cWireInv(b)'
      <4>1. I2cFrame(b)
        BY <1>2, <2>1, <2>3, <3>1, ThreadFacts DEF I2cFrame, Kept, callVars
      <4>. QED
        BY <4>1, I2cKept DEF IInv, I2cInv
    <3>. QED
      BY <3>2, <3>3 DEF I2cInv
  <2>. QED
    BY <2>2, <2>3
<1>7. SpiTypeOK' /\ SpiInv'
  <2>1. /\ UNCHANGED <<spiDriverVars, probeVars, callVars>> /\ SpiTypeOK /\ SpiInv /\ TypeOK
        /\ cut \subseteq cut'
    BY <1>2 DEF CallStep, IInv, TypeOKDevice
  <2>2. CASE t = Spi
    <3>1. \/ ph[Spi] = "called" /\ SpiExecute(Spi) /\ (Issue(Spi) \/ Fail(Spi))
          \/ UNCHANGED <<ctl, rcv>> /\ ~Issue(Spi)
      BY <2>2 DEF CallStep, Execute
    <3>2. Kept(SpiRm) /\ Moves(Spi) /\ ph[Spi] # "idle"
      BY <1>2, <2>2, ThreadFacts
    <3>3. CutShort(Spi) => "SPI" \in cut'
      BY <2>2, SpiAssumption DEF CallStep
    <3>. QED
      BY <2>1, <3>1, <3>2, <3>3, SpiMoves
  <2>3. CASE t = SpiRm
    <3>1. SpiExecute(SpiRm) \/ UNCHANGED <<ctl, rcv>>
      BY <2>3 DEF CallStep, Execute
    <3>2. Kept(Spi) /\ ph[SpiRm] # "idle"
      BY <1>2, <2>3, ThreadFacts
    <3>. QED
      BY <1>2, <2>1, <3>1, <3>2, SpiRmMoves
  <2>4. CASE t \notin {Spi, SpiRm}
    <3>1. UNCHANGED <<ctl, rcv>>
      BY <2>4 DEF CallStep, Execute
    <3>2. SpiFrame
      BY <1>2, <2>1, <2>4, <3>1, ThreadFacts DEF SpiFrame, Kept
    <3>3. SpiTypeOK'
      BY <2>1, <3>1 DEF SpiTypeOK
    <3>. QED
      BY <2>1, <3>2, <3>3, SpiKept
  <2>. QED
    BY <2>2, <2>3, <2>4
<1>8. (fails \in 0 .. MaxFails)' /\ (cut \subseteq {StubOf[u] : u \in Threads})'
  BY DEF CallStep, IInv, TypeOKDevice
<1>. QED
  BY <1>1, <1>4, <1>5, <1>6, <1>7, <1>8 DEF IInv, TypeOKDevice

LEMMA BridgeKeeps ==
  ASSUME IInv,
         \/ \E t \in Threads : BridgeIssue(t) \/ BridgeFail(t) \/ BridgeCut(t)
         \/ BridgeOther
  PROVE  IInv'
<1>1. ASSUME NEW t \in Threads, BridgeIssue(t) PROVE IInv'
  <2>1. ph[t] = "called" /\ Issue(t) /\ Execute(t) /\ UNCHANGED <<Drivers, Ghosts>>
    BY <1>1 DEF BridgeIssue, Issue
  <2>2. ~CutShort(t)
    <3>1. ph'[t] = "sent"
      BY <2>1 DEF Issue, IInv, TypeOKDevice, TypeOK
    <3>. QED
      BY <3>1 DEF CutShort, Return, IInv, TypeOKDevice, TypeOK
  <2>3. CallStep(t)
    BY <2>1, <2>2 DEF CallStep, Ghosts, IInv, TypeOKDevice
  <2>. QED
    BY <2>3, CallStepKeeps
<1>2. ASSUME NEW t \in Threads, BridgeFail(t) PROVE IInv'
  <2>1. /\ Fail(t) /\ fails' \in 0 .. MaxFails /\ UNCHANGED <<Drivers, cut>>
        /\ IF open' = open THEN UNCHANGED Controllers ELSE Execute(t)
    BY <1>2, BoundsAssumption DEF BridgeFail, IInv, TypeOKDevice
  <2>2. open' # open => ph[t] = "called"
    BY <2>1 DEF Fail
  <2>3. ~Issue(t) /\ ~CutShort(t)
    <3>1. ph'[t] = "idle" /\ ret'[t] = "error"
      BY <2>1 DEF Fail, Return, IInv, TypeOKDevice, TypeOK
    <3>. QED
      BY <3>1 DEF CutShort, Return, Issue, IInv, TypeOKDevice, TypeOK
  <2>4. CallStep(t)
    BY <2>1, <2>2, <2>3 DEF CallStep
  <2>. QED
    BY <2>4, CallStepKeeps
<1>7. ASSUME NEW t \in Threads, BridgeCut(t) PROVE IInv'
  <2>1. /\ CutShort(t) /\ fails' \in 0 .. MaxFails /\ cut' = cut \cup {StubOf[t]}
        /\ UNCHANGED <<Drivers, Controllers>>
    BY <1>7, BoundsAssumption DEF BridgeCut, IInv, TypeOKDevice
  <2>2. ~Issue(t)
    BY <2>1 DEF CutShort, Return, Issue, IInv, TypeOKDevice, TypeOK
  <2>3. CallStep(t)
    BY <2>1, <2>2 DEF CallStep
  <2>. QED
    BY <2>3, CallStepKeeps
<1>3. ASSUME NEW t \in Threads, Answer(t) \/ Succeed(t),
             UNCHANGED <<Drivers, Controllers, Ghosts>>
      PROVE  IInv'
  <2>1. ~Issue(t) /\ ~CutShort(t)
    <3>1. ph[t] # "called"
      BY <1>3 DEF Answer, Succeed
    <3>. QED
      BY <3>1 DEF Issue, CutShort
  <2>2. CallStep(t)
    BY <1>3, <2>1 DEF CallStep, Ghosts, IInv, TypeOKDevice
  <2>. QED
    BY <2>2, CallStepKeeps
<1>4. ASSUME NEW i \in open, LateAnswer(i) \/ Drop(i), UNCHANGED <<Drivers, Controllers, Ghosts>>
      PROVE  IInv'
  <2>. USE DEF Drivers, probeVars, pinVars, i2cDriverVars, spiDriverVars, Controllers, Ghosts
  <2>1. UNCHANGED <<ph, cmd, kind, n, ret, len, dirty>>
    BY <1>4, LateMoves
  <2>2. TypeOK' /\ CallInv'
    BY <1>4, LateKeeps DEF IInv, TypeOKDevice
  <2>3. ProbeTypeOK' /\ ProbeInv'
    <3>1. ProbeFrame
      BY <1>4, <2>1 DEF ProbeFrame
    <3>. QED
      BY <3>1, ProbeKept DEF IInv, TypeOKDevice
  <2>4. PinTypeOK' /\ PinInv'
    <3>1. PinFrame
      BY <1>4, <2>1 DEF PinFrame
    <3>2. PinTypeOK'
      BY <1>4 DEF IInv, TypeOKDevice, PinTypeOK
    <3>. QED
      BY <3>1, <3>2, PinKept DEF IInv
  <2>5. I2cTypeOK' /\ I2cInv'
    <3>1. I2cTypeOK'
      BY <1>4 DEF IInv, TypeOKDevice, I2cTypeOK
    <3>2. ASSUME NEW a \in Adapters PROVE I2cStepInv(a)' /\ I2cWireInv(a)'
      <4>1. I2cFrame(a)
        BY <1>4, <2>1 DEF I2cFrame
      <4>. QED
        BY <4>1, I2cKept DEF IInv, I2cInv
    <3>. QED
      BY <3>1, <3>2 DEF I2cInv
  <2>6. SpiTypeOK' /\ SpiInv'
    <3>1. SpiTypeOK'
      BY <1>4 DEF IInv, TypeOKDevice, SpiTypeOK
    <3>2. SpiFrame
      BY <1>4, <2>1 DEF SpiFrame
    <3>. QED
      BY <3>1, <3>2, SpiKept DEF IInv
  <2>7. (fails \in 0 .. MaxFails)' /\ (cut \subseteq {StubOf[u] : u \in Threads})'
    BY <1>4 DEF IInv, TypeOKDevice
  <2>. QED
    BY <2>2, <2>3, <2>4, <2>5, <2>6, <2>7 DEF IInv, TypeOKDevice
<1>6. CASE BridgeOther
  BY <1>3, <1>4, <1>6 DEF BridgeOther
<1>. QED
  BY <1>1, <1>2, <1>6, <1>7

-----------------------------------------------------------------------------
(* Steps of probe and disconnect.                                          *)

\* What is neither the calls' nor a driver's own is kept by its step.
LEMMA PinOther ==
  ASSUME IInv, NEW t \in Threads \ {Gpio}, NEW d, d # Gpio, DriverStep(t, d), UNCHANGED pinVars
  PROVE  PinTypeOK' /\ PinInv'
<1>1. PinFrame
  BY DriverFrames DEF IInv, TypeOKDevice
<1>2. PinTypeOK'
  BY DEF IInv, TypeOKDevice, PinTypeOK, pinVars
<1>. QED
  BY <1>1, <1>2, PinKept DEF IInv

LEMMA I2cOther ==
  ASSUME IInv, NEW t \in Threads \ Adapters, NEW d, d \notin Adapters, DriverStep(t, d), UNCHANGED i2cVars
  PROVE  I2cTypeOK' /\ I2cInv'
<1>1. \A a \in Adapters : I2cFrame(a)
  BY DriverFrames DEF IInv, TypeOKDevice
<1>2. I2cTypeOK'
  BY DEF IInv, TypeOKDevice, I2cTypeOK, i2cVars
<1>. QED
  BY <1>1, <1>2, I2cKept DEF IInv, I2cInv

LEMMA SpiOther ==
  ASSUME IInv, NEW t \in Threads \ {Spi, SpiRm}, NEW d, d # Spi, DriverStep(t, d),
         UNCHANGED spiVars, cut' = cut
  PROVE  SpiTypeOK' /\ SpiInv'
<1>1. SpiFrame
  BY DriverFrames DEF IInv, TypeOKDevice
<1>2. SpiTypeOK'
  BY DEF IInv, TypeOKDevice, SpiTypeOK, spiVars
<1>. QED
  BY <1>1, <1>2, SpiKept DEF IInv

LEMMA ProbeOther ==
  ASSUME IInv, NEW t \in Threads \ {Mng}, NEW d, DriverStep(t, d), devs' \subseteq devs,
         UNCHANGED <<board, probe, reading, stubs, cells>>
  PROVE  ProbeTypeOK' /\ ProbeInv'
<1>1. ProbeFrame
  BY DriverFrames DEF IInv, TypeOKDevice
<1>. QED
  BY <1>1, ProbeKept DEF IInv, TypeOKDevice

\* The commands and the kinds of stub.
LEMMA NamesFacts ==
  /\ \A k \in 1 .. 4 : ProbeCmds[k] \in Cmds /\ ProbeCmds[k] # "none"
  /\ \A k \in 2 .. 4 : ProbeTypes[k] \in {"GPIO", "I2C", "SPI"} /\ Junk[k] \in AllJunk
  /\ Len(ProbeCmds) = 4
<1>1. /\ ProbeCmds[1] = "MNG_RESET_NOTIFY" /\ ProbeCmds[2] = "MNG_ENUM_GPIO"
      /\ ProbeCmds[3] = "MNG_ENUM_I2C" /\ ProbeCmds[4] = "MNG_ENUM_SPI" /\ Len(ProbeCmds) = 4
  BY DEF ProbeCmds
<1>2. /\ ProbeTypes[2] = "GPIO" /\ ProbeTypes[3] = "I2C" /\ ProbeTypes[4] = "SPI"
      /\ Junk[2] = "junk-gpio" /\ Junk[3] = "junk-i2c" /\ Junk[4] = "junk-spi"
  BY DEF ProbeTypes, Junk
<1>3. \A k \in 1 .. 4 : ProbeCmds[k] \in Cmds /\ ProbeCmds[k] # "none"
  <2> TAKE k \in 1 .. 4
  <2>1. k \in {1, 2, 3, 4}
    OBVIOUS
  <2>. QED
    BY <1>1, <2>1, CmdsAssumption
<1>4. \A k \in 2 .. 4 : ProbeTypes[k] \in {"GPIO", "I2C", "SPI"} /\ Junk[k] \in AllJunk
  <2> TAKE k \in 2 .. 4
  <2>1. k \in {2, 3, 4}
    OBVIOUS
  <2>. QED
    BY <1>2, <2>1 DEF AllJunk
<1>. QED
  BY <1>1, <1>3, <1>4

\* A descriptor of the right type describes announced functions; that is what
\* is read as long as the management stub is clean.
LEMMA DescribedFacts ==
  ASSUME IInv, ph[Mng] = "idle", probe = "call", NEW k \in 2 .. 4, k = n[Mng], DescriptorOk(k)
  PROVE  /\ Described(k) \subseteq {d \in board : TypeOf[d] = ProbeTypes[k]} \cup {Junk[k]}
         /\ Clean(Mng) => Described(k) \subseteq board
<1>2. Described(k) \subseteq {d \in board : TypeOf[d] = ProbeTypes[k]} \cup {Junk[k]}
  BY DEF Described
<1>3. AnswerTo(buf[Mng]) = ProbeCmds[k] /\ ProbeCmds[k] # "none" => Described(k) \subseteq board
  BY DEF Described
<1>4. ASSUME Clean(Mng) PROVE AnswerTo(buf[Mng]) = ProbeCmds[k]
  <2>1. buf[Mng] = Id(Mng)
    BY <1>4, ThreadFacts DEF IInv, CallInv, OwnBuffer, ProbeInv, DescriptorOk
  <2>2. Id(Mng)[2] = k /\ Id(Mng) # None
    <3>1. Id(Mng) \in Ids
      BY ThreadFacts, BoundsAssumption DEF Id, Ids, IInv, TypeOKDevice, TypeOK
    <3>. QED
      BY <3>1, BoundsAssumption DEF Id
  <2>. QED
    BY <2>1, <2>2 DEF AnswerTo
<1>5. ProbeCmds[k] # "none"
  BY NamesFacts
<1>. QED
  BY <1>2, <1>3, <1>4, <1>5

\* What the steps of probe and disconnect do to the calls and the devices.
LEMMA ProbeIsDriver ==
  ASSUME IInv, Probe
  PROVE  DriverStep(Mng, Mng)
<1>1. ASSUME NEW k \in 1 .. 4, Invoke(Mng, ProbeCmds[k], "read"), devs' = devs,
             probe' = probe \/ probe \in Probing
      PROVE  DriverStep(Mng, Mng)
  BY <1>1, NamesFacts DEF DriverStep, Kinds
<1>2. ASSUME UNCHANGED vars, \A e \in devs \cap Threads : e \in devs',
             probe \notin Probing => devs' \subseteq devs /\ probe' \notin Probing
      PROVE  DriverStep(Mng, Mng)
  BY <1>2 DEF DriverStep
<1>3. CASE ProbeFailsEarly \/ DisconnectStop \/ DisconnectState \/ DisconnectFree
  BY <1>2, <1>3 DEF ProbeFailsEarly, DisconnectStop, DisconnectState, DisconnectFree, Probing
<1>4. CASE ProbeStart
  BY <1>1, <1>4 DEF ProbeStart, Probing
<1>5. CASE ResetHandshake
  BY <1>1, <1>2, <1>5 DEF ResetHandshake, ProbeAbort, probeVars, Probing
<1>6. CASE EnumReturn
  <2>1. n[Mng] \in 1 .. 4
    BY <1>6 DEF EnumReturn, IInv, ProbeInv
  <2>2. CASE n[Mng] < 4
    <3>1. n[Mng] + 1 \in 1 .. 4 /\ Invoke(Mng, ProbeCmds[n[Mng] + 1], "read") /\ devs' = devs
          /\ probe \in Probing
      BY <1>6, <2>1, <2>2, NamesFacts DEF EnumReturn, Probing
    <3>. QED
      BY <1>1, <3>1
  <2>3. CASE ~(n[Mng] < 4)
    BY <1>2, <1>6, <2>1, <2>3, NamesFacts DEF EnumReturn, Probing
  <2>. QED
    BY <2>2, <2>3
<1>7. CASE ProbeMfd
  BY <1>2, <1>7 DEF ProbeMfd, ProbeAbort, IInv, ProbeInv, Probing
<1>8. ASSUME NEW d \in devs, RemoveOther(d) PROVE DriverStep(Mng, Mng)
  BY <1>2, <1>8 DEF RemoveOther, Probing
<1>. QED
  BY <1>3, <1>4, <1>5, <1>6, <1>7, <1>8 DEF Probe

LEMMA EnumKeeps ==
  ASSUME IInv, EnumReturn
  PROVE  ProbeTypeOK' /\ ProbeInv'
<1>. DEFINE k == n[Mng]
<1>1. /\ probe = "call" /\ k \in 2 .. 4 /\ ph[Mng] = "idle" /\ devs = {} /\ "MNG" \in stubs
      /\ UNCHANGED <<board, reading, devs>>
  BY DEF EnumReturn, IInv, ProbeInv, Probing
<1>2. /\ dirty' = dirty
      /\ probe' \in {"call", "mfd"}
      /\ probe' = "call" => n'[Mng] \in 1 .. 4 /\ kind'[Mng] = "read"
      /\ ph'[Mng] # "idle" => probe' = "call"
  <2>1. CASE k < 4
    <3>1. Invoke(Mng, ProbeCmds[k + 1], "read") /\ probe' = "call"
      BY <1>1, <2>1, NamesFacts DEF EnumReturn
    <3>2. NewCall(Mng, ProbeCmds[k + 1], "read")
      BY <3>1, InvokeStep, ThreadFacts DEF IInv, TypeOKDevice
    <3>. QED
      BY <1>1, <2>1, <3>1, <3>2 DEF NewCall
  <2>2. CASE ~(k < 4)
    BY <1>1, <2>2, NamesFacts DEF EnumReturn, vars
  <2>. QED
    BY <2>1, <2>2
<1>3. /\ stubs \subseteq stubs' /\ stubs' \subseteq stubs \cup {"GPIO", "I2C", "SPI"}
      /\ \A d \in cells' \ cells : (d \in board /\ TypeOf[d] \in stubs') \/ d = Junk[k]
      /\ Clean(Mng) => \A d \in cells' \ cells : d \in board
  <2>1. CASE UNCHANGED <<stubs, cells>>
    BY <2>1
  <2>2. CASE DescriptorOk(k) /\ StubInit(k)
    <3>1. PICK new \in SUBSET Described(k) : cells' = cells \cup new
      BY <2>2 DEF StubInit
    <3>2. stubs' = stubs \cup {ProbeTypes[k]} /\ ProbeTypes[k] \in {"GPIO", "I2C", "SPI"}
      BY <1>1, <2>2, NamesFacts DEF StubInit
    <3>. QED
      BY <1>1, <2>2, <3>1, <3>2, DescribedFacts
  <2>. QED
    BY <2>1, <2>2 DEF EnumReturn
<1>. HIDE DEF k
<1>4. board \subseteq Functions /\ Junk[k] \in AllJunk /\ AllJunk \cap Functions = {}
  BY <1>1, NamesFacts, FunctionsAssumption, JunkAssumption DEF IInv, TypeOKDevice, ProbeTypeOK, Functions, AllJunk
<1>5. ProbeTypeOK'
  BY <1>1, <1>2, <1>3, <1>4 DEF IInv, TypeOKDevice, ProbeTypeOK
<1>6. CellsAnnounced'
  BY <1>1, <1>2, <1>3, ThreadFacts DEF IInv, ProbeInv, CellsAnnounced
<1>7. \A d \in cells' \ AllJunk : TypeOf[d] \in stubs'
  BY <1>3, <1>4 DEF IInv, ProbeInv
<1>. QED
  BY <1>1, <1>2, <1>3, <1>5, <1>6, <1>7 DEF ProbeInv

LEMMA ProbeKeeps ==
  ASSUME IInv, Probe
  PROVE  ProbeTypeOK' /\ ProbeInv'
<1>1. dirty' = dirty
  BY ProbeIsDriver, DriverCalls, ThreadFacts DEF IInv, TypeOKDevice
<1>2. ASSUME UNCHANGED vars PROVE n'[Mng] = n[Mng] /\ ph'[Mng] = ph[Mng]
  BY <1>2 DEF vars
<1>3. CASE ProbeFailsEarly \/ DisconnectStop \/ DisconnectState \/ DisconnectFree
  <2>1. CASE ProbeFailsEarly
    BY <1>1, <1>2, <2>1
       DEF ProbeFailsEarly, IInv, TypeOKDevice, ProbeTypeOK, ProbeInv, Probing, CellsAnnounced
  <2>2. CASE DisconnectStop
    BY <1>1, <1>2, <2>2
       DEF DisconnectStop, IInv, TypeOKDevice, ProbeTypeOK, ProbeInv, Probing, CellsAnnounced
  <2>4. CASE DisconnectState
    BY <1>1, <1>2, <2>4
       DEF DisconnectState, IInv, TypeOKDevice, ProbeTypeOK, ProbeInv, Probing, CellsAnnounced
  <2>3. CASE DisconnectFree
    <3>1. cells' = {} /\ devs' = {} /\ probe' = "gone" /\ ph'[Mng] = "idle" /\ stubs' = {}
      BY <1>2, <2>3 DEF DisconnectFree, IInv, ProbeInv, Probing
    <3>2. reading' = FALSE /\ board' = board
      BY <2>3 DEF DisconnectFree, IInv, ProbeInv, TypeOKDevice, ProbeTypeOK
    <3>3. ProbeTypeOK'
      <4>1. board' \in Boards \cup Ready
        BY <3>2 DEF IInv, TypeOKDevice, ProbeTypeOK
      <4>. QED
        BY <3>1, <3>2, <4>1 DEF ProbeTypeOK
    <3>4. CellsAnnounced'
      <4>1. \A x : x \notin cells'
        BY <3>1
      <4>. QED
        BY <4>1 DEF CellsAnnounced
    <3>. QED
      BY <3>1, <3>2, <3>3, <3>4 DEF ProbeInv
  <2>. QED
    BY <1>3, <2>1, <2>2, <2>3, <2>4
<1>4. CASE ProbeStart
  <2>1. NewCall(Mng, ProbeCmds[1], "read")
    BY <1>4, InvokeStep, ThreadFacts DEF ProbeStart, IInv, TypeOKDevice
  <2>2. n'[Mng] = 1 /\ kind'[Mng] = "read"
    BY <1>4, <2>1 DEF NewCall, ProbeStart, IInv, ProbeInv, Probing
  <2>. QED
    <3>1. /\ probe = "start" /\ probe' = "call" /\ reading' = TRUE /\ stubs = {} /\ stubs' = {"MNG"}
          /\ devs = {} /\ UNCHANGED <<board, cells, devs>>
      BY <1>4 DEF ProbeStart, IInv, ProbeInv, Probing
    <3>2. ProbeTypeOK'
      BY <3>1 DEF IInv, TypeOKDevice, ProbeTypeOK
    <3>. QED
      BY <1>1, <2>2, <3>1, <3>2 DEF IInv, ProbeInv, Probing, CellsAnnounced
<1>5. ASSUME ProbeAbort, probe \in {"call", "mfd"}, ph[Mng] = "idle" PROVE ProbeTypeOK' /\ ProbeInv'
  BY <1>1, <1>2, <1>5, NamesFacts DEF ProbeAbort, IInv, TypeOKDevice, ProbeTypeOK, ProbeInv, Probing, CellsAnnounced
<1>6. CASE ResetHandshake
  <2>1. CASE ProbeAbort
    BY <1>5, <1>6, <2>1 DEF ResetHandshake
  <2>2. CASE Invoke(Mng, ProbeCmds[2], "read") /\ UNCHANGED probeVars
    <3>1. NewCall(Mng, ProbeCmds[2], "read")
      BY <2>2, InvokeStep, ThreadFacts DEF IInv, TypeOKDevice
    <3>2. n'[Mng] = 2 /\ kind'[Mng] = "read" /\ probe = "call"
      BY <1>6, <3>1 DEF NewCall, ResetHandshake
    <3>. QED
      BY <1>1, <2>2, <3>2 DEF probeVars, IInv, TypeOKDevice, ProbeTypeOK, ProbeInv, Probing, CellsAnnounced
  <2>. QED
    BY <1>6, <2>1, <2>2 DEF ResetHandshake
<1>7. CASE EnumReturn
  BY <1>7, EnumKeeps
<1>8. CASE ProbeMfd
  <2>1. probe = "mfd" /\ ph[Mng] = "idle"
    BY <1>8 DEF ProbeMfd, IInv, ProbeInv, Probing
  <2>2. CASE ProbeAbort
    BY <1>5, <2>1, <2>2
  <2>3. CASE ~ProbeAbort
    BY <1>1, <1>2, <1>8, <2>1, <2>3 DEF ProbeMfd, IInv, TypeOKDevice, ProbeTypeOK, ProbeInv, Probing, CellsAnnounced
  <2>. QED
    BY <2>2, <2>3
<1>9. ASSUME NEW d \in devs, RemoveOther(d) PROVE ProbeTypeOK' /\ ProbeInv'
  BY <1>1, <1>2, <1>9 DEF RemoveOther, IInv, TypeOKDevice, ProbeTypeOK, ProbeInv, Probing, CellsAnnounced
<1>. QED
  BY <1>3, <1>4, <1>6, <1>7, <1>8, <1>9 DEF Probe

-----------------------------------------------------------------------------
(* Steps of the callers of pins.                                           *)

LEMMA PinsIsDriver ==
  ASSUME IInv, GpioPins
  PROVE  /\ DriverStep(Gpio, Gpio) /\ devs' \subseteq devs
         /\ UNCHANGED <<board, probe, reading, stubs, cells>>
<1>1. ASSUME NEW g \in Callers, NEW o \in PinOps, NEW out \in BOOLEAN, PinBegin(g, o, out)
      PROVE  UNCHANGED vars /\ UNCHANGED probeVars
  BY <1>1 DEF PinBegin
<1>2. ASSUME NEW g \in Callers, PinReturn(g) \/ PinValue(g)
      PROVE  UNCHANGED vars /\ UNCHANGED probeVars
  BY <1>2 DEF PinReturn, PinValue
<1>3. ASSUME UNCHANGED vars /\ UNCHANGED probeVars
      PROVE  DriverStep(Gpio, Gpio) /\ devs' \subseteq devs /\ UNCHANGED <<board, probe, reading, stubs, cells>>
  BY <1>3 DEF DriverStep, probeVars
<1>4. ASSUME NEW g \in Callers, PinCall(g)
      PROVE  DriverStep(Gpio, Gpio) /\ devs' \subseteq devs /\ UNCHANGED <<board, probe, reading, stubs, cells>>
  <2>1. gop[g] \in Cmds
    BY <1>4, CmdsAssumption DEF PinCall, IInv, PinInv, PinOps
  <2>2. \E k \in Kinds : Invoke(Gpio, gop[g], k)
    BY <1>4 DEF PinCall, Kinds
  <2>. QED
    BY <1>4, <2>1, <2>2 DEF DriverStep, PinCall, probeVars
<1>5. CASE PinRemove
  BY <1>5 DEF PinRemove, DriverStep
<1>. QED
  BY <1>1, <1>2, <1>3, <1>4, <1>5 DEF GpioPins

\* On a stub where no call failed, ibuf grows, and an accepted read is the call's own.
LEMMA ReceivedFacts ==
  ASSUME IInv, NEW g \in Callers, gat[g] = "call", ph[Gpio] = "idle"
  PROVE  /\ Received \in 0 .. MaxCalls
         /\ Clean(Gpio) => ibuf <= Received /\ Received <= n[Gpio]
         /\ Clean(Gpio) /\ gop[g] = "GPIO_READ" /\ ReadOk => Received = mine[g]
<1>1. /\ ibuf \in 0 .. MaxCalls /\ n[Gpio] \in 0 .. MaxCalls /\ MaxCalls \in Nat
      /\ buf[Gpio] \in Ids \cup {None}
  BY ThreadFacts, BoundsAssumption DEF IInv, TypeOKDevice, TypeOK, PinTypeOK
<1>2. Received \in 0 .. MaxCalls
  BY <1>1 DEF Received, Ids
<1>3. Clean(Gpio) => OwnBuffer(Gpio) /\ ibuf <= n[Gpio]
  BY ThreadFacts DEF IInv, CallInv, PinInv
<1>4. Id(Gpio)[2] = n[Gpio]
  BY DEF Id
<1>5. Clean(Gpio) => ibuf <= Received /\ Received <= n[Gpio]
  BY <1>1, <1>3, <1>4 DEF Received, OwnBuffer
<1>6. ASSUME Clean(Gpio), gop[g] = "GPIO_READ", ReadOk PROVE Received = mine[g]
  <2>1. n[Gpio] >= 1
    BY <1>1, <1>2, <1>5, <1>6 DEF ReadOk
  <2>2. Id(Gpio) \in Ids
    BY <1>1, <2>1, ThreadFacts DEF Id, Ids
  <2>3. buf[Gpio] = Id(Gpio) /\ mine[g] = n[Gpio]
    BY <1>3, <1>6 DEF OwnBuffer, ReadOk, IInv, PinInv
  <2>. QED
    BY <1>4, <2>2, <2>3, BoundsAssumption DEF Received
<1>. QED
  BY <1>2, <1>5, <1>6

LEMMA PinKeeps ==
  ASSUME IInv, GpioPins
  PROVE  PinTypeOK' /\ PinInv'
<1>. USE DEF IInv, TypeOKDevice
<1>0. /\ n[Gpio] \in Nat /\ MaxCalls \in Nat /\ None \notin Callers
      /\ ibuf \in 0 .. MaxCalls
  BY ThreadFacts, BoundsAssumption, GpioAssumption DEF TypeOK, PinTypeOK
<1>1. ASSUME NEW g \in Callers, NEW o \in PinOps, NEW out \in BOOLEAN, PinBegin(g, o, out)
      PROVE  PinTypeOK' /\ PinInv'
  <2>1. PinTypeOK'
    BY <1>0, <1>1 DEF PinBegin, PinTypeOK
  <2>2. UNCHANGED <<ph, n, kind, dirty, devs>> /\ (g \notin Works => Gpio \in devs)
    BY <1>1 DEF PinBegin, Reachable, vars, probeVars
  <2>. QED
    BY <1>1, <2>1, <2>2 DEF PinBegin, PinTypeOK, PinInv, ValueNotStale, Clean
<1>2. ASSUME NEW g \in Callers, PinCall(g) PROVE PinTypeOK' /\ PinInv'
  <2>. DEFINE k == IF gop[g] = "GPIO_READ" THEN "read" ELSE "ack"
  <2>1. Invoke(Gpio, gop[g], k)
    BY <1>2 DEF PinCall
  <2>2. NewCall(Gpio, gop[g], k)
    BY <2>1, InvokeStep, ThreadFacts
  <2>3. n'[Gpio] = n[Gpio] + 1 /\ n[Gpio] + 1 \in 0 .. MaxCalls /\ kind'[Gpio] = k /\ dirty' = dirty
    BY <1>0, <2>1, <2>2 DEF NewCall, Invoke, Call, Refuse, Begin
  <2>4. PinTypeOK'
    BY <1>2, <2>3 DEF PinCall, PinTypeOK
  <2>5. devs' = devs /\ \A h \in Callers : gat[h] # "call"
    BY <1>0, <1>2 DEF PinCall, probeVars, PinInv
  <2>6. /\ gat' = [gat EXCEPT ![g] = "call"] /\ mine' = [mine EXCEPT ![g] = n[Gpio] + 1]
        /\ trans_lock' = g /\ gat[g] = "lock" /\ UNCHANGED <<gop, gout, gret, value, ibuf>>
    BY <1>2 DEF PinCall
  <2>. QED
    BY <1>0, <2>3, <2>4, <2>5, <2>6 DEF PinTypeOK, PinInv, ValueNotStale, Clean
<1>3. ASSUME NEW g \in Callers, PinReturn(g) PROVE PinTypeOK' /\ PinInv'
  <2>1. /\ gat[g] = "call" /\ ph[Gpio] = "idle" /\ ibuf' = Received
        /\ UNCHANGED <<ph, n, kind, dirty, devs, value, mine, gout>>
    BY <1>3 DEF PinReturn, vars, probeVars
  <2>2. \E to \in {"read", "idle", "lock"}, r \in {"none", "ok", "error"} :
          /\ PinEnd(g, to, r)
          /\ to = "read" => gop[g] = "GPIO_READ" /\ ReadOk
          /\ to = "idle" /\ gop[g] = "GPIO_READ" => r = "error"
          /\ gop' \in {gop, [gop EXCEPT ![g] = "GPIO_WRITE"]} /\ (gop' = gop \/ to = "lock")
    <3>1. ret[Gpio] \in {"none", "ok", "error"}
      BY ThreadFacts DEF TypeOK
    <3>. QED
      BY <1>3, <3>1 DEF PinReturn
  <2>3. PICK to \in {"read", "idle", "lock"}, r \in {"none", "ok", "error"} :
          /\ gat' = [gat EXCEPT ![g] = to] /\ gret' = [gret EXCEPT ![g] = r] /\ trans_lock' = None
          /\ to = "read" => gop[g] = "GPIO_READ" /\ ReadOk
          /\ to = "idle" /\ gop[g] = "GPIO_READ" => r = "error"
          /\ gop' \in {gop, [gop EXCEPT ![g] = "GPIO_WRITE"]} /\ (gop' = gop \/ to = "lock")
    BY <2>2 DEF PinEnd
  <2>4. PinTypeOK'
    BY <2>1, <2>3, ReceivedFacts DEF PinTypeOK, PinOps
  <2>5. (\A h \in Callers : h # g => gat[h] # "call") /\ gop[g] \in PinOps
    BY <2>1 DEF PinInv
  <2>6. (\A h \in Callers : gat[h] = "call" <=> trans_lock = h)'
    BY <1>0, <2>3, <2>5 DEF PinTypeOK
  <2>7. (\A h \in Callers : gat[h] # "idle" => gop[h] \in PinOps /\ (h \notin Works => Gpio \in devs))'
    BY <2>1, <2>3, <2>5 DEF PinTypeOK, PinInv, PinOps
  <2>8. \A h \in Callers : gat'[h] # "call"
    BY <2>3, <2>5 DEF PinTypeOK
  <2>9. ASSUME Clean(Gpio)'
        PROVE  ibuf' <= n'[Gpio] /\ \A h \in Callers : gat'[h] = "read" => ibuf' >= mine'[h]
    <3>1. Clean(Gpio)
      BY <2>1, <2>9 DEF Clean
    <3>2. ibuf <= ibuf' /\ ibuf' <= n'[Gpio] /\ ibuf' \in Nat
      BY <1>0, <2>1, <3>1, ReceivedFacts
    <3>3. ASSUME NEW h \in Callers, gat'[h] = "read" PROVE ibuf' >= mine'[h]
      <4>1. CASE h = g
        BY <2>1, <2>3, <3>1, <3>2, <3>3, <4>1, ReceivedFacts DEF PinTypeOK
      <4>2. CASE h # g
        <5>1. ibuf >= mine[h] /\ mine[h] \in Nat
          BY <1>0, <2>3, <3>1, <3>3, <4>2 DEF PinTypeOK, PinInv
        <5>. QED
          BY <1>0, <2>1, <3>2, <5>1
      <4>. QED
        BY <4>1, <4>2
    <3>. QED
      BY <3>2, <3>3
  <2>10. ValueNotStale'
    BY <2>1, <2>3 DEF PinTypeOK, PinInv, ValueNotStale, Clean
  <2>. QED
    BY <2>1, <2>4, <2>6, <2>7, <2>8, <2>9, <2>10 DEF PinInv
<1>4. ASSUME NEW g \in Callers, PinValue(g) PROVE PinTypeOK' /\ PinInv'
  <2>1. PinTypeOK'
    BY <1>4 DEF PinValue, PinTypeOK
  <2>2. UNCHANGED <<ph, n, kind, dirty, devs>>
    BY <1>4 DEF PinValue, vars, probeVars
  <2>. QED
    BY <1>4, <2>1, <2>2 DEF PinValue, PinTypeOK, PinInv, ValueNotStale, Clean
<1>5. CASE PinRemove
  <2>1. PinTypeOK'
    BY <1>5 DEF PinRemove, PinTypeOK, pinVars
  <2>. QED
    BY <1>5, <2>1 DEF PinRemove, pinVars, vars, PinInv, ValueNotStale, Clean
<1>. QED
  BY <1>1, <1>2, <1>3, <1>4, <1>5 DEF GpioPins

-----------------------------------------------------------------------------
(* Steps of the I2C driver.                                                *)

I2cStep(a) ==
  \/ I2cProbe(a) \/ I2cProbeReturn(a) \/ I2cRemove(a)
  \/ \E x \in I2cXfers : I2cXfer(a, x)
  \/ I2cStartReturn(a) \/ I2cDataReturn(a) \/ I2cCopy(a) \/ I2cStopReturn(a)

LEMMA I2cIsDriver ==
  ASSUME NEW a \in Adapters, I2cStep(a)
  PROVE  /\ DriverStep(a, a) /\ devs' \subseteq devs
         /\ UNCHANGED <<board, probe, reading, stubs, cells>>
<1>1. ASSUME UNCHANGED probeVars,
             UNCHANGED vars \/ \E c \in Cmds, k \in Kinds : Invoke(a, c, k) \/ Refuse(a, c, k)
      PROVE  /\ DriverStep(a, a) /\ devs' \subseteq devs
             /\ UNCHANGED <<board, probe, reading, stubs, cells>>
  BY <1>1 DEF DriverStep, probeVars
<1>2. {"I2C_INIT", "I2C_START", "I2C_STOP", "I2C_READ", "I2C_WRITE"} \subseteq Cmds
      /\ {"read", "ack"} \subseteq Kinds
  BY CmdsAssumption DEF Kinds
<1>3. CASE I2cProbe(a)
  BY <1>1, <1>2, <1>3 DEF I2cProbe
<1>4. CASE I2cProbeReturn(a)
  BY <1>1, <1>4 DEF I2cProbeReturn
<1>5. CASE I2cRemove(a)
  BY <1>5 DEF I2cRemove, DriverStep
<1>6. ASSUME NEW x \in I2cXfers, I2cXfer(a, x) PROVE I2cXfer(a, x) /\ UNCHANGED probeVars
      /\ Invoke(a, "I2C_START", "read")
  BY <1>6 DEF I2cXfer, Command
<1>7. CASE I2cStartReturn(a)
  <2>1. UNCHANGED probeVars
    BY <1>7 DEF I2cStartReturn
  <2>2. CASE XferFail(a)
    BY <1>1, <2>1, <2>2 DEF XferFail, XferEnd
  <2>3. CASE I2cData(a, Truncated(Head(msgs[a])))
    BY <1>1, <1>2, <2>1, <2>3 DEF I2cData
  <2>. QED
    BY <1>7, <2>2, <2>3 DEF I2cStartReturn
<1>8. CASE I2cDataReturn(a)
  <2>1. UNCHANGED probeVars
    BY <1>8 DEF I2cDataReturn
  <2>2. CASE XferFail(a)
    BY <1>1, <2>1, <2>2 DEF XferFail, XferEnd
  <2>3. CASE Command(a, "stop", "I2C_STOP")
    BY <1>1, <1>2, <2>1, <2>3 DEF Command
  <2>4. CASE UNCHANGED vars
    BY <1>1, <2>1, <2>4
  <2>. QED
    BY <1>8, <2>2, <2>3, <2>4 DEF I2cDataReturn
<1>10. CASE I2cCopy(a)
  BY <1>1, <1>2, <1>10 DEF I2cCopy, Command
<1>9. CASE I2cStopReturn(a)
  <2>1. UNCHANGED probeVars
    BY <1>9 DEF I2cStopReturn
  <2>2. CASE UNCHANGED vars
    BY <1>1, <2>1, <2>2
  <2>3. CASE Invoke(a, "I2C_START", "read")
    BY <1>1, <1>2, <2>1, <2>3
  <2>. QED
    BY <1>9, <2>2, <2>3 DEF I2cStopReturn, XferFail, XferEnd, Command
<1>. QED
  BY <1>1, <1>2, <1>3, <1>4, <1>5, <1>6, <1>7, <1>8, <1>9, <1>10 DEF I2cStep

LEMMA I2cOwnOnly ==
  ASSUME I2cTypeOK, NEW a \in Adapters, I2cStep(a), NEW b \in Adapters, b # a
  PROVE  /\ iat'[b] = iat[b] /\ msgs'[b] = msgs[b] /\ iret'[b] = iret[b] /\ xfer'[b] = xfer[b]
         /\ got'[b] = got[b] /\ wire'[b] = wire[b] /\ by'[b] = by[b] /\ held'[b] = held[b]
<1>. USE DEF I2cTypeOK
<1>1. CASE I2cProbe(a) \/ I2cProbeReturn(a) \/ I2cRemove(a)
  BY <1>1 DEF I2cProbe, I2cProbeReturn, I2cRemove
<1>2. ASSUME NEW x \in I2cXfers, I2cXfer(a, x)
      PROVE  /\ iat'[b] = iat[b] /\ msgs'[b] = msgs[b] /\ iret'[b] = iret[b] /\ xfer'[b] = xfer[b]
             /\ got'[b] = got[b] /\ wire'[b] = wire[b] /\ by'[b] = by[b] /\ held'[b] = held[b]
  BY <1>2 DEF I2cXfer, Command
<1>3. CASE I2cStartReturn(a)
  BY <1>3 DEF I2cStartReturn, XferFail, XferEnd, I2cData
<1>4. CASE I2cDataReturn(a)
  BY <1>4 DEF I2cDataReturn, XferFail, XferEnd, Command
<1>5. CASE I2cStopReturn(a)
  BY <1>5 DEF I2cStopReturn, XferFail, XferEnd, Command
<1>6. CASE I2cCopy(a)
  BY <1>6 DEF I2cCopy, Command
<1>. QED
  BY <1>1, <1>2, <1>3, <1>4, <1>5, <1>6 DEF I2cStep

\* What a driver's new call means for the parts about it.
LEMMA CalledFacts ==
  ASSUME TypeOK, NEW t \in Threads, NEW c, NEW k, Invoke(t, c, k) \/ Refuse(t, c, k)
  PROVE  ~Ran(t)' /\ cmd'[t] = c /\ kind'[t] = k /\ dirty' = dirty
BY InvokeStep DEF NewCall, Ran

LEMMA XferFailKeeps ==
  ASSUME IInv, NEW a \in Adapters, XferFail(a), UNCHANGED <<probeVars, held, i2cs>>,
         iat[a] \in Busy, ph[a] = "idle"
  PROVE  I2cTypeOK' /\ I2cStepInv(a)' /\ I2cWireInv(a)'
<1>1. a \in devs /\ I2cTypeOK
  BY DEF IInv, TypeOKDevice, I2cInv, I2cStepInv, Busy
<1>2. /\ iat'[a] = "idle" /\ iret'[a] = "error" /\ wire'[a] = <<>>
      /\ ph'[a] = "idle" /\ a \in devs'
  BY <1>1 DEF XferFail, XferEnd, I2cTypeOK, probeVars, vars
<1>3. I2cTypeOK'
  BY <1>1 DEF XferFail, XferEnd, I2cTypeOK
<1>. QED
  BY <1>2, <1>3 DEF I2cStepInv, I2cWireInv, Busy

\* The answer taken for a message on a clean stub is that of the call that
\* moved it.
LEMMA TakenKeeps ==
  ASSUME IInv, NEW a \in Adapters, iat[a] \in {"data", "copy"}, ph[a] = "idle", Ran(a), devs' = devs,
         UNCHANGED <<msgs, iret, xfer, wire, by, held, i2cs>>,
         got' = [got EXCEPT ![a] = Append(@, buf[a])],
         iat' = [iat EXCEPT ![a] = "stop"], Invoke(a, "I2C_STOP", "read")
  PROVE  I2cTypeOK' /\ I2cStepInv(a)' /\ I2cWireInv(a)'
<1>0. I2cTypeOK /\ TypeOK /\ I2cStepInv(a) /\ I2cWireInv(a) /\ a \in Threads
  BY ThreadFacts DEF IInv, TypeOKDevice, I2cInv
<1>1. ~Ran(a)' /\ cmd'[a] = "I2C_STOP" /\ kind'[a] = "read" /\ dirty' = dirty
  BY <1>0, CalledFacts
<1>2. iat'[a] = "stop" /\ Done(a)' = Done(a) /\ got'[a] = Append(got[a], buf[a])
  BY <1>0 DEF I2cTypeOK, Done
<1>3. Append(got[a], buf[a]) \in Seq(Ids \cup {None})
  BY <1>0, AppendProperties DEF TypeOK, I2cTypeOK
<1>4. I2cTypeOK'
  BY <1>0, <1>3 DEF I2cTypeOK
<1>5. I2cStepInv(a)'
  BY <1>0, <1>1, <1>2 DEF I2cStepInv, Busy
<1>6. ASSUME Clean(a) PROVE by[a] = got'[a] /\ Len(wire[a]) = Done(a) + 1
  <2>1. kind[a] = "read" /\ ret[a] = "ok"
    BY <1>0 DEF I2cStepInv, Busy, Ran
  <2>2. buf[a] = Id(a)
    BY <1>0, <1>6, <2>1 DEF IInv, CallInv, OwnBuffer
  <2>. QED
    BY <1>0, <1>2, <1>6, <2>2 DEF I2cWireInv
<1>7. I2cWireInv(a)'
  <2>1. Clean(a)' => Clean(a)
    BY <1>1 DEF Clean
  <2>. QED
    BY <1>0, <1>1, <1>2, <1>6, <2>1 DEF I2cWireInv
<1>. QED
  BY <1>4, <1>5, <1>7

LEMMA TailFacts ==
  ASSUME NEW s \in Seq(Messages), NEW x \in Seq(Messages), s # <<>>, Suffix(s, x)
  PROVE  /\ Tail(s) \in Seq(Messages) /\ Len(Tail(s)) = Len(s) - 1 /\ Len(s) >= 1
         /\ Suffix(Tail(s), x)
<1>1. Tail(s) \in Seq(Messages) /\ Len(Tail(s)) = Len(s) - 1 /\ Len(s) >= 1
      /\ Len(s) \in Nat /\ Len(x) \in Nat
  OBVIOUS
<1>2. \A i \in 1 .. Len(Tail(s)) : Tail(s)[i] = s[i + 1]
  OBVIOUS
<1>3. ASSUME NEW i \in 1 .. Len(Tail(s)) PROVE Tail(s)[i] = x[Len(x) - Len(Tail(s)) + i]
  <2>1. i + 1 \in 1 .. Len(s) /\ Len(x) - Len(s) + (i + 1) = Len(x) - Len(Tail(s)) + i
    BY <1>1
  <2>2. s[i + 1] = x[Len(x) - Len(s) + (i + 1)]
    BY <2>1 DEF Suffix
  <2>. QED
    BY <1>2, <2>1, <2>2
<1>. QED
  BY <1>1, <1>3 DEF Suffix

LEMMA I2cStepKeeps ==
  ASSUME IInv, NEW a \in Adapters, I2cStep(a)
  PROVE  I2cTypeOK' /\ I2cStepInv(a)' /\ I2cWireInv(a)'
<1>0. I2cTypeOK /\ TypeOK /\ I2cStepInv(a) /\ I2cWireInv(a) /\ a \in Threads
      /\ I2cXfers \subseteq Seq(Messages) \ {<<>>} /\ MaxI2c \in Nat
  BY ThreadFacts, I2cXfersAssumption, I2cWidthAssumption DEF IInv, TypeOKDevice, I2cInv
<1>1. CASE I2cProbe(a)
  <2>1. Invoke(a, "I2C_INIT", "ack") /\ iat[a] = "off" /\ a \in devs /\ devs' = devs
    BY <1>1 DEF I2cProbe, probeVars
  <2>2. ~Ran(a)' /\ cmd'[a] = "I2C_INIT"
    BY <1>0, <2>1, CalledFacts
  <2>3. I2cTypeOK'
    BY <1>0, <1>1 DEF I2cProbe, I2cTypeOK
  <2>4. /\ iat'[a] = "init" /\ iret'[a] = iret[a] /\ wire'[a] = wire[a] /\ xfer'[a] = xfer[a]
        /\ dirty' = dirty
    BY <1>0, <1>1, <2>1, CalledFacts DEF I2cProbe, I2cTypeOK
  <2>. QED
    BY <1>0, <2>1, <2>2, <2>3, <2>4 DEF I2cStepInv, I2cWireInv, Busy, Clean
<1>2. CASE I2cProbeReturn(a)
  <2>1. I2cTypeOK'
    BY <1>0, <1>2 DEF I2cProbeReturn, I2cTypeOK
  <2>2. /\ iat'[a] \in {"idle", "unbound"} /\ iat[a] = "init" /\ ph'[a] = "idle" /\ devs' = devs /\ dirty' = dirty
        /\ iret' = iret /\ got' = got /\ wire' = wire /\ by' = by /\ xfer' = xfer
    BY <1>0, <1>2 DEF I2cProbeReturn, I2cTypeOK, vars, probeVars
  <2>. QED
    BY <1>0, <2>1, <2>2 DEF I2cStepInv, I2cWireInv, Busy, Clean
<1>3. CASE I2cRemove(a)
  <2>1. I2cTypeOK'
    BY <1>0, <1>3 DEF I2cRemove, I2cTypeOK
  <2>2. /\ iat'[a] = "gone" /\ iat[a] \in {"off", "idle", "unbound"} /\ ph' = ph /\ dirty' = dirty
        /\ got' = got /\ wire' = wire /\ xfer' = xfer
    BY <1>0, <1>3 DEF I2cRemove, I2cTypeOK, vars
  <2>. QED
    BY <1>0, <2>1, <2>2 DEF I2cStepInv, I2cWireInv, Busy, Clean
<1>4. ASSUME NEW x \in I2cXfers, I2cXfer(a, x) PROVE I2cTypeOK' /\ I2cStepInv(a)' /\ I2cWireInv(a)'
  <2>1. /\ Invoke(a, "I2C_START", "read") /\ iat[a] = "idle" /\ devs' = devs
        /\ iat' = [iat EXCEPT ![a] = "start"] /\ msgs' = [msgs EXCEPT ![a] = x]
        /\ xfer' = [xfer EXCEPT ![a] = x] /\ wire' = [wire EXCEPT ![a] = <<>>]
        /\ got' = [got EXCEPT ![a] = <<>>] /\ by' = [by EXCEPT ![a] = <<>>]
        /\ iret' = [iret EXCEPT ![a] = "none"]
        /\ held' = held /\ i2cs' = i2cs + Len(x) /\ i2cs + Len(x) <= MaxI2c
    BY <1>4 DEF I2cXfer, Command, probeVars
  <2>2. ~Ran(a)' /\ cmd'[a] = "I2C_START" /\ kind'[a] = "read"
    BY <1>0, <2>1, CalledFacts
  <2>3. x \in Seq(Messages) /\ x # <<>> /\ Len(x) \in Nat
    BY <1>0
  <2>4. I2cTypeOK'
    BY <1>0, <2>1, <2>3 DEF I2cTypeOK
  <2>5. /\ iat'[a] = "start" /\ msgs'[a] = x /\ xfer'[a] = x /\ wire'[a] = <<>>
        /\ got'[a] = <<>> /\ by'[a] = <<>>
    BY <1>0, <2>1 DEF I2cTypeOK
  <2>6. Suffix(x, x) /\ Done(a)' = 0
    BY <2>3, <2>5 DEF Suffix, Done
  <2>. QED
    BY <1>0, <2>1, <2>2, <2>3, <2>4, <2>5, <2>6 DEF I2cStepInv, I2cWireInv, Busy
<1>5. CASE I2cStartReturn(a)
  <2>1. CASE XferFail(a)
    BY <1>5, <2>1, XferFailKeeps DEF I2cStartReturn, Busy
  <2>2. CASE /\ I2cData(a, Truncated(Head(msgs[a])))
             /\ UNCHANGED <<msgs, iret, xfer, got, wire, by>>
    <3>1. /\ iat[a] = "start" /\ iat' = [iat EXCEPT ![a] = "data"] /\ devs' = devs /\ held' = held /\ i2cs' = i2cs
          /\ ph[a] = "idle"
      BY <1>5, <2>2 DEF I2cStartReturn, I2cData, probeVars
    <3>2. PICK c \in {"I2C_READ", "I2C_WRITE"} : Invoke(a, c, "read") \/ Refuse(a, c, "read")
      BY <2>2 DEF I2cData
    <3>3. ~Ran(a)' /\ cmd'[a] \in {"I2C_READ", "I2C_WRITE"} /\ kind'[a] = "read" /\ dirty' = dirty
      BY <1>0, <3>2, CalledFacts
    <3>4. I2cTypeOK' /\ iat'[a] = "data"
      BY <1>0, <2>2, <3>1 DEF I2cTypeOK
    <3>5. Done(a)' = Done(a)
      BY <2>2 DEF Done
    <3>. QED
      BY <1>0, <2>2, <3>1, <3>3, <3>4, <3>5 DEF I2cStepInv, I2cWireInv, Busy, Clean
  <2>. QED
    BY <1>5, <2>1, <2>2 DEF I2cStartReturn
<1>6. CASE I2cDataReturn(a)
  <2>1. CASE XferFail(a)
    BY <1>6, <2>1, XferFailKeeps DEF I2cDataReturn, Busy
  <2>2. CASE ~XferFail(a)
    <3>1. /\ iat[a] = "data" /\ ph[a] = "idle" /\ Accept(a) /\ devs' = devs
          /\ UNCHANGED <<msgs, iret, xfer, wire, by, held, i2cs>>
          /\ \/ iat' = [iat EXCEPT ![a] = "copy"] /\ UNCHANGED <<vars, got>>
             \/ /\ got' = [got EXCEPT ![a] = Append(@, buf[a])]
                /\ iat' = [iat EXCEPT ![a] = "stop"] /\ Invoke(a, "I2C_STOP", "read")
      BY <1>6, <2>2 DEF I2cDataReturn, Command, probeVars
    <3>2. Ran(a) /\ Done(a)' = Done(a)
      BY <3>1 DEF Accept, Ran, Done
    <3>3. CASE iat' = [iat EXCEPT ![a] = "copy"] /\ UNCHANGED <<vars, got>>
      <4>1. iat'[a] = "copy" /\ UNCHANGED <<ph, ret, cmd, kind, n, dirty, got>>
        BY <1>0, <3>3 DEF I2cTypeOK, vars
      <4>2. I2cTypeOK'
        BY <1>0, <3>1, <3>3 DEF I2cTypeOK
      <4>3. Ran(a)' /\ Id(a)' = Id(a)
        BY <3>2, <4>1 DEF Ran, Id
      <4>4. I2cStepInv(a)'
        BY <1>0, <3>1, <3>2, <4>1, <4>3 DEF I2cStepInv, Busy
      <4>5. I2cWireInv(a)'
        BY <1>0, <3>1, <3>2, <4>1, <4>3 DEF I2cWireInv, Clean
      <4>. QED
        BY <4>2, <4>4, <4>5
    <3>4. CASE /\ got' = [got EXCEPT ![a] = Append(@, buf[a])]
               /\ iat' = [iat EXCEPT ![a] = "stop"] /\ Invoke(a, "I2C_STOP", "read")
      BY <3>1, <3>2, <3>4, TakenKeeps
    <3>. QED
      BY <3>1, <3>3, <3>4
  <2>. QED
    BY <2>1, <2>2
<1>8. CASE I2cCopy(a)
  <2>1. /\ iat[a] = "copy" /\ devs' = devs
        /\ UNCHANGED <<msgs, iret, xfer, wire, by, held, i2cs>>
        /\ got' = [got EXCEPT ![a] = Append(@, buf[a])]
        /\ iat' = [iat EXCEPT ![a] = "stop"] /\ Invoke(a, "I2C_STOP", "read")
    BY <1>8 DEF I2cCopy, Command, probeVars
  <2>2. Ran(a) /\ ph[a] = "idle"
    BY <1>0, <2>1 DEF I2cStepInv, Busy
  <2>. QED
    BY <2>1, <2>2, TakenKeeps
<1>7. CASE I2cStopReturn(a)
  <2>1. CASE XferFail(a)
    BY <1>7, <2>1, XferFailKeeps DEF I2cStopReturn, Busy
  <2>2. CASE ~XferFail(a)
    <3>1. /\ iat[a] = "stop" /\ ph[a] = "idle" /\ Accept(a) /\ devs' = devs
          /\ UNCHANGED <<xfer, got, wire, by, held, i2cs>>
          /\ msgs' = [msgs EXCEPT ![a] = Tail(@)]
          /\ IF Len(msgs[a]) > 1
               THEN /\ iat' = [iat EXCEPT ![a] = "start"] /\ Invoke(a, "I2C_START", "read")
                    /\ iret' = iret
               ELSE /\ iat' = [iat EXCEPT ![a] = "idle"] /\ UNCHANGED vars
                    /\ iret' = [iret EXCEPT ![a] = "ok"]
      BY <1>7, <2>2 DEF I2cStopReturn, Command, XferEnd, StopOk, probeVars
    <3>2. /\ Ran(a) /\ a \in devs /\ msgs[a] # <<>> /\ Suffix(msgs[a], xfer[a])
          /\ msgs[a] \in Seq(Messages) /\ xfer[a] \in Seq(Messages)
      BY <1>0, <3>1 DEF Accept, Ran, I2cStepInv, Busy, I2cTypeOK
    <3>3. /\ Tail(msgs[a]) \in Seq(Messages) /\ Len(Tail(msgs[a])) = Len(msgs[a]) - 1
          /\ Suffix(Tail(msgs[a]), xfer[a]) /\ Len(msgs[a]) \in Nat /\ Len(xfer[a]) \in Nat /\ Len(msgs[a]) >= 1
      BY <3>2, TailFacts
    <3>4. msgs'[a] = Tail(msgs[a]) /\ Done(a)' = Done(a) + 1
      BY <1>0, <3>1, <3>3 DEF Done, I2cTypeOK
    <3>5. I2cTypeOK'
      BY <1>0, <3>1, <3>3 DEF I2cTypeOK
    <3>6. CASE Len(msgs[a]) > 1
      <4>1. ~Ran(a)' /\ cmd'[a] = "I2C_START" /\ kind'[a] = "read" /\ dirty' = dirty
        BY <1>0, <3>1, <3>6, CalledFacts
      <4>2. iat'[a] = "start" /\ iret' = iret /\ msgs'[a] # <<>>
        <5>1. Len(Tail(msgs[a])) > 0
          BY <3>3, <3>6
        <5>2. Tail(msgs[a]) # <<>>
          <6>1. \A u \in Seq(Messages) : Len(u) > 0 => u # <<>>
            OBVIOUS
          <6>. QED
            BY <3>3, <5>1, <6>1
        <5>. QED
          BY <1>0, <3>1, <3>4, <3>6, <5>2 DEF I2cTypeOK
      <4>3. I2cStepInv(a)'
        BY <1>0, <3>1, <3>2, <3>3, <3>4, <4>1, <4>2 DEF I2cStepInv, Busy
      <4>4. I2cWireInv(a)'
        BY <1>0, <3>1, <3>2, <3>4, <4>1, <4>2 DEF I2cWireInv, Clean
      <4>. QED
        BY <3>5, <4>3, <4>4
    <3>7. CASE ~(Len(msgs[a]) > 1)
      <4>1. ph' = ph /\ dirty' = dirty /\ ret' = ret /\ iat'[a] = "idle"
        BY <1>0, <3>1, <3>7 DEF I2cTypeOK, vars
      <4>2. Done(a) + 1 = Len(xfer[a])
        <5>1. Len(msgs[a]) = 1
          <6>1. \A l \in Nat : l >= 1 /\ ~(l > 1) => l = 1
            OBVIOUS
          <6>. QED
            BY <3>3, <3>7, <6>1
        <5>2. \A l, m \in Nat : m = 1 => l - m + 1 = l
          OBVIOUS
        <5>. QED
          BY <3>3, <5>1, <5>2 DEF Done
      <4>3. I2cStepInv(a)'
        BY <1>0, <3>1, <3>2, <4>1 DEF I2cStepInv, Busy
      <4>4. I2cWireInv(a)'
        BY <1>0, <3>1, <3>2, <4>1, <4>2 DEF I2cWireInv, Clean
      <4>. QED
        BY <3>5, <4>3, <4>4
    <3>. QED
      BY <3>6, <3>7
  <2>. QED
    BY <2>1, <2>2
<1>. QED
  BY <1>1, <1>2, <1>3, <1>4, <1>5, <1>6, <1>7, <1>8 DEF I2cStep

LEMMA I2cKeeps ==
  ASSUME IInv, NEW a \in Adapters, I2cStep(a)
  PROVE  I2cTypeOK' /\ I2cInv'
<1>1. I2cTypeOK /\ TypeOK /\ CallInv /\ a \in Threads
  BY ThreadFacts DEF IInv, TypeOKDevice
<1>2. DriverStep(a, a)
  BY I2cIsDriver
<1>3. ASSUME NEW b \in Adapters, b # a PROVE I2cStepInv(b)' /\ I2cWireInv(b)'
  <2>1. dirty' = dirty /\ Kept(b) /\ (b \in devs => b \in devs')
    BY <1>1, <1>2, <1>3, DriverCalls, ThreadFacts DEF DriverStep
  <2>2. I2cFrame(b)
    BY <1>1, <1>3, <2>1, I2cOwnOnly DEF I2cFrame, Kept
  <2>. QED
    BY <2>2, I2cKept DEF IInv, I2cInv
<1>. QED
  BY <1>3, I2cStepKeeps DEF I2cInv

-----------------------------------------------------------------------------
(* Steps of the SPI driver and of its removal.                             *)

LEMMA SpiIsDriver ==
  ASSUME IInv, SpiClient
  PROVE  /\ \E t \in {Spi, SpiRm} : DriverStep(t, Spi)
         /\ devs' \subseteq devs /\ UNCHANGED <<board, probe, reading, stubs, cells>>
<1>1. ASSUME UNCHANGED vars \/ \E c \in Cmds, k \in Kinds : Invoke(Spi, c, k) \/ Refuse(Spi, c, k),
             UNCHANGED probeVars
      PROVE  DriverStep(Spi, Spi) /\ devs' \subseteq devs
             /\ UNCHANGED <<board, probe, reading, stubs, cells>>
  BY <1>1 DEF DriverStep, probeVars
<1>2. {"SPI_INIT", "SPI_DEINIT", "SPI_READ", "SPI_WRITE", "SPI_WRITEREAD"} \subseteq Cmds
      /\ {"read", "ack"} \subseteq Kinds
  BY CmdsAssumption DEF Kinds
<1>3. CASE SpiProbe \/ SpiInitReturn \/ SpiReadWriteReturn
  BY <1>1, <1>3 DEF SpiProbe, SpiInitReturn, SpiReadWriteReturn
<1>4. CASE SpiNext
  <2>1. UNCHANGED vars \/ \E c \in {"SPI_WRITEREAD", "SPI_WRITE", "SPI_READ"} : Invoke(Spi, c, "read")
    BY <1>4 DEF SpiNext
  <2>. QED
    BY <1>1, <1>2, <1>4, <2>1 DEF SpiNext
<1>5. ASSUME NEW t \in SpiXfers, SpiTransferOne(t)
      PROVE  DriverStep(Spi, Spi) /\ devs' \subseteq devs
             /\ UNCHANGED <<board, probe, reading, stubs, cells>>
  BY <1>1, <1>2, <1>5 DEF SpiTransferOne
<1>6. CASE SpiRemove
  <2>1. DriverStep(SpiRm, Spi)
    BY <1>2, <1>6 DEF SpiRemove, DriverStep, probeVars
  <2>. QED
    BY <1>6, <2>1 DEF SpiRemove, probeVars
<1>7. CASE SpiRemoveReturn \/ SpiRemoveUnbound
  BY <1>7 DEF SpiRemoveReturn, SpiRemoveUnbound, DriverStep
<1>. QED
  BY <1>3, <1>4, <1>5, <1>6, <1>7 DEF SpiClient

\* The chunk after the i-th begins where that one ends; none is left exactly
\* when all bytes are sent.
LEMMA NextChunk ==
  ASSUME SpiTypeOK, SpiOffsetInv, sat \in {"init", "next", "data"}
  PROVE  /\ Total \in Nat /\ idx \in Nat /\ idx <= Total /\ Length(cur) \in Nat
         /\ Remaining <= 0 <=> idx = Total
         /\ idx < Total => off + CurLen = IF idx + 1 = Total THEN Length(cur) ELSE (idx + 1) * MaxChunk
         /\ idx < Total => off + CurLen \in Nat
<1>1. Length(cur) \in Nat
  BY SpeedFacts DEF SpiTypeOK
<1>2. Total = ChunkCount(Length(cur)) /\ Total \in Nat
  BY <1>1, ChunkFacts DEF Total
<1>3. idx \in Nat /\ idx <= Total /\ off = IF idx = Total THEN Length(cur) ELSE idx * MaxChunk
  BY DEF SpiTypeOK, SpiOffsetInv
<1>4. CASE idx = Total
  BY <1>1, <1>2, <1>3, <1>4 DEF Remaining
<1>5. CASE idx # Total
  <2>1. idx < Total /\ off = idx * MaxChunk
    BY <1>2, <1>3, <1>5
  <2>2. /\ idx * MaxChunk \in Nat
        /\ Length(cur) - idx * MaxChunk > 0
        /\ Length(cur) - idx * MaxChunk > MaxChunk <=> idx + 1 < Total
        /\ (idx + 1) * MaxChunk = idx * MaxChunk + MaxChunk
    BY <1>1, <1>2, <1>3, <2>1, ChunkFacts
  <2>3. MaxChunk \in Nat /\ (idx + 1 < Total \/ idx + 1 = Total)
    BY <1>2, <1>3, <2>1, SpiWidthAssumption
  <2>. DEFINE o == idx * MaxChunk
              l == Length(cur)
  <2>. HIDE DEF o, l
  <2>4. /\ off = o /\ o \in Nat /\ l \in Nat /\ l - o > 0
        /\ l - o > MaxChunk <=> idx + 1 < Total
        /\ (idx + 1) * MaxChunk = o + MaxChunk
    BY <1>1, <2>1, <2>2 DEF o, l
  <2>5. Remaining = l - o
    BY <2>4 DEF Remaining, l
  <2>6. ~(Remaining <= 0)
    BY <2>4, <2>5
  <2>7. CASE idx + 1 < Total
    <3>1. CurLen = MaxChunk /\ off + CurLen = o + MaxChunk
      BY <2>4, <2>5, <2>7 DEF CurLen
    <3>. QED
      BY <1>1, <1>2, <1>3, <1>5, <2>3, <2>4, <2>6, <2>7, <3>1
  <2>8. CASE idx + 1 = Total
    <3>1. CurLen = l - o
      BY <1>2, <2>4, <2>5, <2>8 DEF CurLen
    <3>2. off + CurLen = l
      BY <2>4, <3>1
    <3>. QED
      BY <1>1, <1>2, <1>3, <1>5, <2>6, <2>8, <3>2 DEF l
  <2>. QED
    BY <2>3, <2>7, <2>8
<1>. QED
  BY <1>4, <1>5

LEMMA SpiTransferKeeps ==
  ASSUME IInv, NEW t \in SpiXfers, SpiTransferOne(t), cut' = cut
  PROVE  SpiTypeOK' /\ SpiInv'
<1>0. SpiTypeOK /\ TypeOK /\ SpiStepInv /\ SpiConfigInv /\ SpiChunkInv /\ MaxSpi \in Nat
  BY SpiWidthAssumption DEF IInv, TypeOKDevice, SpiInv
<1>1. /\ sat = "idle" /\ cur' = t /\ off' = 0 /\ idx' = 0 /\ rcv' = <<>> /\ sret' = "none"
      /\ spis' = spis + 1 /\ spis < MaxSpi /\ UNCHANGED <<cache, ctl, devs, probe>>
      /\ sat' \in {"next", "init"}
  BY DEF SpiTransferOne, probeVars
<1>2. /\ dirty' = dirty /\ Kept(SpiRm)
      /\ sat' = "init" => ~Ran(Spi)' /\ cmd'[Spi] = "SPI_INIT"
      /\ sat' = "next" => Configured(t) /\ ph'[Spi] = "idle"
  <2>1. CASE Configured(t)
    BY <1>0, <1>1, <2>1 DEF SpiTransferOne, vars, Kept, SpiStepInv
  <2>2. CASE ~Configured(t)
    <3>1. Invoke(Spi, "SPI_INIT", "ack") /\ sat' = "init"
      BY <2>2 DEF SpiTransferOne
    <3>. QED
      BY <1>0, <3>1, CalledFacts, InvokeStep, ThreadFacts DEF NewCall
  <2>. QED
    BY <2>1, <2>2
<1>3. SpiTypeOK'
  <2>1. spis' \in 0 .. MaxSpi
    BY <1>0, <1>1 DEF SpiTypeOK
  <2>. QED
    BY <1>0, <1>1, <2>1 DEF SpiTypeOK
<1>4. SpiStepInv'
  BY <1>0, <1>1, <1>2 DEF SpiStepInv, Kept
<1>5. sat' = "next" => cache = CacheOf(t)
  <2>1. cache \in Configs
    BY <1>0 DEF SpiTypeOK
  <2>2. cache.speed % 256 = cache.speed /\ cache = [mode |-> cache.mode, speed |-> cache.speed]
    BY <2>1 DEF Configs
  <2>. QED
    BY <1>2, <2>2 DEF Configured, CacheOf
<1>6. SpiConfigInv'
  BY <1>0, <1>1, <1>2, <1>5 DEF SpiConfigInv, Clean, Kept, CacheOf
<1>7. SpiOffsetInv' /\ SpiChunkInv'
  <2>1. Length(t) \in Nat
    BY SpeedFacts
  <2>2. Total' = ChunkCount(Length(t)) /\ Length(cur)' = Length(t)
    BY <1>1 DEF Total, Length
  <2>3. ChunkCount(Length(t)) \in Nat /\ (ChunkCount(Length(t)) = 0 <=> Length(t) = 0)
    BY <2>1, ChunkFacts
  <2>4. 0 * MaxChunk = 0
    BY SpiWidthAssumption
  <2>. QED
    BY <1>1, <1>2, <2>1, <2>2, <2>3, <2>4 DEF SpiOffsetInv, SpiChunkInv
<1>. QED
  BY <1>3, <1>4, <1>6, <1>7 DEF SpiInv

LEMMA SpiNextKeeps ==
  ASSUME IInv, SpiNext, cut' = cut
  PROVE  SpiTypeOK' /\ SpiInv'
<1>0. SpiTypeOK /\ TypeOK /\ SpiStepInv /\ SpiConfigInv /\ SpiOffsetInv /\ SpiChunkInv
  BY DEF IInv, TypeOKDevice, SpiInv
<1>1. sat = "next" /\ UNCHANGED <<cur, off, idx, cache, ctl, rcv, spis, devs, probe>>
  BY DEF SpiNext, probeVars
<1>2. /\ Total' = Total /\ Length(cur)' = Length(cur) /\ sret = "none" /\ ph[Spi] = "idle"
      /\ ("SPI" \notin cut => Len(rcv) = idx)
      /\ (Remaining <= 0 <=> idx = Total) /\ idx <= Total /\ idx \in Nat /\ Total \in Nat
  BY <1>0, <1>1, NextChunk DEF Total, Length, SpiChunkInv, SpiStepInv
<1>3. CASE sat' = "idle" /\ UNCHANGED vars /\ sret' \in {"ok", "error"} /\ (sret' = "ok" => Remaining <= 0)
  <2>1. SpiTypeOK'
    BY <1>0, <1>1, <1>3 DEF SpiTypeOK
  <2>2. SpiStepInv'
    BY <1>0, <1>1, <1>2, <1>3 DEF SpiStepInv, vars
  <2>3. SpiConfigInv'
    BY <1>0, <1>1, <1>3 DEF SpiConfigInv, vars, Clean
  <2>4. SpiOffsetInv' /\ SpiChunkInv'
    BY <1>0, <1>1, <1>2, <1>3 DEF SpiOffsetInv, SpiChunkInv
  <2>. QED
    BY <2>1, <2>2, <2>3, <2>4 DEF SpiInv
<1>4. ASSUME NEW c \in {"SPI_WRITEREAD", "SPI_WRITE", "SPI_READ"}, Invoke(Spi, c, "read"),
             sat' = "data", sret' = sret, ~(Remaining <= 0)
      PROVE  SpiTypeOK' /\ SpiInv'
  <2>1. ~Ran(Spi)' /\ cmd'[Spi] = c /\ dirty' = dirty /\ Kept(SpiRm)
    BY <1>0, <1>4, CalledFacts, InvokeStep, ThreadFacts DEF NewCall
  <2>2. SpiTypeOK'
    BY <1>0, <1>1, <1>4 DEF SpiTypeOK
  <2>3. SpiStepInv'
    BY <1>0, <1>1, <1>4, <2>1 DEF SpiStepInv, Kept
  <2>4. SpiConfigInv'
    BY <1>0, <1>1, <1>4, <2>1 DEF SpiConfigInv, Clean, Kept, CacheOf
  <2>5. SpiOffsetInv' /\ SpiChunkInv'
    <3>1. idx < Total
      BY <1>2, <1>4
    <3>2. SpiOffsetInv'
      BY <1>0, <1>1, <1>2, <1>4, <3>1 DEF SpiOffsetInv
    <3>. QED
      BY <1>0, <1>1, <1>2, <1>4, <2>1, <3>1, <3>2 DEF SpiChunkInv
  <2>. QED
    BY <2>2, <2>3, <2>4, <2>5 DEF SpiInv
<1>5. CASE /\ Remaining > 0 /\ sat' = "data" /\ sret' = sret
           /\ \E c \in {"SPI_WRITEREAD", "SPI_WRITE", "SPI_READ"} : Invoke(Spi, c, "read")
  <2>1. ~(Remaining <= 0)
    <3>1. Remaining \in Int
      BY <1>0, <1>1, NextChunk DEF Remaining, SpiTypeOK
    <3>. QED
      BY <1>5, <3>1
  <2>. QED
    BY <1>4, <1>5, <2>1
<1>6. \/ sat' = "idle" /\ UNCHANGED vars /\ sret' \in {"ok", "error"} /\ (sret' = "ok" => Remaining <= 0)
      \/ /\ Remaining > 0 /\ sat' = "data" /\ sret' = sret
         /\ \E c \in {"SPI_WRITEREAD", "SPI_WRITE", "SPI_READ"} : Invoke(Spi, c, "read")
  BY DEF SpiNext, SpiEnd
<1>. QED
  BY <1>3, <1>5, <1>6

\* The steps that make no call.
LEMMA SpiReturnKeeps ==
  ASSUME IInv, SpiProbe \/ SpiInitReturn \/ SpiReadWriteReturn \/ SpiRemoveReturn \/ SpiRemoveUnbound,
         cut' = cut
  PROVE  SpiTypeOK' /\ SpiInv'
<1>0. SpiTypeOK /\ TypeOK /\ SpiStepInv /\ SpiConfigInv /\ SpiOffsetInv /\ SpiChunkInv
  BY DEF IInv, TypeOKDevice, SpiInv
<1>1. UNCHANGED <<ph, ret, cmd, n, dirty, cur, ctl, rcv, spis>>
  BY DEF SpiProbe, SpiInitReturn, SpiReadWriteReturn, SpiRemoveReturn, SpiRemoveUnbound, vars
<1>2. Total' = Total /\ Length(cur)' = Length(cur)
  BY <1>1 DEF Total, Length
<1>3. CASE SpiProbe
  <2>1. /\ sat = "off" /\ sat' = "idle" /\ UNCHANGED <<off, idx, cache, sret, devs, probe>>
        /\ Spi \in devs
    BY <1>3 DEF SpiProbe, probeVars
  <2>2. SpiTypeOK'
    BY <1>0, <1>1, <2>1 DEF SpiTypeOK
  <2>3. SpiStepInv'
    BY <1>0, <1>1, <2>1 DEF SpiStepInv
  <2>4. SpiConfigInv'
    BY <1>0, <1>1, <2>1 DEF SpiConfigInv, Clean
  <2>5. SpiOffsetInv' /\ SpiChunkInv'
    BY <1>0, <1>1, <1>2, <2>1 DEF SpiOffsetInv, SpiChunkInv
  <2>. QED
    BY <2>2, <2>3, <2>4, <2>5 DEF SpiInv
<1>4. CASE SpiInitReturn
  <2>1. /\ sat = "init" /\ ph[Spi] = "idle" /\ UNCHANGED <<off, idx, devs, probe>>
        /\ IF ret[Spi] = "ok" THEN cache' = CacheOf(cur) /\ sat' = "next" /\ sret' = sret
                              ELSE sat' = "idle" /\ sret' = "error" /\ cache' = cache
    BY <1>4 DEF SpiInitReturn, SpiEnd, probeVars
  <2>2. CacheOf(cur) \in Configs
    BY <1>0, SpeedFacts DEF SpiTypeOK
  <2>3. SpiTypeOK'
    BY <1>0, <1>1, <2>1, <2>2 DEF SpiTypeOK
  <2>4. SpiStepInv'
    BY <1>0, <1>1, <2>1 DEF SpiStepInv
  <2>5. SpiConfigInv'
    BY <1>0, <1>1, <2>1 DEF SpiConfigInv, Clean, Ran, CacheOf
  <2>6. SpiOffsetInv' /\ SpiChunkInv'
    BY <1>0, <1>1, <1>2, <2>1 DEF SpiOffsetInv, SpiChunkInv, SpiStepInv
  <2>. QED
    BY <2>3, <2>4, <2>5, <2>6 DEF SpiInv
<1>5. CASE SpiReadWriteReturn
  <2>1. /\ sat = "data" /\ ph[Spi] = "idle" /\ UNCHANGED <<cache, devs, probe>>
        /\ \/ /\ ret[Spi] = "ok" /\ sat' = "next" /\ sret' = sret
              /\ off' = off + CurLen /\ idx' = idx + 1
           \/ sat' = "idle" /\ sret' = "error" /\ off' = off /\ idx' = idx
    BY <1>5 DEF SpiReadWriteReturn, SpiEnd, probeVars
  <2>2. /\ idx \in Nat /\ Total \in Nat /\ idx < Total
        /\ off + CurLen = IF idx + 1 = Total THEN Length(cur) ELSE (idx + 1) * MaxChunk
        /\ off + CurLen \in Nat
    BY <1>0, <2>1, NextChunk DEF SpiOffsetInv
  <2>3. SpiTypeOK'
    BY <1>0, <1>1, <2>1, <2>2 DEF SpiTypeOK
  <2>4. SpiStepInv'
    BY <1>0, <1>1, <2>1 DEF SpiStepInv
  <2>5. SpiConfigInv'
    BY <1>0, <1>1, <2>1 DEF SpiConfigInv, Clean, CacheOf
  <2>6. SpiOffsetInv' /\ SpiChunkInv'
    <3>1. ret[Spi] = "ok" /\ "SPI" \notin cut => Len(rcv) = idx + 1
      BY <1>0, <2>1 DEF SpiChunkInv, Ran
    <3>2. idx + 1 <= Total /\ idx + 1 \in Nat
      BY <2>2
    <3>3. SpiOffsetInv'
      BY <1>0, <1>1, <1>2, <2>1, <2>2, <3>2 DEF SpiOffsetInv
    <3>. QED
      BY <1>0, <1>1, <1>2, <2>1, <2>2, <3>1, <3>2, <3>3 DEF SpiChunkInv
  <2>. QED
    BY <2>3, <2>4, <2>5, <2>6 DEF SpiInv
<1>6. CASE SpiRemoveReturn \/ SpiRemoveUnbound
  <2>1. /\ sat \in {"idle", "off"} /\ sat' = "gone" /\ Spi \in devs /\ Spi \notin devs'
        /\ ph[SpiRm] = "idle" /\ UNCHANGED <<off, idx, cache, sret, probe>>
    BY <1>0, <1>6 DEF SpiRemoveReturn, SpiRemoveUnbound, SpiStepInv
  <2>2. probe \notin Probing
    BY <2>1 DEF IInv, ProbeInv
  <2>3. SpiTypeOK'
    BY <1>0, <1>1, <2>1 DEF SpiTypeOK
  <2>4. SpiStepInv'
    BY <1>0, <1>1, <2>1, <2>2 DEF SpiStepInv
  <2>5. SpiConfigInv'
    BY <1>0, <1>1, <2>1 DEF SpiConfigInv, Clean
  <2>6. SpiOffsetInv' /\ SpiChunkInv'
    BY <1>0, <1>1, <1>2, <2>1 DEF SpiOffsetInv, SpiChunkInv
  <2>. QED
    BY <2>3, <2>4, <2>5, <2>6 DEF SpiInv
<1>. QED
  BY <1>3, <1>4, <1>5, <1>6

LEMMA SpiKeeps ==
  ASSUME IInv, SpiClient, cut' = cut
  PROVE  SpiTypeOK' /\ SpiInv'
<1>1. CASE SpiRemove
  <2>0. SpiTypeOK /\ TypeOK /\ SpiStepInv /\ SpiConfigInv /\ SpiOffsetInv /\ SpiChunkInv
    BY DEF IInv, TypeOKDevice, SpiInv
  <2>1. Invoke(SpiRm, "SPI_DEINIT", "ack") /\ UNCHANGED <<probeVars, spiVars>> /\ Spi \in devs /\ sat # "off"
    BY <1>1 DEF SpiRemove
  <2>2. /\ dirty' = dirty /\ Kept(Spi) /\ cmd'[SpiRm] = "SPI_DEINIT"
        /\ n'[SpiRm] = n[SpiRm] + 1 /\ n[SpiRm] \in Nat
    BY <2>0, <2>1, InvokeStep, ThreadFacts, BoundsAssumption DEF NewCall, TypeOK
  <2>3. SpiTypeOK'
    BY <2>0, <2>1 DEF SpiTypeOK, spiVars
  <2>4. SpiStepInv'
    BY <2>0, <2>1, <2>2 DEF SpiStepInv, spiVars, probeVars, Kept
  <2>5. SpiConfigInv'
    BY <2>0, <2>1, <2>2 DEF SpiConfigInv, spiVars, CacheOf
  <2>6. SpiOffsetInv' /\ SpiChunkInv'
    <3>1. Total' = Total /\ Length(cur)' = Length(cur) /\ UNCHANGED <<sat, off, idx, sret, rcv>>
      BY <2>1 DEF Total, Length, spiVars
    <3>. QED
      BY <2>0, <2>2, <3>1 DEF SpiOffsetInv, SpiChunkInv, Ran, Kept
  <2>. QED
    BY <2>3, <2>4, <2>5, <2>6 DEF SpiInv
<1>. QED
  BY <1>1, SpiTransferKeeps, SpiNextKeeps, SpiReturnKeeps DEF SpiClient

-----------------------------------------------------------------------------
(* The invariant.                                                          *)

LEMMA InitHolds ==
  ASSUME DeviceInit
  PROVE  IInv
<1>. USE DEF DeviceInit
<1>1. TypeOK
  BY BoundsAssumption DEF Init, TypeOK, Kinds, Ids
<1>2. CallInv
  BY DEF Init, CallInv, Begun, Fresh, OwnBuffer
<1>3. /\ board \in Boards \cup Ready /\ board \subseteq Functions /\ cells \in {{}, board} /\ devs = cells
      /\ \A d \in Functions : TypeOf[d] \in {"GPIO", "I2C", "SPI"}
      /\ n[Mng] = 0 /\ ph[Mng] = "idle"
  BY FunctionsAssumption, ThreadFacts DEF Functions, ProbeInit, Init
<1>4. ProbeTypeOK /\ ProbeInv
  <2>1. CASE probe = "start"
    BY <1>3, <2>1 DEF ProbeInit, ProbeTypeOK, ProbeInv, Probing, CellsAnnounced
  <2>2. CASE probe # "start"
    <3>1. /\ probe = "done" /\ reading = TRUE /\ cells = board
          /\ stubs = {"MNG", "DIAG"} \cup {TypeOf[d] : d \in board}
      BY <2>2 DEF ProbeInit
    <3>. QED
      BY <1>3, <3>1 DEF ProbeTypeOK, ProbeInv, Probing, CellsAnnounced
  <2>. QED
    BY <2>1, <2>2
<1>5. PinTypeOK /\ PinInv
  BY GpioAssumption, BoundsAssumption, ThreadFacts DEF Init, PinInit, PinTypeOK, PinInv, ValueNotStale
<1>6. I2cTypeOK
  BY I2cWidthAssumption DEF I2cInit, I2cTypeOK
<1>7. ASSUME NEW a \in Adapters PROVE I2cStepInv(a) /\ I2cWireInv(a)
  <2>1. /\ ph[a] = "idle" /\ iat[a] = (IF a \in devs THEN "idle" ELSE "off") /\ iret[a] = "none"
        /\ wire[a] = <<>>
    BY ThreadFacts DEF Init, I2cInit
  <2>. QED
    BY <2>1 DEF I2cStepInv, I2cWireInv, Busy
<1>8. SpiTypeOK /\ SpiInv
  <2>1. SpiTypeOK
    BY SpiWidthAssumption DEF SpiInit0, SpiTypeOK, Configs, Reset
  <2>2. SpiStepInv
    BY ThreadFacts DEF SpiInit0, SpiStepInv, Init
  <2>3. SpiConfigInv
    BY DEF SpiInit0, SpiConfigInv
  <2>4. SpiOffsetInv /\ SpiChunkInv
    <3>1. Length(cur) \in Nat
      BY <2>1, SpeedFacts DEF SpiTypeOK
    <3>2. Total \in Nat
      BY <3>1, ChunkFacts DEF Total
    <3>. QED
      BY <3>2 DEF SpiInit0, SpiOffsetInv, SpiChunkInv
  <2>. QED
    BY <2>1, <2>2, <2>3, <2>4 DEF SpiInv
<1>9. fails \in 0 .. MaxFails /\ cut \subseteq {StubOf[t] : t \in Threads}
  BY BoundsAssumption
<1>. QED
  BY <1>1, <1>2, <1>4, <1>5, <1>6, <1>7, <1>8, <1>9 DEF IInv, TypeOKDevice, I2cInv

LEMMA StepKeeps ==
  ASSUME IInv, [DeviceNext]_deviceVars
  PROVE  IInv'
<1>. USE DEF TypeOKDevice
<1>. DEFINE CutOK == cut \subseteq {StubOf[t] : t \in Threads}
<1>0. fails \in 0 .. MaxFails /\ CutOK /\ TypeOK /\ CallInv
  BY DEF IInv
<1>1. ASSUME Probe, UNCHANGED <<pinVars, i2cVars, spiVars, Ghosts>> PROVE IInv'
  <2>1. DriverStep(Mng, Mng) /\ Mng \in Threads /\ Mng \notin Adapters
    BY <1>1, ProbeIsDriver, ThreadFacts
  <2>2. TypeOK' /\ CallInv'
    BY <1>0, <2>1, DriverCalls
  <2>3. PinTypeOK' /\ PinInv'
    BY <1>1, <2>1, ThreadFacts, PinOther
  <2>4. I2cTypeOK' /\ I2cInv'
    BY <1>1, <2>1, I2cOther
  <2>5. SpiTypeOK' /\ SpiInv'
    BY <1>1, <2>1, ThreadFacts, SpiOther DEF Ghosts
  <2>6. fails' \in 0 .. MaxFails /\ CutOK'
    BY <1>0, <1>1 DEF Ghosts
  <2>. QED
    BY <1>1, <2>2, <2>3, <2>4, <2>5, <2>6, ProbeKeeps DEF IInv
<1>2. ASSUME GpioPins, UNCHANGED <<i2cVars, spiVars, Ghosts>> PROVE IInv'
  <2>1. /\ DriverStep(Gpio, Gpio) /\ devs' \subseteq devs /\ UNCHANGED <<board, probe, reading, stubs, cells>>
        /\ Gpio \in Threads /\ Gpio \notin Adapters /\ Gpio # Mng /\ Gpio \notin {Spi, SpiRm}
    BY <1>2, PinsIsDriver, ThreadFacts
  <2>2. TypeOK' /\ CallInv'
    BY <1>0, <2>1, DriverCalls
  <2>3. ProbeTypeOK' /\ ProbeInv'
    BY <2>1, ProbeOther
  <2>4. I2cTypeOK' /\ I2cInv'
    BY <1>2, <2>1, I2cOther
  <2>5. SpiTypeOK' /\ SpiInv'
    BY <1>2, <2>1, SpiOther DEF Ghosts
  <2>6. fails' \in 0 .. MaxFails /\ CutOK'
    BY <1>0, <1>2 DEF Ghosts
  <2>. QED
    BY <1>2, <2>2, <2>3, <2>4, <2>5, <2>6, PinKeeps DEF IInv
<1>3. ASSUME I2c, UNCHANGED <<pinVars, spiVars, Ghosts>> PROVE IInv'
  <2>1. PICK a \in Adapters : I2cStep(a)
    BY <1>3 DEF I2c, I2cStep
  <2>2. /\ DriverStep(a, a) /\ devs' \subseteq devs /\ UNCHANGED <<board, probe, reading, stubs, cells>>
        /\ a \in Threads /\ a # Gpio /\ a # Mng /\ a # Spi /\ a \notin {Spi, SpiRm}
    BY <2>1, I2cIsDriver, ThreadFacts
  <2>3. TypeOK' /\ CallInv'
    BY <1>0, <2>2, DriverCalls
  <2>4. ProbeTypeOK' /\ ProbeInv'
    BY <2>2, ProbeOther
  <2>5. PinTypeOK' /\ PinInv'
    BY <1>3, <2>2, PinOther
  <2>6. SpiTypeOK' /\ SpiInv'
    BY <1>3, <2>2, SpiOther DEF Ghosts
  <2>7. fails' \in 0 .. MaxFails /\ CutOK'
    BY <1>0, <1>3 DEF Ghosts
  <2>. QED
    BY <2>1, <2>3, <2>4, <2>5, <2>6, <2>7, I2cKeeps DEF IInv
<1>4. ASSUME SpiClient, UNCHANGED <<pinVars, i2cVars, Ghosts>> PROVE IInv'
  <2>1. PICK t \in {Spi, SpiRm} : DriverStep(t, Spi)
    BY <1>4, SpiIsDriver
  <2>2. /\ devs' \subseteq devs /\ UNCHANGED <<board, probe, reading, stubs, cells>>
        /\ t \in Threads /\ t # Gpio /\ t # Mng /\ t \notin Adapters /\ Spi # Gpio /\ Spi \notin Adapters
    BY <1>4, SpiIsDriver, ThreadFacts
  <2>3. TypeOK' /\ CallInv'
    BY <1>0, <2>1, <2>2, DriverCalls
  <2>4. ProbeTypeOK' /\ ProbeInv'
    BY <2>1, <2>2, ProbeOther
  <2>5. PinTypeOK' /\ PinInv'
    BY <1>4, <2>1, <2>2, PinOther
  <2>6. I2cTypeOK' /\ I2cInv'
    BY <1>4, <2>1, <2>2, I2cOther
  <2>7. fails' \in 0 .. MaxFails /\ CutOK'
    BY <1>0, <1>4 DEF Ghosts
  <2>8. SpiTypeOK' /\ SpiInv'
    BY <1>4, SpiKeeps DEF Ghosts
  <2>. QED
    BY <2>3, <2>4, <2>5, <2>6, <2>7, <2>8 DEF IInv
<1>5. CASE UNCHANGED deviceVars
  <2>1. UNCHANGED <<vars, probeVars, pinVars, i2cVars, spiVars, fails, cut>>
    BY <1>5 DEF deviceVars
  <2>2. DriverStep(Mng, Mng) /\ DriverStep(Gpio, Gpio) /\ devs' \subseteq devs
    BY <2>1 DEF DriverStep, probeVars
  <2>3. TypeOK' /\ CallInv'
    BY <1>0, <2>2, DriverCalls, ThreadFacts
  <2>4. ProbeTypeOK' /\ ProbeInv'
    BY <2>1, <2>2, ProbeOther, ThreadFacts DEF probeVars
  <2>5. PinTypeOK' /\ PinInv'
    BY <2>1, <2>2, PinOther, ThreadFacts
  <2>6. I2cTypeOK' /\ I2cInv'
    BY <2>1, <2>2, I2cOther, ThreadFacts
  <2>7. SpiTypeOK' /\ SpiInv'
    BY <2>1, <2>2, SpiOther, ThreadFacts
  <2>. QED
    BY <1>0, <2>1, <2>3, <2>4, <2>5, <2>6, <2>7 DEF IInv
<1>. QED
  BY <1>1, <1>2, <1>3, <1>4, <1>5, BridgeKeeps DEF DeviceNext

\* The inductive invariant holds in every reachable state of a bridge with its
\* drivers, whatever calls fail and however late answers come.
THEOREM Invariance == DeviceSpec => []IInv
<1>1. DeviceInit => IInv
  BY InitHolds
<1>2. IInv /\ [DeviceNext]_deviceVars => IInv'
  BY StepKeeps
<1>. QED
  BY <1>1, <1>2, PTL DEF DeviceSpec

-----------------------------------------------------------------------------
(* The theorems.                                                           *)

\* Every variable of the bridge, its drivers and the controllers keeps its
\* type: steps, counters, caches, buffers and chunks.
THEOREM TypeCorrect == DeviceSpec => []TypeOKDevice
<1>1. IInv => TypeOKDevice
  BY DEF IInv
<1>. QED
  BY <1>1, Invariance, PTL

\* ljca_probe and ljca_mng_enum_*: the devices made are functions the firmware
\* announced, unless a management call failed or was cut short.
THEOREM OnlyAnnounced == DeviceSpec => []CellsAnnounced
<1>1. IInv => CellsAnnounced
  BY DEF IInv, ProbeInv
<1>. QED
  BY <1>1, Invariance, PTL

\* ljca_probe's error path and ljca_disconnect: a device has its stub, and
\* stubs are freed only with the URB dead and no thread in a call, but for the
\* GPIO work item, which ljca_gpio_remove does not cancel.
THEOREM StubsOutliveCalls == DeviceSpec => []DevicesServed
<1>1. ASSUME IInv PROVE DevicesServed
  <2>1. \A d \in devs \ AllJunk : TypeOf[d] \in stubs
    BY <1>1 DEF IInv, TypeOKDevice, ProbeTypeOK, ProbeInv
  <2>2. ASSUME stubs = {}
        PROVE  ~reading /\ \A t \in Threads : ph[t] # "idle" => t = Gpio /\ trans_lock \in Works
    <3>1. probe \in {"start", "failed", "gone"}
      BY <1>1, <2>2 DEF IInv, ProbeInv
    <3>2. ~reading /\ devs = {} /\ ph[Mng] = "idle"
      BY <1>1, <3>1 DEF IInv, ProbeInv, Probing
    <3>3. ph[Gpio] # "idle" => trans_lock \in Works
      <4>1. trans_lock \in Callers \cup {None}
        BY <1>1 DEF IInv, TypeOKDevice, PinTypeOK
      <4>. QED
        BY <1>1, <3>2, <4>1 DEF IInv, PinInv
    <3>4. \A a \in Adapters : ph[a] = "idle"
      BY <1>1, <3>2 DEF IInv, I2cInv, I2cStepInv, Busy
    <3>5. ph[Spi] = "idle" /\ ph[SpiRm] = "idle"
      BY <1>1, <3>2 DEF IInv, SpiInv, SpiStepInv
    <3>. QED
      BY <3>2, <3>3, <3>4, <3>5, DeviceThreads
  <2>. QED
    BY <2>1, <2>2 DEF DevicesServed
<1>. QED
  BY <1>1, Invariance, PTL

\* ljca_i2c_xfer: a transfer that returns success on a stub where no call
\* failed or was cut short has moved every message, in order and whole, took
\* for each the answer to the command that moved it, and released the bus.
THEOREM TransfersComplete == DeviceSpec => []XferComplete
<1>1. ASSUME IInv PROVE XferComplete
  <2>1. ASSUME NEW a \in Adapters, iat[a] = "idle", iret[a] = "ok", Clean(a),
               \A i \in DOMAIN xfer[a] : xfer[a][i].len < ByteMod
        PROVE  wire[a] = xfer[a] /\ got[a] = by[a] /\ ~held[a]
    <3>1. wire[a] \in Seq(Messages) /\ xfer[a] \in Seq(Messages)
      BY <1>1 DEF IInv, TypeOKDevice, I2cTypeOK
    <3>2. /\ Len(wire[a]) = Len(xfer[a]) /\ got[a] = by[a] /\ ~held[a]
          /\ \A i \in 1 .. Len(wire[a]) : wire[a][i] = Truncated(xfer[a][i])
      BY <1>1, <2>1 DEF IInv, I2cInv, I2cWireInv
    <3>3. ASSUME NEW m \in Messages, m.len < ByteMod PROVE Truncated(m) = m
      BY <3>3, I2cWidthAssumption DEF Messages, Truncated
    <3>4. \A i \in 1 .. Len(xfer[a]) : xfer[a][i] \in Messages /\ xfer[a][i].len < ByteMod
      BY <2>1, <3>1
    <3>5. \A i \in 1 .. Len(xfer[a]) : wire[a][i] = xfer[a][i]
      BY <3>2, <3>3, <3>4
    <3>6. wire[a] = xfer[a]
      BY <3>1, <3>2, <3>5, SeqEqual
    <3>. QED
      BY <3>2, <3>6
  <2>. QED
    BY <2>1 DEF XferComplete
<1>. QED
  BY <1>1, Invariance, PTL

\* ljca_spi_transfer_one: data goes out with the mode and the rate of its
\* transfer, also when ljca_spi_init was skipped because of the cache, unless a
\* call failed or was cut short: the values of one cut short are cached all the
\* same.
THEOREM ConfigIsCached == DeviceSpec => []ConfigAgrees
<1>1. ASSUME IInv PROVE ConfigAgrees
  <2>1. ASSUME sat = "data", ctl # Reset, n[SpiRm] = 0, "SPI" \notin dirty, cur.rate \in NamedRates
        PROVE  ctl.mode = cur.mode /\ ClockOf(ctl.speed) = cur.rate
    <3>1. ctl = cache /\ cache = CacheOf(cur)
      BY <1>1, <2>1, ThreadFacts DEF IInv, SpiInv, SpiConfigInv
    <3>2. cur \in SpiXfers \cup {NoXfer}
      BY <1>1 DEF IInv, TypeOKDevice, SpiTypeOK
    <3>. QED
      BY <2>1, <3>1, <3>2, SpeedFacts
  <2>. QED
    BY <2>1 DEF ConfigAgrees
<1>. QED
  BY <1>1, Invariance, PTL

\* The loop of ljca_spi_transfer: success means that every byte was sent, in
\* numbered chunks of which the last alone is marked; after a failure the
\* chunks sent are a beginning of these. Calls may fail, but none of the stub
\* may have been cut short, which the loop takes for a chunk that was sent.
THEOREM ChunksAreWhole == DeviceSpec => []ChunksWhole
<1>1. ASSUME IInv, "SPI" \notin cut PROVE ChunksSent
  <2>. DEFINE l == Length(cur)
  <2>1. l \in Nat /\ (cur.len < ShortMod => l = cur.len) /\ rcv \in Seq(Chunks)
    BY <1>1, SpeedFacts DEF IInv, TypeOKDevice, SpiTypeOK
  <2>2. /\ Len(rcv) <= ChunkCount(l) /\ (sret = "ok" => Len(rcv) = ChunkCount(l))
        /\ \A i \in 1 .. Len(rcv) : rcv[i] = ChunksOf(l)[i]
    BY <1>1 DEF IInv, SpiInv, SpiChunkInv, Total
  <2>. HIDE DEF l
  <2>3. ChunksOf(l) \in Seq(Chunks) /\ Len(ChunksOf(l)) = ChunkCount(l) /\ ChunkCount(l) \in Nat
    BY <2>1, ChunksFacts, ChunkFacts
  <2>4. ASSUME NEW i \in DOMAIN rcv PROVE i <= Len(ChunksOf(l)) /\ rcv[i] = ChunksOf(l)[i]
    <3>1. i \in 1 .. Len(rcv) /\ Len(rcv) \in Nat
      BY <2>1
    <3>. QED
      BY <2>2, <2>3, <3>1
  <2>5. ASSUME sret = "ok" PROVE rcv = ChunksOf(l)
    BY <2>1, <2>2, <2>3, <2>5, SeqEqual
  <2>. QED
    BY <2>1, <2>4, <2>5 DEF ChunksSent, l
<1>2. IInv => ChunksWhole
  BY <1>1 DEF ChunksWhole
<1>. QED
  BY <1>2, Invariance, PTL

\* gpio_ljca_read: the value a caller is given after it released trans_lock is
\* the answer of its own read or of a later one, unless a call on the stub
\* failed or was cut short.
THEOREM ReadsAreFresh == DeviceSpec => []ValueNotStale
<1>1. IInv => ValueNotStale
  BY DEF IInv, PinInv
<1>. QED
  BY <1>1, Invariance, PTL

-----------------------------------------------------------------------------
(* The drivers and the bridge together.                                    *)

\* The drivers only use the bridge through ljca_transfer and
\* ljca_transfer_noack: what they and the firmware do is a behaviour of
\* LjcaCalls, the specification that Ljca implements with its short writes that
\* count as successes, so nothing proved here rests on calls the bridge does
\* not promise.
THEOREM DriversUseCalls == DeviceSpec => Spec
<1>1. DeviceInit => Init
  BY DEF DeviceInit
<1>2. ASSUME IInv, [DeviceNext]_deviceVars PROVE [Next]_vars
  <2>1. ASSUME NEW t \in Threads, NEW d, DriverStep(t, d) PROVE [Next]_vars
    <3>1. ASSUME NEW c \in Cmds, NEW k \in Kinds, Invoke(t, c, k) \/ Refuse(t, c, k)
          PROVE  Next
      BY <3>1 DEF Invoke, Next
    <3>. QED
      BY <2>1, <3>1 DEF DriverStep
  <2>2. CASE Probe
    BY <1>2, <2>1, <2>2, ProbeIsDriver, ThreadFacts
  <2>3. CASE GpioPins
    BY <1>2, <2>1, <2>3, PinsIsDriver, ThreadFacts
  <2>4. CASE I2c
    <3>1. PICK a \in Adapters : I2cStep(a)
      BY <2>4 DEF I2c, I2cStep
    <3>. QED
      BY <2>1, <3>1, I2cIsDriver, ThreadFacts
  <2>5. CASE SpiClient
    <3>1. PICK t \in {Spi, SpiRm} : DriverStep(t, Spi)
      BY <1>2, <2>5, SpiIsDriver
    <3>. QED
      BY <2>1, <3>1, ThreadFacts
  <2>6. ASSUME NEW t \in Threads, BridgeIssue(t) \/ BridgeFail(t) \/ BridgeCut(t) PROVE Next
    BY <2>6 DEF BridgeIssue, BridgeFail, BridgeCut, Next, Bridge
  <2>8. CASE BridgeOther
    BY <2>8 DEF BridgeOther, Next, Bridge
  <2>9. CASE UNCHANGED deviceVars
    BY <2>9 DEF deviceVars
  <2>. QED
    BY <1>2, <2>2, <2>3, <2>4, <2>5, <2>6, <2>8, <2>9 DEF DeviceNext
<1>. QED
  BY <1>1, <1>2, Invariance, PTL DEF DeviceSpec, Spec
=============================================================================
